----------------------------- MODULE RateLimiter -----------------------------
(***************************************************************************)
(* AntiBanRateLimiter of wazeko/src/queue/rate-limiter.ts.                 *)
(*                                                                         *)
(* acquire() reads the quota, awaits a timer if the window is full, awaits  *)
(* a second timer (the jitter) and only then records its timestamp: between *)
(* the check and the record other calls run.  A call is in phase "quota" or *)
(* "jitter" while it awaits one of the two timers.                          *)
(*                                                                         *)
(* Time is relative: a timestamp is kept as its age, which stops growing at *)
(* Window since nothing tells older ages apart, and a timer as the time it  *)
(* has left.  A timer may fire late (Tick is always enabled) and never      *)
(* early, and Date.now() does not go backwards.                             *)
(*                                                                         *)
(* A definition marked "slip" is a mistake that no specification uses: see  *)
(* MessageQueue.                                                            *)
(***************************************************************************)
EXTENDS Integers, Sequences, FiniteSets

CONSTANTS
  Callers,       \* the concurrent callers of acquire
  MaxPerWindow,  \* options.maxMessagesPerWindow
  Window,        \* options.windowMs
  NormalJitter,  \* what getRandomJitter can return
  HighJitter     \* what acquire(true) draws instead

VARIABLES
  timestamps,  \* the ages of this.timestamps, in the order of the array
  phase,       \* the timer a caller awaits
  remaining,   \* the time that timer has left
  urgent,      \* the argument isHighPriority of the call in progress
  granted      \* history: the ages below Window of the calls that returned, oldest first

limiterVars == <<timestamps, phase, remaining, urgent, granted>>

Limits ==
  /\ timestamps \in Seq(0..Window)
  /\ phase \in [Callers -> {"idle", "quota", "jitter"}]
  /\ remaining \in [Callers -> UNION {0..t : t \in {Window} \cup NormalJitter \cup HighJitter}]
  /\ urgent \in [Callers -> BOOLEAN]
  /\ granted \in Seq(0..Window - 1)

LimiterInit ==
  /\ timestamps = <<>>
  /\ phase = [c \in Callers |-> "idle"]
  /\ remaining = [c \in Callers |-> 0]
  /\ urgent = [c \in Callers |-> FALSE]
  /\ granted = <<>>

----------------------------------------------------------------------------

\* The filter at the start of getQuotaWaitTime: the n-th age that is left is the one
\* with n fresh ones up to it.
Fresh(ts) == {k \in 1..Len(ts) : ts[k] < Window}
Prune(ts) == [n \in 1..Cardinality(Fresh(ts)) |->
                ts[CHOOSE k \in Fresh(ts) : Cardinality(Fresh(ts) \cap 1..k) = n]]

\* The result of getQuotaWaitTime.  With maxMessagesPerWindow 0 and no timestamp the
\* oldest is undefined and the result NaN, which is not > 0: no wait.
QuotaWait(ts) ==
  IF Len(ts) >= MaxPerWindow /\ ts # <<>> THEN Window - ts[1] ELSE 0

Waiting(c) == phase[c] # "idle"

Await(c, timer, time) ==
  /\ phase' = [phase EXCEPT ![c] = timer]
  /\ remaining' = [remaining EXCEPT ![c] = time]

\* this.timestamps.push(Date.now()), when the array is ts.
Record(ts) == timestamps' = Append(ts, 0) /\ granted' = Append(granted, 0)

\* slip: an urgent call skips the jitter.
DrawJitterHighNone(c, high, ts) ==
  \/ /\ high
     /\ Await(c, "idle", 0)
     /\ Record(ts)
  \/ /\ ~high
     /\ \E jitter \in NormalJitter : Await(c, "jitter", jitter)
     /\ timestamps' = ts /\ UNCHANGED granted

\* The second half of acquire, from the draw of the jitter, when the array is ts.
DrawJitter(c, high, ts) ==
  \E jitter \in IF high THEN HighJitter ELSE NormalJitter :
    \/ /\ jitter > 0
       /\ Await(c, "jitter", jitter)
       /\ timestamps' = ts /\ UNCHANGED granted
    \/ /\ jitter = 0
       /\ Await(c, "idle", 0)
       /\ Record(ts)

\* acquire(high) is called and runs to its first await.
Acquire(c, high) ==
  LET ts == Prune(timestamps) IN
  /\ phase[c] = "idle"
  /\ urgent' = [urgent EXCEPT ![c] = high]
  /\ \/ /\ QuotaWait(ts) > 0
        /\ Await(c, "quota", QuotaWait(ts))
        /\ timestamps' = ts /\ UNCHANGED granted
     \/ /\ QuotaWait(ts) = 0
        /\ DrawJitter(c, high, ts)

\* slip: the call sleeps for another window each time.
QuotaTimerRestarts(c) ==
  /\ phase[c] = "quota" /\ remaining[c] = 0
  /\ Await(c, "quota", Window)
  /\ UNCHANGED <<timestamps, urgent, granted>>

\* The quota is not read again: the call goes on to the jitter.
QuotaTimerFires(c) ==
  /\ phase[c] = "quota" /\ remaining[c] = 0
  /\ DrawJitter(c, urgent[c], timestamps)
  /\ UNCHANGED urgent

JitterTimerFires(c) ==
  /\ phase[c] = "jitter" /\ remaining[c] = 0
  /\ Await(c, "idle", 0)
  /\ Record(timestamps)
  /\ UNCHANGED urgent

\* reset() starts the count over, and the history with it.
Reset ==
  /\ timestamps' = <<>> /\ granted' = <<>>
  /\ UNCHANGED <<phase, remaining, urgent>>

Older(ages) == [k \in 1..Len(ages) |-> IF ages[k] < Window THEN ages[k] + 1 ELSE Window]

\* External: one unit of time passes.
Tick ==
  /\ timestamps' = Older(timestamps)
  /\ granted' = Prune(Older(granted))
  /\ remaining' = [c \in Callers |-> IF remaining[c] > 0 THEN remaining[c] - 1 ELSE 0]
  /\ UNCHANGED <<phase, urgent>>

LimiterNext ==
  \/ \E c \in Callers : \/ \E high \in BOOLEAN : Acquire(c, high)
                        \/ QuotaTimerFires(c)
                        \/ JitterTimerFires(c)
  \/ Reset
  \/ Tick

LimiterSpec == LimiterInit /\ [][LimiterNext]_limiterVars

----------------------------------------------------------------------------
\* Properties.

\* "sliding-window quota limits": no more than maxMessagesPerWindow calls were
\* granted in the last windowMs.
QuotaRespected == Len(granted) <= MaxPerWindow

\* "Built-in human jitter delay": two grants in a row are at least the shortest
\* jitter apart.
Spaced ==
  \A k \in 1..Len(granted) - 1 :
    \E jitter \in NormalJitter \cup HighJitter : granted[k] >= granted[k + 1] + jitter
=============================================================================
