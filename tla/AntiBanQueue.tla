---------------------------- MODULE AntiBanQueue ----------------------------
(***************************************************************************)
(* The queue every client owns (wazeko/src/client.ts:60): MessageQueue with *)
(* its default options, so one worker and an AntiBanRateLimiter of its own, *)
(* in whose default jitters (1500 to 4000 ms) there is no 0.                *)
(*                                                                         *)
(* processJob calls acquire in the turn in which its job is picked, and     *)
(* sendMessage in the turn in which acquire returns: what MessageQueue      *)
(* takes as one nondeterministic step, AcquireDone, is here the limiter's   *)
(* timers.  EventuallySettled is checked of this specification too: with    *)
(* the quota and real timers every promise is still settled.                *)
(***************************************************************************)
EXTENDS MessageQueue

CONSTANTS MaxPerWindow, Window, NormalJitter, HighJitter

VARIABLES timestamps, phase, remaining, urgent, granted

Limiter == INSTANCE RateLimiter WITH Callers <- Jobs

ASSUME SerialAssumption == maxConcurrency = 1
ASSUME LimiterAssumption ==
  /\ Window \in Nat \ {0} /\ MaxPerWindow \in Nat
  /\ NormalJitter \subseteq Nat \ {0} /\ NormalJitter # {}
  /\ HighJitter \subseteq Nat \ {0} /\ HighJitter # {}

limiterVars == <<timestamps, phase, remaining, urgent, granted>>

AntiBanInit == Init /\ Limiter!LimiterInit

\* slip: a retry is not charged to the quota.
AcquireFirstTime(j) ==
  IF attempts[j] = 0 THEN Limiter!Acquire(j, priority'[j] = "HIGH")
  ELSE Limiter!DrawJitter(j, FALSE, timestamps) /\ UNCHANGED urgent

\* processJob(j) calls acquire(priority is HIGH).
AcquireCall(j) == Limiter!Acquire(j, priority'[j] = "HIGH")

\* A step of the queue that may pick a job.
QueueStep ==
  /\ Application \/ Finally
  /\ \/ \E j \in Jobs : worker[j] # worker'[j] /\ AcquireCall(j)
     \/ worker' = worker /\ UNCHANGED limiterVars

\* A step of a job that is not about the limiter.
JobStep(j) ==
  /\ SendOk(j) \/ SendFail(j) \/ CompletedListenerThrows(j) \/ BackoffDone(j)
  /\ UNCHANGED limiterVars

QuotaTimer(j) == Limiter!QuotaTimerFires(j) /\ UNCHANGED vars
JitterTimer(j) == Limiter!JitterTimerFires(j) /\ AcquireDone(j)
Tick == Limiter!Tick /\ UNCHANGED vars

AntiBanNext ==
  \/ QueueStep
  \/ \E j \in Jobs : JobStep(j) \/ QuotaTimer(j) \/ JitterTimer(j)
  \/ Tick

antiBanVars == <<vars, limiterVars>>

AntiBanSpec ==
  /\ AntiBanInit /\ [][AntiBanNext]_antiBanVars
  /\ WF_antiBanVars(Tick)
  /\ WF_antiBanVars(QueueStep /\ Finally)
  /\ \A j \in Jobs : WF_antiBanVars(JobStep(j) \/ QuotaTimer(j) \/ JitterTimer(j))

----------------------------------------------------------------------------
\* Properties.

\* The queue of a client keeps to the quota although the limiter alone does not
\* when it is called concurrently: the number of messages handed to sendMessage
\* in the last window, retries included, is at most maxMessagesPerWindow.
SendsWithinQuota == Limiter!QuotaRespected

\* Two sends in a row are at least the shortest jitter apart, also when the
\* second is a retry or has another priority.
SendsSpaced == Limiter!Spaced

=============================================================================
