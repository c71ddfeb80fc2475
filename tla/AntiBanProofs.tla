---------------------------- MODULE AntiBanProofs ----------------------------
(***************************************************************************)
(* The queue of a client keeps to the quota and to the jitter, for every    *)
(* number of jobs, window, quota and set of jitters.  The limiter alone     *)
(* keeps to neither: what saves it is that the queue has one worker, so the *)
(* grants do not change between the check of the quota and the record of    *)
(* the timestamp, except that old ones leave the window.                    *)
(***************************************************************************)
EXTENDS MessageQueueProofs, AntiBanQueue

Jitters == NormalJitter \cup HighJitter
Ages == Seq(0..Window)
Grants == Seq(0..Window - 1)

\* The array ts holds expired entries, then the grants gr of the window.
EndsWith(ts, gr) ==
  /\ Len(gr) <= Len(ts)
  /\ \A k \in 1..Len(ts) - Len(gr) : ts[k] = Window
  /\ \A k \in 1..Len(gr) : ts[Len(ts) - Len(gr) + k] = gr[k]

\* No two grants in the same instant: no jitter is 0.
Descending(gr) == \A k, l \in 1..Len(gr) : k < l => gr[k] > gr[l]

Separate(gr) ==
  \A k \in 1..Len(gr) - 1 : \E jitter \in Jitters : gr[k] >= gr[k + 1] + jitter

\* What a call that awaits a timer has been promised: when the quota timer fires
\* there is room in the window, when the jitter timer fires the last grant is old enough.
Promised(timer, time, gr) ==
  /\ MaxPerWindow # 0 =>
       /\ timer = "quota" => Len(gr) < MaxPerWindow \/ gr[1] + time >= Window
       /\ timer = "jitter" => Len(gr) < MaxPerWindow
  /\ timer = "jitter" =>
       \E jitter \in Jitters : gr # <<>> => gr[Len(gr)] + time >= jitter

\* The times a timer may have left.
Times == UNION {0..t : t \in {Window} \cup NormalJitter \cup HighJitter}

\* The state of the limiter: no property needs more of it.
WindowInv ==
  /\ timestamps \in Ages /\ granted \in Grants
  /\ EndsWith(timestamps, granted) /\ Descending(granted) /\ Separate(granted)
  /\ MaxPerWindow # 0 => Len(granted) <= MaxPerWindow

CallsInv ==
  /\ phase \in [Jobs -> {"idle", "quota", "jitter"}]
  /\ remaining \in [Jobs -> Times]
  /\ urgent \in [Jobs -> BOOLEAN]
  /\ \A j \in Jobs : /\ phase[j] # "idle" <=> worker[j] = "acquiring"
                     /\ Promised(phase[j], remaining[j], granted)

LimiterInv == WindowInv /\ CallsInv

----------------------------------------------------------------------------
\* The operators of the limiter.

\* The limiter counts with the Cardinality of its own instance of FiniteSets.
LEMMA SameCardinality == \A S : Limiter!Cardinality(S) = Cardinality(S)
  BY Zenon DEF Limiter!Cardinality, Cardinality

\* How many whole numbers there are from a to b.
LEMMA IntervalCount ==
  ASSUME NEW a \in Int, NEW b \in Int, a <= b + 1
  PROVE  IsFiniteSet(a..b) /\ Limiter!Cardinality(a..b) = b - a + 1
<1>1. /\ IsFiniteSet(a..b)
      /\ Cardinality(a..b) = IF a > b THEN 0 ELSE b - a + 1
  BY FS_Interval
<1>2. b - a + 1 = IF a > b THEN 0 ELSE b - a + 1
  OBVIOUS
<1> QED
  BY <1>1, <1>2, SameCardinality

\* A function on 1..n is a sequence.
LEMMA ListOf ==
  ASSUME NEW S, NEW n \in Nat, NEW f \in [1..n -> S]
  PROVE  f \in Seq(S) /\ Len(f) = n
  OBVIOUS

\* The entries the filter keeps, when the array ends with the grants of the window.
LEMMA FreshEntries ==
  ASSUME NEW ts \in Ages, NEW gr \in Grants, EndsWith(ts, gr)
  PROVE  /\ Limiter!Fresh(ts) = (Len(ts) - Len(gr) + 1)..Len(ts)
         /\ Limiter!Cardinality(Limiter!Fresh(ts)) = Len(gr)
<1> DEFINE p == Len(ts) - Len(gr)
<1>1. Len(ts) \in Nat /\ Len(gr) \in Nat /\ Len(gr) <= Len(ts) /\ Window \in Nat
  BY LimiterAssumption DEF EndsWith, Ages, Grants
<1>2. p \in Nat /\ p <= Len(ts)
  BY <1>1
<1>3. \A k \in 1..p : ~(ts[k] < Window)
  BY <1>1 DEF EndsWith
<1>4. ASSUME NEW k \in (p + 1)..Len(ts) PROVE ts[k] < Window
  <2>1. k - p \in 1..Len(gr) /\ p + (k - p) = k
    BY <1>1, <1>2
  <2>2. ts[k] = gr[k - p]
    <3>1. ts[p + (k - p)] = gr[k - p]
      BY <2>1 DEF EndsWith
    <3> QED
      BY <2>1, <3>1
  <2>3. gr[k - p] \in 0..Window - 1
    <3>1. \A i \in 1..Len(gr) : gr[i] \in 0..Window - 1
      BY <1>1 DEF Grants
    <3> QED
      BY <2>1, <3>1
  <2> QED
    BY <1>1, <2>2, <2>3
<1> HIDE DEF p
<1>5. Limiter!Fresh(ts) = (p + 1)..Len(ts)
  <2>1. ASSUME NEW k \in 1..Len(ts) PROVE ts[k] < Window <=> k \in (p + 1)..Len(ts)
    BY <1>1, <1>2, <1>3, <1>4
  <2>2. (p + 1)..Len(ts) \subseteq 1..Len(ts)
    BY <1>1, <1>2
  <2> QED
    BY <2>1, <2>2 DEF Limiter!Fresh
<1>6. Limiter!Cardinality((p + 1)..Len(ts)) = Len(gr)
  <2>1. /\ p + 1 \in Int /\ Len(ts) \in Int /\ p + 1 <= Len(ts) + 1
        /\ Len(ts) - (p + 1) + 1 = Len(gr)
    BY <1>1, <1>2 DEF p
  <2>2. Limiter!Cardinality((p + 1)..Len(ts)) = Len(ts) - (p + 1) + 1
    BY <2>1, IntervalCount
  <2> QED
    BY <2>1, <2>2
<1> QED
  BY <1>5, <1>6 DEF p

\* The filter returns exactly the grants of the window.
LEMMA PruneIsGrants ==
  ASSUME NEW ts \in Ages, NEW gr \in Grants, EndsWith(ts, gr)
  PROVE  Limiter!Prune(ts) = gr
<1> DEFINE p == Len(ts) - Len(gr)
           F == Limiter!Fresh(ts)
           pick(n) == CHOOSE k \in F : Limiter!Cardinality(F \cap 1..k) = n
<1>1. Len(ts) \in Nat /\ Len(gr) \in Nat /\ p \in Nat /\ Len(ts) = p + Len(gr)
  BY DEF EndsWith, Ages, Grants
<1>2. F = (p + 1)..Len(ts) /\ Limiter!Cardinality(F) = Len(gr)
  BY FreshEntries
<1>3. \A k \in 1..Len(gr) : ts[p + k] = gr[k]
  BY DEF EndsWith
<1>4. Limiter!Prune(ts) = [n \in 1..Limiter!Cardinality(F) |-> ts[pick(n)]]
  BY DEF Limiter!Prune
<1> HIDE DEF p, F
<1>5. ASSUME NEW k \in F PROVE Limiter!Cardinality(F \cap 1..k) = k - p
  <2>1. k \in Nat /\ p + 1 <= k /\ k <= Len(ts)
    BY <1>1, <1>2
  <2>2. F \cap 1..k = (p + 1)..k
    <3>1. \A i \in (p + 1)..Len(ts) : i \in 1..k <=> i \in (p + 1)..k
      BY <1>1, <2>1
    <3>2. (p + 1)..k \subseteq (p + 1)..Len(ts)
      BY <1>1, <2>1
    <3> QED
      BY <1>2, <3>1, <3>2
  <2>3. Limiter!Cardinality((p + 1)..k) = k - (p + 1) + 1
    BY <1>1, <2>1, IntervalCount
  <2>4. k - (p + 1) + 1 = k - p
    BY <1>1, <2>1
  <2> QED
    BY <2>2, <2>3, <2>4
<1>6. ASSUME NEW n \in 1..Len(gr) PROVE pick(n) = p + n
  <2>1. p + n \in F
    BY <1>1, <1>2
  <2>2. ASSUME NEW k \in F PROVE Limiter!Cardinality(F \cap 1..k) = n <=> k = p + n
    <3>1. k - p = n <=> k = p + n
      BY <1>1, <1>2
    <3> QED
      BY <1>5, <3>1
  <2>3. Limiter!Cardinality(F \cap 1..(p + n)) = n
    BY <2>1, <2>2
  <2>4. pick(n) \in F /\ Limiter!Cardinality(F \cap 1..pick(n)) = n
    BY <2>1, <2>3
  <2> HIDE DEF pick
  <2> QED
    BY <2>2, <2>4
<1> HIDE DEF pick
<1>7. \A n \in 1..Len(gr) : ts[pick(n)] = gr[n]
  BY <1>3, <1>6
<1>8. Limiter!Prune(ts) = [n \in 1..Len(gr) |-> gr[n]]
  BY <1>2, <1>4, <1>7
<1> QED
  BY <1>8 DEF Grants

\* When an instant passes, the oldest grant may leave the window; the others stay.
LEMMA GrantsAge ==
  ASSUME NEW gr \in Grants, Descending(gr)
  PROVE  \E d \in 0..1 :
           LET next == Limiter!Prune(Limiter!Older(gr)) IN
           /\ d <= Len(gr) /\ (d = 1 => gr[1] = Window - 1)
           /\ next \in Grants /\ Len(next) = Len(gr) - d
           /\ \A k \in 1..Len(next) : next[k] = gr[d + k] + 1
<1> DEFINE d == IF gr # <<>> /\ gr[1] = Window - 1 THEN 1 ELSE 0
           left == [k \in 1..(Len(gr) - d) |-> gr[d + k] + 1]
           older == Limiter!Older(gr)
<1>1. /\ Len(gr) \in Nat /\ Window \in Nat /\ Window > 0
      /\ \A k \in 1..Len(gr) : gr[k] \in Nat /\ gr[k] < Window
      /\ gr # <<>> => 1 \in 1..Len(gr)
  BY LimiterAssumption DEF Grants
<1>2. d \in 0..1 /\ d <= Len(gr) /\ (d = 1 => 1 \in 1..Len(gr) /\ gr[1] = Window - 1)
  BY <1>1
<1>3. older = [k \in 1..Len(gr) |-> gr[k] + 1]
  BY <1>1 DEF Limiter!Older
<1>4. older \in Ages /\ Len(older) = Len(gr)
  <2>1. \A k \in 1..Len(gr) : gr[k] + 1 \in 0..Window
    BY <1>1
  <2> QED
    BY <1>1, <1>3, <2>1 DEF Ages
<1>5. ASSUME NEW k \in 1..Len(gr), k > d PROVE gr[k] + 1 < Window
  <2>1. CASE d = 1
    <3>1. 1 \in 1..Len(gr) /\ 1 < k
      BY <1>2, <1>5, <2>1
    <3>2. gr[1] > gr[k]
      BY <3>1 DEF Descending
    <3> QED
      BY <1>1, <1>2, <2>1, <3>2
  <2>2. CASE d = 0
    <3>1. 1 \in 1..Len(gr) /\ (k = 1 \/ 1 < k)
      BY <1>1
    <3>2. gr[1] # Window - 1 /\ gr[1] \in Nat /\ gr[1] < Window
      <4>1. gr # <<>>
        BY <3>1
      <4> QED
        BY <1>1, <2>2, <3>1, <4>1
    <3>3. k = 1 \/ gr[1] > gr[k]
      BY <3>1 DEF Descending
    <3> QED
      BY <1>1, <3>2, <3>3
  <2> QED
    BY <1>2, <2>1, <2>2
<1> HIDE DEF d, older
<1>6. /\ left \in Grants /\ Len(left) = Len(gr) - d
      /\ \A k \in 1..Len(left) : left[k] = gr[d + k] + 1
  <2>1. ASSUME NEW k \in 1..(Len(gr) - d)
        PROVE  d + k \in 1..Len(gr) /\ gr[d + k] + 1 \in 0..Window - 1
    <3>1. d + k \in 1..Len(gr) /\ d + k > d
      BY <1>1, <1>2
    <3>2. gr[d + k] \in Nat /\ gr[d + k] + 1 < Window
      BY <1>1, <1>5, <3>1
    <3> QED
      BY <1>1, <3>1, <3>2
  <2>2. Len(gr) - d \in Nat
    BY <1>1, <1>2
  <2>3. left \in [1..(Len(gr) - d) -> 0..Window - 1]
    BY <2>1
  <2>4. left \in Seq(0..Window - 1) /\ Len(left) = Len(gr) - d
    <3> HIDE DEF left
    <3> QED
      BY <2>2, <2>3, ListOf
  <2> QED
    BY <2>1, <2>4 DEF Grants
<1>7. EndsWith(older, left)
  <2>1. Len(older) - Len(left) = d /\ Len(left) <= Len(older)
    BY <1>1, <1>2, <1>4, <1>6
  <2>2. ASSUME NEW k \in 1..d PROVE older[k] = Window
    <3>1. k = 1 /\ d = 1 /\ k \in 1..Len(gr)
      BY <1>2
    <3> QED
      BY <1>1, <1>2, <1>3, <3>1
  <2>3. ASSUME NEW k \in 1..Len(left) PROVE older[d + k] = left[k]
    <3>1. d + k \in 1..Len(gr)
      BY <1>1, <1>2, <1>6
    <3> QED
      BY <1>3, <1>6, <3>1
  <2> HIDE DEF left
  <2> QED
    BY <2>1, <2>2, <2>3 DEF EndsWith
<1> HIDE DEF left
<1>8. Limiter!Prune(older) = left
  BY <1>4, <1>6, <1>7, PruneIsGrants
<1> QED
  BY <1>2, <1>6, <1>8 DEF older

----------------------------------------------------------------------------
\* The queue as the limiter sees it.

\* With one slot, one worker at the most.
Alone == \A i, j \in Jobs : worker[i] # "idle" /\ worker[j] # "idle" => i = j

LEMMA SoleWorker == IInv => Alone
<1> SUFFICES ASSUME IInv, NEW i \in Jobs, NEW j \in Jobs, worker[i] # "idle", worker[j] # "idle"
             PROVE  i = j
  BY DEF Alone
<1>1. /\ runningWorkers = Cardinality(Busy(worker)) + exiting /\ runningWorkers <= 1
      /\ exiting \in Nat /\ runningWorkers \in Nat
  BY Types, SerialAssumption DEF IInv, Accounting
<1>2. IsFiniteSet(Busy(worker)) /\ i \in Busy(worker) /\ j \in Busy(worker)
  BY JobsFinite DEF Busy
<1>3. Cardinality(Busy(worker)) \in Nat /\ Cardinality(Busy(worker)) <= 1
  BY <1>1, <1>2, FS_CardinalityType
<1>4. Cardinality(Busy(worker) \ {j}) = Cardinality(Busy(worker)) - 1
  BY <1>2, FS_RemoveElement
<1>5. IsFiniteSet(Busy(worker) \ {j}) /\ Cardinality(Busy(worker) \ {j}) \in Nat
  BY <1>2, FS_Subset, FS_CardinalityType
<1>6. Cardinality(Busy(worker) \ {j}) = 0
  BY <1>3, <1>4, <1>5
<1>7. Busy(worker) \ {j} = {}
  BY <1>5, <1>6, FS_EmptySet
<1> QED
  BY <1>2, <1>7

\* The loop only starts jobs that no worker has.
LEMMA LoopStarts ==
  ASSUME NEW on \in BOOLEAN, NEW q \in Queues, NEW r \in Nat, r <= maxConcurrency,
         NEW wrk \in [Jobs -> Stages], NEW sts, NEW prio, NEW n, Placed(q, wrk, prio, n),
         TriggerProcessing(on, q, r, wrk, sts), NEW i \in Jobs
  PROVE  worker'[i] = wrk[i] \/ (wrk[i] = "idle" /\ worker'[i] = "acquiring")
<1>1. PICK T : Looped(q, T, r, wrk, sts)
  BY LoopIsLooped
<1>2. worker'[i] = IF i \in Heads(q, T) THEN "acquiring" ELSE wrk[i]
  BY <1>1 DEF Looped
<1>3. i \in Heads(q, T) => wrk[i] = "idle"
  BY <1>1, HeadPlace
<1> QED
  BY <1>2, <1>3

\* A call of the application and a .finally callback change workers in no other way.
LEMMA QueueStarts ==
  ASSUME IInv, Application \/ Finally, NEW i \in Jobs
  PROVE  worker'[i] = worker[i] \/ (worker[i] = "idle" /\ worker'[i] = "acquiring")
<1>1. /\ isProcessing \in BOOLEAN /\ Placed(queue, worker, priority, created)
      /\ queue \in Queues /\ worker \in [Jobs -> Stages]
      /\ runningWorkers \in Nat /\ runningWorkers <= maxConcurrency
  BY Types DEF IInv, TypeOK
<1>2. ASSUME NEW p \in Priorities, NEW m \in 0..MaxRetryLimit, Enqueue(p, m)
      PROVE  worker'[i] = worker[i] \/ (worker[i] = "idle" /\ worker'[i] = "acquiring")
  <2>1. PushJob(p, m) /\ TriggerProcessing(isProcessing, Pushed(p), runningWorkers, worker, Pending)
    BY <1>2 DEF Enqueue
  <2>2. Pushed(p) \in Queues /\ Placed(Pushed(p), worker, priority', created')
    BY <2>1, PushedState
  <2> QED
    BY <1>1, <2>1, <2>2, LoopStarts
<1>3. ASSUME NEW p \in Priorities, NEW m \in 0..MaxRetryLimit, EnqueuedListenerThrows(p, m)
      PROVE  worker' = worker
  BY <1>3 DEF EnqueuedListenerThrows
<1>4. CASE Start
  <2>1. TriggerProcessing(TRUE, queue, runningWorkers, worker, status)
    BY <1>4 DEF Start
  <2> QED
    BY <1>1, <2>1, LoopStarts
<1>5. CASE Pause \/ Clear
  BY <1>5 DEF Pause, Clear, pool
<1>6. CASE Finally
  <2> DEFINE r == runningWorkers - 1
  <2>1. exiting > 0 /\ TriggerProcessing(isProcessing, queue, r, worker, status)
    BY <1>6 DEF Finally
  <2>2. r \in Nat /\ r <= maxConcurrency
    <3>1. runningWorkers = Cardinality(Busy(worker)) + exiting /\ exiting \in Nat
      BY Types DEF IInv, Accounting
    <3>2. Cardinality(Busy(worker)) \in Nat
      BY JobsFinite, FS_CardinalityType
    <3> QED
      BY <1>1, <2>1, <3>1, <3>2, ConcurrencyAssumption
  <2> HIDE DEF r
  <2> QED
    BY <1>1, <2>1, <2>2, LoopStarts
<1> QED
  BY <1>2, <1>3, <1>4, <1>5, <1>6 DEF Application

\* The step in which a job is picked leaves every other worker idle.
LEMMA PickedAlone ==
  ASSUME IInv, IInv', Application \/ Finally, NEW j \in Jobs, worker[j] # worker'[j]
  PROVE  /\ worker[j] = "idle" /\ worker'[j] = "acquiring"
         /\ \A i \in Jobs : i # j => worker[i] = "idle" /\ worker'[i] = "idle"
<1>1. worker[j] = "idle" /\ worker'[j] = "acquiring"
  BY QueueStarts
<1>2. ASSUME NEW i \in Jobs, i # j PROVE worker'[i] = "idle"
  <2>1. worker'[j] # "idle"
    BY <1>1
  <2>2. Alone'
    BY SoleWorker, PTL
  <2> QED
    BY <1>2, <2>1, <2>2 DEF Alone
<1>3. ASSUME NEW i \in Jobs, i # j PROVE worker[i] = "idle"
  BY <1>2, <1>3, QueueStarts
<1> QED
  BY <1>1, <1>2, <1>3

----------------------------------------------------------------------------
\* The steps of the limiter.

\* Every time is a natural number, and one instant less of it is a time too.
LEMMA TimesCountDown ==
  /\ Times \subseteq Nat
  /\ \A t \in Times : t > 0 => t - 1 \in Times
  /\ 0 \in Times /\ Jitters \subseteq Times /\ 0..Window \subseteq Times
  /\ \A jitter \in Jitters : jitter \in Nat /\ jitter > 0
<1> DEFINE Tops == {Window} \cup NormalJitter \cup HighJitter
<1>1. Tops \subseteq Nat /\ Jitters \subseteq Tops /\ Window \in Tops /\ 0 \notin Jitters
  BY LimiterAssumption DEF Jitters
<1>2. \A t : t \in Times <=> \E top \in Tops : t \in 0..top
  BY DEF Times
<1> HIDE DEF Tops
<1>3. ASSUME NEW t \in Times PROVE t \in Nat /\ (t > 0 => t - 1 \in Times)
  <2>1. PICK top \in Tops : t \in 0..top
    BY <1>2
  <2>2. top \in Nat
    BY <1>1
  <2>3. t \in Nat /\ (t > 0 => t - 1 \in 0..top)
    BY <2>1, <2>2
  <2> QED
    BY <1>2, <2>3
<1>4. ASSUME NEW top \in Tops, NEW t \in 0..top PROVE t \in Times
  BY <1>2
<1>5. \A top \in Tops : 0 \in 0..top /\ top \in 0..top
  BY <1>1
<1>6. 0 \in Times /\ Jitters \subseteq Times
  BY <1>1, <1>4, <1>5
<1>7. 0..Window \subseteq Times
  BY <1>1, <1>4
<1>8. \A jitter \in Jitters : jitter \in Nat /\ jitter > 0
  BY <1>1
<1> QED
  BY <1>3, <1>6, <1>7, <1>8

\* A call starts to await a timer: what it was promised is all there is to show.
LEMMA AwaitInv ==
  ASSUME LimiterInv, NEW j \in Jobs, NEW timer \in {"quota", "jitter"}, NEW time \in Times,
         Limiter!Await(j, timer, time), timestamps' \in Ages, EndsWith(timestamps', granted),
         granted' = granted, urgent' \in [Jobs -> BOOLEAN], worker'[j] = "acquiring",
         \A i \in Jobs : i # j => (worker'[i] = "acquiring" <=> worker[i] = "acquiring"),
         Promised(timer, time, granted)
  PROVE  LimiterInv'
<1>1. phase' = [phase EXCEPT ![j] = timer] /\ remaining' = [remaining EXCEPT ![j] = time]
  BY DEF Limiter!Await
<1>2. WindowInv'
  BY DEF LimiterInv, WindowInv
<1>3. /\ phase' \in [Jobs -> {"idle", "quota", "jitter"}] /\ remaining' \in [Jobs -> Times]
      /\ phase'[j] = timer /\ remaining'[j] = time /\ timer # "idle"
      /\ \A i \in Jobs : i # j => phase'[i] = phase[i] /\ remaining'[i] = remaining[i]
  BY <1>1 DEF LimiterInv, CallsInv
<1>4. ASSUME NEW i \in Jobs
      PROVE  /\ phase'[i] # "idle" <=> worker'[i] = "acquiring"
             /\ Promised(phase'[i], remaining'[i], granted)
  <2>1. CASE i = j
    BY <1>3, <2>1
  <2>2. CASE i # j
    BY <1>3, <2>2 DEF LimiterInv, CallsInv
  <2> QED
    BY <2>1, <2>2
<1>5. CallsInv'
  BY <1>3, <1>4 DEF CallsInv
<1> QED
  BY <1>2, <1>5 DEF LimiterInv

\* No jitter is 0: the draw is followed by a timer.
LEMMA DrawInv ==
  ASSUME LimiterInv, NEW j \in Jobs, NEW high, NEW ts \in Ages, EndsWith(ts, granted),
         MaxPerWindow # 0 => Len(granted) < MaxPerWindow,
         Limiter!DrawJitter(j, high, ts), urgent' \in [Jobs -> BOOLEAN], worker'[j] = "acquiring",
         \A i \in Jobs : i # j => (worker'[i] = "acquiring" <=> worker[i] = "acquiring")
  PROVE  LimiterInv'
<1>1. PICK jitter \in IF high THEN HighJitter ELSE NormalJitter :
        \/ /\ jitter > 0
           /\ Limiter!Await(j, "jitter", jitter)
           /\ timestamps' = ts /\ UNCHANGED granted
        \/ /\ jitter = 0
           /\ Limiter!Await(j, "idle", 0)
           /\ Limiter!Record(ts)
  BY DEF Limiter!DrawJitter
<1>2. jitter \in Jitters
  BY DEF Jitters
<1>3. jitter \in Nat /\ jitter > 0 /\ jitter \in Times
  BY <1>2, TimesCountDown
<1>4. Limiter!Await(j, "jitter", jitter) /\ timestamps' = ts /\ granted' = granted
  BY <1>1, <1>3
<1>5. granted # <<>> => granted[Len(granted)] + jitter >= jitter
  <2>1. granted # <<>> => granted[Len(granted)] \in Nat
    BY LimiterAssumption DEF LimiterInv, WindowInv, Grants
  <2> QED
    BY <1>3, <2>1
<1>6. Promised("jitter", jitter, granted)
  BY <1>2, <1>5 DEF Promised
<1> QED
  BY <1>3, <1>4, <1>6, AwaitInv

\* acquire is called in the turn in which the job is picked.
LEMMA AcquireInv ==
  ASSUME IInv, IInv', LimiterInv, Application \/ Finally, NEW j \in Jobs,
         worker[j] # worker'[j], AcquireCall(j)
  PROVE  LimiterInv'
<1> DEFINE high == priority'[j] = "HIGH"
           ts == Limiter!Prune(timestamps)
           wait == Limiter!QuotaWait(ts)
<1>1. /\ worker[j] = "idle" /\ worker'[j] = "acquiring"
      /\ \A i \in Jobs : i # j => (worker'[i] = "acquiring" <=> worker[i] = "acquiring")
  BY PickedAlone
<1>2. /\ timestamps \in Ages /\ granted \in Grants /\ EndsWith(timestamps, granted)
      /\ urgent \in [Jobs -> BOOLEAN]
  BY DEF LimiterInv, WindowInv, CallsInv
<1>3. ts = granted
  BY <1>2, PruneIsGrants
<1>4. /\ Window \in Nat /\ Len(granted) \in Nat /\ MaxPerWindow \in Nat
      /\ granted # <<>> => granted[1] \in 0..Window - 1
      /\ granted = <<>> <=> Len(granted) = 0
  BY <1>2, LimiterAssumption DEF Grants
<1>5. granted \in Ages /\ EndsWith(granted, granted)
  <2>1. \A k \in 1..Len(granted) : granted[k] \in 0..Window
    BY <1>2, <1>4 DEF Grants
  <2> QED
    BY <1>2, <1>4, <2>1 DEF Grants, Ages, EndsWith
<1>6. /\ urgent' = [urgent EXCEPT ![j] = high]
      /\ \/ /\ wait > 0
            /\ Limiter!Await(j, "quota", wait)
            /\ timestamps' = ts /\ UNCHANGED granted
         \/ /\ wait = 0
            /\ Limiter!DrawJitter(j, high, ts)
  BY DEF AcquireCall, Limiter!Acquire
<1>7. urgent' \in [Jobs -> BOOLEAN]
  <2>1. high \in BOOLEAN
    OBVIOUS
  <2> HIDE DEF high
  <2> QED
    BY <1>2, <1>6, <2>1
<1>8. wait = IF Len(granted) >= MaxPerWindow /\ granted # <<>> THEN Window - granted[1] ELSE 0
  BY <1>3 DEF Limiter!QuotaWait
<1> HIDE DEF high, ts, wait
<1>9. CASE wait > 0
  <2>1. /\ granted # <<>> /\ wait = Window - granted[1] /\ granted[1] + wait >= Window
        /\ wait \in 0..Window
    BY <1>4, <1>8, <1>9
  <2>2. wait \in Times
    BY <2>1, TimesCountDown
  <2>3. Promised("quota", wait, granted)
    BY <2>1 DEF Promised
  <2>4. Limiter!Await(j, "quota", wait) /\ timestamps' = granted /\ granted' = granted
    BY <1>3, <1>6, <1>9
  <2> QED
    BY <1>1, <1>5, <1>7, <2>2, <2>3, <2>4, AwaitInv
<1>10. CASE wait = 0
  <2>1. MaxPerWindow # 0 => Len(granted) < MaxPerWindow
    BY <1>4, <1>8, <1>10
  <2>2. Limiter!DrawJitter(j, high, granted)
    BY <1>3, <1>6, <1>10
  <2> QED
    BY <1>1, <1>5, <1>7, <2>1, <2>2, DrawInv
<1> QED
  BY <1>6, <1>9, <1>10

\* The quota timer fires: the grant that filled the window has left it.
LEMMA QuotaTimerInv ==
  ASSUME LimiterInv, NEW j \in Jobs, QuotaTimer(j)
  PROVE  LimiterInv'
<1>1. /\ phase[j] = "quota" /\ remaining[j] = 0
      /\ Limiter!DrawJitter(j, urgent[j], timestamps)
      /\ urgent' = urgent /\ worker' = worker
  BY DEF QuotaTimer, Limiter!QuotaTimerFires, vars, pool
<1>2. /\ timestamps \in Ages /\ EndsWith(timestamps, granted) /\ urgent' \in [Jobs -> BOOLEAN]
      /\ worker'[j] = "acquiring"
  BY <1>1 DEF LimiterInv, WindowInv, CallsInv
<1>3. MaxPerWindow # 0 => Len(granted) < MaxPerWindow
  <2> SUFFICES ASSUME MaxPerWindow # 0, ~(Len(granted) < MaxPerWindow) PROVE FALSE
    OBVIOUS
  <2>1. Len(granted) \in Nat /\ Window \in Nat /\ MaxPerWindow \in Nat \ {0} /\ granted \in Grants
    BY LimiterAssumption DEF LimiterInv, WindowInv, Grants
  <2>2. granted[1] + 0 >= Window
    BY <1>1 DEF LimiterInv, CallsInv, Promised
  <2>3. granted[1] \in 0..Window - 1
    <3>1. 1 \in 1..Len(granted)
      BY <2>1
    <3> QED
      BY <2>1, <3>1 DEF Grants
  <2> QED
    BY <2>1, <2>2, <2>3
<1> QED
  BY <1>1, <1>2, <1>3, DrawInv

\* The jitter timer fires: the grant is recorded, after every other one.
LEMMA JitterTimerInv ==
  ASSUME IInv, LimiterInv, NEW j \in Jobs, JitterTimer(j)
  PROVE  LimiterInv'
<1> DEFINE n == Len(granted)
           m == Len(timestamps)
<1>1. /\ phase[j] = "jitter" /\ remaining[j] = 0 /\ worker[j] = "acquiring"
      /\ phase' = [phase EXCEPT ![j] = "idle"] /\ remaining' = [remaining EXCEPT ![j] = 0]
      /\ timestamps' = Append(timestamps, 0) /\ granted' = Append(granted, 0)
      /\ urgent' = urgent /\ worker' = [worker EXCEPT ![j] = "sending"]
  BY DEF JitterTimer, Limiter!JitterTimerFires, Limiter!Await, Limiter!Record, AcquireDone
<1>2. /\ timestamps \in Ages /\ granted \in Grants /\ worker \in [Jobs -> Stages]
      /\ n \in Nat /\ m \in Nat /\ n <= m /\ Window \in Nat /\ Window > 0
      /\ MaxPerWindow \in Nat
  BY Types, LimiterAssumption DEF LimiterInv, WindowInv, EndsWith, Ages, Grants
<1>3. /\ granted' \in Grants /\ Len(granted') = n + 1 /\ granted'[n + 1] = 0
      /\ \A k \in 1..n : granted'[k] = granted[k] /\ granted[k] \in Nat
  BY <1>1, <1>2 DEF Grants
<1>4. /\ timestamps' \in Ages /\ Len(timestamps') = m + 1 /\ timestamps'[m + 1] = 0
      /\ \A k \in 1..m : timestamps'[k] = timestamps[k]
  BY <1>1, <1>2 DEF Ages
<1>5. PICK jitter \in Jitters : granted # <<>> => granted[n] + 0 >= jitter
  BY <1>1 DEF LimiterInv, CallsInv, Promised
<1>6. /\ MaxPerWindow # 0 => n < MaxPerWindow
      /\ jitter \in Nat /\ jitter > 0
  BY <1>1, <1>5, TimesCountDown DEF LimiterInv, CallsInv, Promised
<1>7. n > 0 => n \in 1..n /\ granted[n] >= jitter /\ granted[n] > 0
  <2>1. n > 0 => n \in 1..n /\ granted # <<>>
    BY <1>2
  <2> QED
    BY <1>3, <1>5, <1>6, <2>1
<1> HIDE DEF n, m
<1>8. EndsWith(timestamps', granted')
  <2>1. /\ \A k \in 1..m - n : timestamps[k] = Window
        /\ \A k \in 1..n : timestamps[m - n + k] = granted[k]
    BY DEF LimiterInv, WindowInv, EndsWith, n, m
  <2>2. Len(granted') <= Len(timestamps') /\ Len(timestamps') - Len(granted') = m - n
    BY <1>2, <1>3, <1>4
  <2>3. ASSUME NEW k \in 1..m - n PROVE timestamps'[k] = Window
    <3>1. k \in 1..m
      BY <1>2
    <3> QED
      BY <1>4, <2>1, <3>1
  <2>4. ASSUME NEW k \in 1..n + 1 PROVE timestamps'[m - n + k] = granted'[k]
    <3>1. CASE k = n + 1
      <4>1. m - n + k = m + 1
        BY <1>2, <3>1
      <4> QED
        BY <1>3, <1>4, <3>1, <4>1
    <3>2. CASE k # n + 1
      <4>1. k \in 1..n /\ m - n + k \in 1..m
        BY <1>2, <3>2
      <4> QED
        BY <1>3, <1>4, <2>1, <4>1
    <3> QED
      BY <3>1, <3>2
  <2> QED
    BY <1>3, <2>2, <2>3, <2>4 DEF EndsWith
<1>9. Descending(granted')
  <2> SUFFICES ASSUME NEW k \in 1..n + 1, NEW l \in 1..n + 1, k < l
               PROVE  granted'[k] > granted'[l]
    BY <1>3 DEF Descending
  <2>1. Descending(granted)
    BY DEF LimiterInv, WindowInv
  <2>2. CASE l = n + 1
    <3>1. k \in 1..n /\ n \in 1..n /\ n > 0 /\ (k = n \/ k < n)
      BY <1>2, <2>2
    <3>2. granted[k] = granted[n] \/ granted[k] > granted[n]
      BY <2>1, <3>1 DEF Descending, n
    <3>3. granted[n] > 0 /\ granted[k] \in Nat /\ granted[n] \in Nat
      BY <1>3, <1>7, <3>1
    <3>4. granted[k] > 0
      BY <3>2, <3>3
    <3> QED
      BY <1>3, <2>2, <3>1, <3>4
  <2>3. CASE l # n + 1
    <3>1. k \in 1..n /\ l \in 1..n
      BY <1>2, <2>3
    <3> QED
      BY <1>3, <2>1, <3>1 DEF Descending, n
  <2> QED
    BY <2>2, <2>3
<1>10. Separate(granted')
  <2> SUFFICES ASSUME NEW k \in 1..n
               PROVE  \E x \in Jitters : granted'[k] >= granted'[k + 1] + x
    <3>1. Len(granted') - 1 = n
      BY <1>2, <1>3
    <3> QED
      BY <3>1 DEF Separate
  <2>1. CASE k = n
    <3>1. granted'[k] = granted[n] /\ granted'[k + 1] = 0 /\ granted[n] >= jitter
      BY <1>2, <1>3, <1>7, <2>1
    <3> QED
      BY <1>6, <3>1
  <2>2. CASE k # n
    <3>1. k \in 1..n - 1 /\ k + 1 \in 1..n
      BY <1>2, <2>2
    <3>2. \E x \in Jitters : granted[k] >= granted[k + 1] + x
      BY <3>1 DEF LimiterInv, WindowInv, Separate, n
    <3> QED
      BY <1>3, <3>1, <3>2
  <2> QED
    BY <2>1, <2>2
<1>11. MaxPerWindow # 0 => Len(granted') <= MaxPerWindow
  BY <1>2, <1>3, <1>6
<1>12. CallsInv'
  <2>1. /\ phase' \in [Jobs -> {"idle", "quota", "jitter"}] /\ remaining' \in [Jobs -> Times]
        /\ urgent' \in [Jobs -> BOOLEAN]
        /\ phase'[j] = "idle" /\ worker'[j] = "sending"
        /\ \A i \in Jobs : i # j => phase'[i] = phase[i] /\ worker'[i] = worker[i]
    BY <1>1, <1>2, TimesCountDown DEF LimiterInv, CallsInv
  <2>2. ASSUME NEW i \in Jobs, i # j PROVE worker[i] = "idle"
    BY <1>1, <2>2, SoleWorker DEF Alone
  <2>3. ASSUME NEW i \in Jobs
        PROVE  phase'[i] = "idle" /\ worker'[i] # "acquiring"
    BY <2>1, <2>2 DEF LimiterInv, CallsInv
  <2>4. ASSUME NEW i \in Jobs PROVE Promised(phase'[i], remaining'[i], granted')
    BY <2>3 DEF Promised
  <2> QED
    BY <2>1, <2>3, <2>4 DEF CallsInv
<1> QED
  BY <1>3, <1>4, <1>8, <1>9, <1>10, <1>11, <1>12 DEF LimiterInv, WindowInv

\* An instant passes: a grant that leaves the window makes room in it.
LEMMA TickInv ==
  ASSUME LimiterInv, Tick
  PROVE  LimiterInv'
<1>1. /\ timestamps' = Limiter!Older(timestamps) /\ granted' = Limiter!Prune(Limiter!Older(granted))
      /\ remaining' = [c \in Jobs |-> IF remaining[c] > 0 THEN remaining[c] - 1 ELSE 0]
      /\ UNCHANGED <<phase, urgent, worker>>
  BY DEF Tick, Limiter!Tick, vars, pool
<1> DEFINE n == Len(granted)
           m == Len(timestamps)
<1>2. /\ timestamps \in Ages /\ granted \in Grants /\ n \in Nat /\ m \in Nat /\ n <= m
      /\ Window \in Nat /\ Window > 0 /\ MaxPerWindow \in Nat
      /\ \A k \in 1..n : granted[k] \in Nat /\ granted[k] < Window
      /\ \A k \in 1..m : timestamps[k] \in 0..Window
  BY LimiterAssumption DEF LimiterInv, WindowInv, EndsWith, Ages, Grants
<1>3. PICK d \in 0..1 :
        /\ d <= n /\ (d = 1 => granted[1] = Window - 1)
        /\ granted' \in Grants /\ Len(granted') = n - d
        /\ \A k \in 1..(n - d) : granted'[k] = granted[d + k] + 1
  <2>1. Descending(granted)
    BY DEF LimiterInv, WindowInv
  <2> QED
    BY <1>1, <1>2, <2>1, GrantsAge
<1>4. /\ timestamps' \in Ages /\ Len(timestamps') = m
      /\ \A k \in 1..m : timestamps'[k] = IF timestamps[k] < Window THEN timestamps[k] + 1 ELSE Window
  <2>1. timestamps' = [k \in 1..m |-> IF timestamps[k] < Window THEN timestamps[k] + 1 ELSE Window]
    BY <1>1 DEF Limiter!Older
  <2>2. \A k \in 1..m : (IF timestamps[k] < Window THEN timestamps[k] + 1 ELSE Window) \in 0..Window
    BY <1>2
  <2>3. timestamps' \in [1..m -> 0..Window]
    BY <2>1, <2>2
  <2> HIDE DEF m
  <2> QED
    BY <1>2, <2>1, <2>3, ListOf DEF Ages
<1>5. /\ \A k \in 1..m - n : timestamps[k] = Window
      /\ \A k \in 1..n : timestamps[m - n + k] = granted[k]
      /\ \A k, l \in 1..n : k < l => granted[k] > granted[l]
      /\ \A k \in 1..n - 1 : \E x \in Jitters : granted[k] >= granted[k + 1] + x
      /\ MaxPerWindow # 0 => n <= MaxPerWindow
  BY DEF LimiterInv, WindowInv, EndsWith, Descending, Separate
<1> HIDE DEF n, m
<1>6. EndsWith(timestamps', granted')
  <2>1. Len(granted') <= Len(timestamps') /\ Len(timestamps') - Len(granted') = m - n + d
    BY <1>2, <1>3, <1>4
  <2>2. ASSUME NEW k \in 1..m - n + d PROVE timestamps'[k] = Window
    <3>1. CASE k \in 1..m - n
      <4>1. k \in 1..m /\ timestamps[k] = Window
        BY <1>2, <1>5, <3>1
      <4> QED
        BY <1>2, <1>4, <4>1
    <3>2. CASE k \notin 1..m - n
      <4>1. d = 1 /\ k = m - n + 1 /\ 1 \in 1..n /\ k \in 1..m
        BY <1>2, <1>3, <3>2
      <4>2. timestamps[k] = Window - 1
        BY <1>3, <1>5, <4>1
      <4> QED
        BY <1>2, <1>4, <4>1, <4>2
    <3> QED
      BY <3>1, <3>2
  <2>3. ASSUME NEW k \in 1..(n - d) PROVE timestamps'[m - n + d + k] = granted'[k]
    <3>1. d + k \in 1..n /\ m - n + (d + k) \in 1..m /\ m - n + d + k = m - n + (d + k)
      BY <1>2, <1>3
    <3>2. timestamps[m - n + (d + k)] = granted[d + k] /\ granted[d + k] < Window
      BY <1>2, <1>5, <3>1
    <3> QED
      BY <1>3, <1>4, <3>1, <3>2
  <2> QED
    BY <1>3, <2>1, <2>2, <2>3 DEF EndsWith
<1>7. ASSUME NEW k \in 1..(n - d)
      PROVE  /\ d + k \in 1..n /\ granted'[k] = granted[d + k] + 1
             /\ granted[d + k] \in Nat
  BY <1>2, <1>3
<1>8. Descending(granted')
  <2> SUFFICES ASSUME NEW k \in 1..(n - d), NEW l \in 1..(n - d), k < l
               PROVE  granted'[k] > granted'[l]
    BY <1>3 DEF Descending
  <2>1. granted[d + k] > granted[d + l]
    <3>1. d + k < d + l
      BY <1>3
    <3> QED
      BY <1>5, <1>7, <3>1
  <2> QED
    BY <1>7, <2>1
<1>9. Separate(granted')
  <2> SUFFICES ASSUME NEW k \in 1..(n - d - 1)
               PROVE  \E x \in Jitters : granted'[k] >= granted'[k + 1] + x
    BY <1>3 DEF Separate
  <2>1. /\ k \in 1..(n - d) /\ k + 1 \in 1..(n - d) /\ d + k \in 1..n - 1
        /\ d + (k + 1) = d + k + 1
    BY <1>2, <1>3
  <2>2. PICK x \in Jitters : granted[d + k] >= granted[d + k + 1] + x
    BY <1>5, <2>1
  <2>3. /\ granted'[k] = granted[d + k] + 1 /\ granted[d + k] \in Nat
        /\ granted'[k + 1] = granted[d + k + 1] + 1 /\ granted[d + k + 1] \in Nat
    BY <1>7, <2>1
  <2>4. x \in Nat
    BY TimesCountDown
  <2>5. granted'[k] >= granted'[k + 1] + x
    BY <2>2, <2>3, <2>4
  <2> QED
    BY <2>5
<1>10. MaxPerWindow # 0 => Len(granted') <= MaxPerWindow
  BY <1>2, <1>3, <1>5
<1>11. ASSUME NEW j \in Jobs
       PROVE  /\ remaining'[j] \in Times /\ remaining[j] \in Nat /\ remaining'[j] \in Nat
              /\ remaining[j] <= remaining'[j] + 1
  <2>1. remaining[j] \in Times
    BY DEF LimiterInv, CallsInv
  <2>2. remaining'[j] = IF remaining[j] > 0 THEN remaining[j] - 1 ELSE 0
    BY <1>1
  <2>3. remaining[j] \in Nat
    BY <2>1, TimesCountDown
  <2>4. remaining'[j] \in Times
    BY <2>1, <2>2, TimesCountDown
  <2> QED
    BY <2>2, <2>3, <2>4
<1>12. ASSUME NEW j \in Jobs, MaxPerWindow # 0, phase[j] = "quota"
       PROVE  Len(granted') < MaxPerWindow \/ granted'[1] + remaining'[j] >= Window
  <2>1. n < MaxPerWindow \/ granted[1] + remaining[j] >= Window
    BY <1>12 DEF LimiterInv, CallsInv, Promised, n
  <2>2. CASE d = 1 \/ n < MaxPerWindow
    BY <1>2, <1>3, <1>5, <1>12, <2>2
  <2>3. CASE d = 0 /\ ~(n < MaxPerWindow)
    <3>1. 1 \in 1..(n - d) /\ d + 1 = 1
      BY <1>2, <1>12, <2>3
    <3>2. granted'[1] = granted[1] + 1 /\ granted[1] \in Nat
      BY <1>7, <3>1
    <3>3. granted[1] + remaining[j] >= Window
      BY <2>1, <2>3
    <3> QED
      BY <1>2, <1>11, <3>2, <3>3
  <2> QED
    BY <1>3, <2>2, <2>3
<1>13. ASSUME NEW j \in Jobs, phase[j] = "jitter"
       PROVE  \E x \in Jitters : granted' # <<>> => granted'[Len(granted')] + remaining'[j] >= x
  <2>1. PICK x \in Jitters : granted # <<>> => granted[n] + remaining[j] >= x
    BY <1>13 DEF LimiterInv, CallsInv, Promised, n
  <2>2. x \in Nat
    BY TimesCountDown
  <2>3. ASSUME granted' # <<>> PROVE granted'[Len(granted')] + remaining'[j] >= x
    <3>1. n - d \in 1..(n - d) /\ d + (n - d) = n /\ granted # <<>>
      <4>1. Len(granted') # 0
        BY <1>3, <2>3 DEF Grants
      <4> QED
        BY <1>2, <1>3, <4>1 DEF n
    <3>2. granted'[n - d] = granted[n] + 1 /\ granted[n] \in Nat
      BY <1>7, <3>1
    <3>3. granted[n] + remaining[j] >= x
      BY <2>1, <3>1
    <3>4. granted'[n - d] + remaining'[j] >= x
      BY <1>11, <2>2, <3>2, <3>3
    <3> QED
      BY <1>3, <3>4
  <2> QED
    BY <2>3
<1>14. ASSUME NEW j \in Jobs, MaxPerWindow # 0, phase[j] = "jitter"
       PROVE  Len(granted') < MaxPerWindow
  <2>1. n < MaxPerWindow
    BY <1>14 DEF LimiterInv, CallsInv, Promised, n
  <2> QED
    BY <1>2, <1>3, <2>1
<1>15. CallsInv'
  <2>1. ASSUME NEW j \in Jobs PROVE Promised(phase[j], remaining'[j], granted')
    BY <1>12, <1>13, <1>14 DEF Promised
  <2>2. remaining' \in [Jobs -> Times]
    BY <1>1, <1>11
  <2> QED
    BY <1>1, <2>1, <2>2 DEF LimiterInv, CallsInv
<1> QED
  BY <1>3, <1>4, <1>6, <1>8, <1>9, <1>10, <1>15 DEF LimiterInv, WindowInv

\* The other steps of a job are not between its call of acquire and the answer.
LEMMA JobStepInv ==
  ASSUME IInv, LimiterInv, NEW j \in Jobs, JobStep(j)
  PROVE  LimiterInv'
<1>1. /\ UNCHANGED limiterVars /\ worker[j] # "acquiring"
      /\ \E s \in Stages \ {"acquiring"} : worker' = [worker EXCEPT ![j] = s]
  BY DEF JobStep, SendOk, SendFail, CompletedListenerThrows, BackoffDone, HandleError,
         SleepBeforeRetry, GiveUp, Stages
<1>2. \A i \in Jobs : worker'[i] = "acquiring" <=> worker[i] = "acquiring"
  BY <1>1, Types
<1> QED
  BY <1>1, <1>2 DEF limiterVars, LimiterInv, WindowInv, CallsInv

\* The limiter takes no step of the queue that the queue does not have.
LEMMA StepOfQueue ==
  ASSUME [AntiBanNext]_antiBanVars
  PROVE  [Next]_vars
<1>1. CASE QueueStep
  BY <1>1 DEF QueueStep, Next
<1>2. ASSUME NEW j \in Jobs, JobStep(j) \/ QuotaTimer(j) \/ JitterTimer(j)
      PROVE  [Next]_vars
  BY <1>2 DEF JobStep, QuotaTimer, JitterTimer, Next, ProcessJob
<1>3. CASE Tick \/ UNCHANGED antiBanVars
  BY <1>3 DEF Tick, antiBanVars
<1> QED
  BY <1>1, <1>2, <1>3 DEF AntiBanNext

\* The limiter's invariant is kept by every step.
LEMMA AntiBanStepInv ==
  ASSUME IInv, IInv', LimiterInv, [AntiBanNext]_antiBanVars
  PROVE  LimiterInv'
<1>1. CASE QueueStep
  <2>1. CASE worker' = worker /\ UNCHANGED limiterVars
    BY <2>1 DEF limiterVars, LimiterInv, WindowInv, CallsInv
  <2>2. ASSUME NEW j \in Jobs, worker[j] # worker'[j], AcquireCall(j) PROVE LimiterInv'
    BY <1>1, <2>2, AcquireInv DEF QueueStep
  <2> QED
    BY <1>1, <2>1, <2>2 DEF QueueStep
<1>2. ASSUME NEW j \in Jobs, JobStep(j) PROVE LimiterInv'
  BY <1>2, JobStepInv
<1>3. ASSUME NEW j \in Jobs, QuotaTimer(j) PROVE LimiterInv'
  BY <1>3, QuotaTimerInv
<1>4. ASSUME NEW j \in Jobs, JitterTimer(j) PROVE LimiterInv'
  BY <1>4, JitterTimerInv
<1>5. CASE Tick
  BY <1>5, TickInv
<1>6. CASE UNCHANGED antiBanVars
  BY <1>6 DEF antiBanVars, vars, pool, limiterVars, LimiterInv, WindowInv, CallsInv
<1> QED
  BY <1>1, <1>2, <1>3, <1>4, <1>5, <1>6 DEF AntiBanNext

LEMMA AntiBanInitInv == AntiBanInit => LimiterInv
<1> SUFFICES ASSUME AntiBanInit PROVE LimiterInv
  OBVIOUS
<1>1. /\ timestamps = <<>> /\ granted = <<>> /\ \A j \in Jobs : worker[j] = "idle"
      /\ phase = [c \in Jobs |-> "idle"] /\ remaining = [c \in Jobs |-> 0]
      /\ urgent = [c \in Jobs |-> FALSE]
  BY DEF AntiBanInit, Init, Limiter!LimiterInit
<1>2. timestamps \in Ages /\ granted \in Grants /\ Len(timestamps) = 0 /\ Len(granted) = 0
  BY <1>1 DEF Ages, Grants
<1>3. WindowInv
  BY <1>2, LimiterAssumption DEF WindowInv, EndsWith, Descending, Separate
<1>4. CallsInv
  BY <1>1, TimesCountDown DEF CallsInv, Promised
<1> QED
  BY <1>3, <1>4 DEF LimiterInv

\* The queue with its limiter behaves as the queue whose acquire answers at any
\* time (MessageQueue): every theorem about the queue holds of the client's queue.
THEOREM AntiBanIsQueue == AntiBanSpec => Spec
<1>1. AntiBanInit => Init
  BY DEF AntiBanInit
<1>2. [AntiBanNext]_antiBanVars => [Next]_vars
  BY StepOfQueue
<1> QED
  BY <1>1, <1>2, PTL DEF AntiBanSpec, Spec

LEMMA SpecLimiterInv == AntiBanSpec => []LimiterInv
<1>1. AntiBanSpec => []IInv
  BY AntiBanIsQueue, SpecIInv, PTL
<1>2. IInv /\ IInv' /\ LimiterInv /\ [AntiBanNext]_antiBanVars => LimiterInv'
  BY AntiBanStepInv
<1> QED
  BY <1>1, <1>2, AntiBanInitInv, PTL DEF AntiBanSpec

\* The variables of the limiter keep their types.
THEOREM LimiterTypeCorrect == AntiBanSpec => []Limiter!Limits
<1>1. LimiterInv => Limiter!Limits
  BY DEF LimiterInv, WindowInv, CallsInv, Limiter!Limits, Ages, Grants, Times
<1> QED
  BY <1>1, SpecLimiterInv, PTL

\* The jobs of a priority are sent in the order of their enqueue calls.
THEOREM ClientQueueIsFifo == AntiBanSpec => []SerialFifo
  BY AntiBanIsQueue, OneSlotIsFifo, SerialAssumption, PTL

\* The messages handed to sendMessage in the last window, retries included, are
\* at most maxMessagesPerWindow.  With a quota of 0 the code's wait is not a number
\* and the first message passes.
THEOREM QuotaHolds ==
  ASSUME MaxPerWindow # 0
  PROVE  AntiBanSpec => []SendsWithinQuota
<1>1. LimiterInv => SendsWithinQuota
  BY DEF LimiterInv, WindowInv, SendsWithinQuota, Limiter!QuotaRespected
<1> QED
  BY <1>1, SpecLimiterInv, PTL

\* Two sends in a row are at least the shortest jitter apart.
THEOREM JitterHolds == AntiBanSpec => []SendsSpaced
<1>1. LimiterInv => SendsSpaced
  BY DEF LimiterInv, WindowInv, SendsSpaced, Limiter!Spaced, Separate, Jitters
<1> QED
  BY <1>1, SpecLimiterInv, PTL
=============================================================================
