------------------------- MODULE MessageQueueProofs -------------------------
(***************************************************************************)
(* MessageQueue for any number of jobs, any concurrency and any limit of    *)
(* retries, whatever listeners throw.  The lemmas about triggerProcessing   *)
(* are about the state its loop starts from: the queues q, the slots in use *)
(* running, the workers wrk and the statuses sts.                           *)
(***************************************************************************)
EXTENDS MessageQueue, FunctionTheorems, FiniteSetTheorems, SequenceTheorems, TLAPS

Stages == {"idle", "acquiring", "sending", "backoff"}
Statuses == {"unborn", "pending", "processing", "completed", "failed"}
Queues == [Priorities -> Seq(Jobs)]

\* The slots that are free, a natural number if the pool is not overfull.
LEMMA FreeSlotsType ==
  ASSUME NEW on \in BOOLEAN, NEW running \in Nat, running <= maxConcurrency
  PROVE  FreeSlots(on, running) \in Nat /\ running + FreeSlots(on, running) <= maxConcurrency
  BY ConcurrencyAssumption DEF FreeSlots

\* Arithmetic for TakenBounds.
LEMMA SumBound ==
  ASSUME NEW h \in Nat, NEW n \in Nat, NEW x \in 0..h, NEW y \in 0..n, NEW z \in Int,
         NEW free \in Int, z <= free - (h + n)
  PROVE  x + y + z <= free
  OBVIOUS

\* The loop shifts no more jobs than there are, of any priority and in all.
LEMMA TakenBounds ==
  ASSUME NEW q \in Queues, NEW free \in Nat
  PROVE  /\ \A p \in Priorities : Taken(q, free, p) \in 0..Len(q[p])
         /\ Taken(q, free, "HIGH") + Taken(q, free, "NORMAL") + Taken(q, free, "LOW") <= free
<1>1. \A p \in Priorities : Len(q[p]) \in Nat
  BY DEF Queues
<1>2. Len(q["HIGH"]) \in Nat /\ Len(q["NORMAL"]) \in Nat /\ Len(q["LOW"]) \in Nat
  BY <1>1 DEF Priorities
<1>3. /\ Ahead(q, "HIGH") = 0
      /\ Ahead(q, "NORMAL") = Len(q["HIGH"])
      /\ Ahead(q, "LOW") = Len(q["HIGH"]) + Len(q["NORMAL"])
  BY DEF Ahead
<1>4. Taken(q, free, "HIGH") \in 0..Len(q["HIGH"]) /\ Taken(q, free, "HIGH") <= free
  BY <1>2, <1>3 DEF Taken
<1>5. /\ Taken(q, free, "NORMAL") \in 0..Len(q["NORMAL"])
      /\ Taken(q, free, "HIGH") + Taken(q, free, "NORMAL") <= free
  BY <1>2, <1>3, <1>4 DEF Taken
<1> DEFINE left == free - (Len(q["HIGH"]) + Len(q["NORMAL"]))
<1>6. Taken(q, free, "LOW") =
        IF left <= 0 THEN 0 ELSE IF left < Len(q["LOW"]) THEN left ELSE Len(q["LOW"])
  BY <1>3 DEF Taken
<1>7. left \in Int
  BY <1>2
<1> HIDE DEF left
<1>8. Taken(q, free, "LOW") \in 0..Len(q["LOW"]) /\ (left <= 0 => Taken(q, free, "LOW") = 0)
        /\ (left > 0 => Taken(q, free, "LOW") <= left)
  BY <1>2, <1>6, <1>7
<1>9. Taken(q, free, "HIGH") + Taken(q, free, "NORMAL") + Taken(q, free, "LOW") <= free
  <2>1. CASE left <= 0
    BY <2>1, <1>2, <1>4, <1>5, <1>8
  <2>2. CASE left > 0
    <3>1. Taken(q, free, "LOW") <= free - (Len(q["HIGH"]) + Len(q["NORMAL"]))
      BY <2>2, <1>8 DEF left
    <3>2. Taken(q, free, "LOW") \in Int /\ free \in Int
      BY <1>2, <1>8
    <3> QED
      BY <3>1, <3>2, <1>2, <1>4, <1>5, SumBound
  <2> QED
    BY <2>1, <2>2, <1>7
<1> QED
  BY <1>4, <1>5, <1>8, <1>9 DEF Priorities

\* What a shifted queue holds.
LEMMA ShiftedQueue ==
  ASSUME NEW s \in Seq(Jobs), NEW n \in 0..Len(s)
  PROVE  LET r == SubSeq(s, n + 1, Len(s)) IN
         /\ r \in Seq(Jobs)
         /\ Len(r) = Len(s) - n
         /\ \A k \in 1..Len(r) : r[k] = s[n + k]
<1>1. \A i \in n + 1..Len(s) : s[i] \in Jobs
  OBVIOUS
<1>2. n + 1 \in Int /\ Len(s) \in Int
  OBVIOUS
<1> QED
  BY <1>1, <1>2, SubSeqProperties

\* The first T[p] jobs of each queue.
Heads(q, T) == UNION {{q[p][k] : k \in 1..T[p]} : p \in Priorities}

\* What triggerProcessing does, with T[p] the number of jobs of priority p it picks.
Looped(q, T, running, wrk, sts) ==
  /\ T \in [Priorities -> Nat]
  /\ \A p \in Priorities :
       /\ T[p] <= Len(q[p])
       /\ Len(queue'[p]) = Len(q[p]) - T[p]
       /\ \A k \in 1..Len(queue'[p]) : queue'[p][k] = q[p][T[p] + k]
  /\ queue' \in Queues
  /\ runningWorkers' = running + T["HIGH"] + T["NORMAL"] + T["LOW"]
  /\ runningWorkers' \in Nat /\ runningWorkers' <= maxConcurrency
  /\ worker' = [j \in Jobs |-> IF j \in Heads(q, T) THEN "acquiring" ELSE wrk[j]]
  /\ status' = [j \in Jobs |-> IF j \in Heads(q, T) THEN "processing" ELSE sts[j]]
  /\ attempts' = [j \in Jobs |-> IF j \in Heads(q, T) THEN attempts[j] + 1 ELSE attempts[j]]

\* The loop, started from a pool that is not overfull, is such a step.
LEMMA LoopIsLooped ==
  ASSUME NEW on \in BOOLEAN, NEW q \in Queues, NEW running \in Nat, running <= maxConcurrency,
         NEW wrk, NEW sts, TriggerProcessing(on, q, running, wrk, sts)
  PROVE  \E T : Looped(q, T, running, wrk, sts)
<1> DEFINE free == FreeSlots(on, running)
           T == [p \in Priorities |-> Taken(q, free, p)]
<1>1. free \in Nat /\ running + free <= maxConcurrency
  BY FreeSlotsType
<1> HIDE DEF free
<1>2. /\ \A p \in Priorities : Taken(q, free, p) \in 0..Len(q[p])
      /\ Taken(q, free, "HIGH") + Taken(q, free, "NORMAL") + Taken(q, free, "LOW") <= free
  BY <1>1, TakenBounds
<1>3. \A p \in Priorities : q[p] \in Seq(Jobs)
  BY DEF Queues
<1>4. \A p \in Priorities : Len(q[p]) \in Nat
  BY <1>3
<1>5. /\ T \in [Priorities -> Nat]
      /\ \A p \in Priorities : T[p] = Taken(q, free, p)
  BY <1>2, <1>4
<1>6. T["HIGH"] = Taken(q, free, "HIGH") /\ T["NORMAL"] = Taken(q, free, "NORMAL")
        /\ T["LOW"] = Taken(q, free, "LOW")
  BY DEF Priorities
<1>7. queue' = [p \in Priorities |-> SubSeq(q[p], Taken(q, free, p) + 1, Len(q[p]))]
  BY DEF TriggerProcessing, free
<1>8. \A p \in Priorities : /\ queue'[p] \in Seq(Jobs)
                            /\ Len(queue'[p]) = Len(q[p]) - T[p]
                            /\ \A k \in 1..Len(queue'[p]) : queue'[p][k] = q[p][T[p] + k]
  BY <1>2, <1>3, <1>5, <1>7, ShiftedQueue
<1>9. queue' \in Queues
  BY <1>7, <1>8 DEF Queues
<1>10. Heads(q, T) = Picked(q, free)
  BY <1>5 DEF Heads, Picked
<1>11. /\ worker' = [j \in Jobs |-> IF j \in Heads(q, T) THEN "acquiring" ELSE wrk[j]]
       /\ status' = [j \in Jobs |-> IF j \in Heads(q, T) THEN "processing" ELSE sts[j]]
       /\ attempts' = [j \in Jobs |-> IF j \in Heads(q, T) THEN attempts[j] + 1 ELSE attempts[j]]
  BY <1>10 DEF TriggerProcessing, free
<1>12. runningWorkers' = running + T["HIGH"] + T["NORMAL"] + T["LOW"]
  BY <1>6 DEF TriggerProcessing, free
<1>13. runningWorkers' \in Nat /\ runningWorkers' <= maxConcurrency
  <2>1. T["HIGH"] \in Nat /\ T["NORMAL"] \in Nat /\ T["LOW"] \in Nat
    BY <1>5 DEF Priorities
  <2>2. T["HIGH"] + T["NORMAL"] + T["LOW"] <= free
    BY <1>2, <1>6
  <2> QED
    BY <1>1, <1>12, <2>1, <2>2, ConcurrencyAssumption
<1>14. \A p \in Priorities : T[p] <= Len(q[p])
  BY <1>2, <1>4, <1>5
<1> HIDE DEF T
<1>15. Looped(q, T, running, wrk, sts)
  BY <1>5, <1>8, <1>9, <1>11, <1>12, <1>13, <1>14 DEF Looped
<1> QED
  BY <1>15

----------------------------------------------------------------------------
\* Where jobs are, for the queues q, the workers wrk and n jobs created.

In(j, q) == \E p \in Priorities : \E k \in 1..Len(q[p]) : q[p][k] = j
Busy(wrk) == {j \in Jobs : wrk[j] # "idle"}

\* OnePlace, of any queues and workers.
Placed(q, wrk, prio, n) ==
  \A p \in Priorities :
    /\ \A k, l \in 1..Len(q[p]) : q[p][k] = q[p][l] => k = l
    /\ \A k \in 1..Len(q[p]) :
         prio[q[p][k]] = p /\ wrk[q[p][k]] = "idle" /\ q[p][k] <= n

\* A picked job comes from one place of one queue, and was in no worker.
LEMMA HeadPlace ==
  ASSUME NEW q, NEW T, NEW running, NEW wrk, NEW sts, Looped(q, T, running, wrk, sts),
         q \in Queues, NEW prio, NEW n, Placed(q, wrk, prio, n), NEW j \in Heads(q, T)
  PROVE  /\ j \in Jobs /\ In(j, q) /\ wrk[j] = "idle"
         /\ \E k \in 1..T[prio[j]] : q[prio[j]][k] = j
<1>1. PICK p \in Priorities : j \in {q[p][k] : k \in 1..T[p]}
  BY DEF Heads
<1>2. PICK k \in 1..T[p] : j = q[p][k]
  BY <1>1
<1>3. T[p] \in Nat /\ T[p] <= Len(q[p])
  BY DEF Looped
<1>4. q[p] \in Seq(Jobs) /\ Len(q[p]) \in Nat
  BY DEF Queues
<1>5. k \in 1..Len(q[p])
  BY <1>3, <1>4
<1>6. j \in Jobs
  BY <1>2, <1>4, <1>5
<1>7. prio[j] = p /\ wrk[j] = "idle"
  BY <1>2, <1>5 DEF Placed
<1> QED
  BY <1>2, <1>5, <1>6, <1>7 DEF In

\* A job left in a queue was not picked.
LEMMA TailPlace ==
  ASSUME NEW q, NEW T, NEW running, NEW wrk, NEW sts, Looped(q, T, running, wrk, sts),
         q \in Queues, NEW prio, NEW n, Placed(q, wrk, prio, n),
         NEW p \in Priorities, NEW k \in 1..Len(queue'[p])
  PROVE  /\ T[p] + k \in 1..Len(q[p])
         /\ queue'[p][k] = q[p][T[p] + k]
         /\ queue'[p][k] \in Jobs \ Heads(q, T)
<1>1. T[p] \in Nat /\ Len(queue'[p]) = Len(q[p]) - T[p] /\ T[p] <= Len(q[p])
        /\ queue'[p][k] = q[p][T[p] + k]
  BY DEF Looped
<1>2. q[p] \in Seq(Jobs) /\ Len(q[p]) \in Nat
  BY DEF Queues
<1>3. T[p] + k \in 1..Len(q[p])
  BY <1>1, <1>2
<1> DEFINE j == queue'[p][k]
<1>4. j \in Jobs
  BY <1>1, <1>2, <1>3
<1>5. ASSUME j \in Heads(q, T) PROVE FALSE
  <2>1. prio[j] = p
    BY <1>1, <1>3 DEF Placed
  <2>2. PICK l \in 1..T[p] : q[p][l] = j
    BY <1>5, <2>1, HeadPlace
  <2>3. l \in 1..Len(q[p]) /\ l # T[p] + k
    BY <1>1, <1>2
  <2> QED
    BY <1>1, <1>3, <2>2, <2>3 DEF Placed
<1> QED
  BY <1>1, <1>3, <1>4, <1>5

\* The loop keeps every job in one place.
LEMMA LoopPlaced ==
  ASSUME NEW q, NEW T, NEW running, NEW wrk, NEW sts, Looped(q, T, running, wrk, sts),
         q \in Queues, NEW prio, NEW n, Placed(q, wrk, prio, n)
  PROVE  Placed(queue', worker', prio, n)
<1> SUFFICES ASSUME NEW p \in Priorities
             PROVE  /\ \A k, l \in 1..Len(queue'[p]) : queue'[p][k] = queue'[p][l] => k = l
                    /\ \A k \in 1..Len(queue'[p]) :
                         /\ prio[queue'[p][k]] = p /\ worker'[queue'[p][k]] = "idle"
                         /\ queue'[p][k] <= n
  BY DEF Placed
<1>1. T[p] \in Nat
  BY DEF Looped
<1>2. ASSUME NEW k \in 1..Len(queue'[p]), NEW l \in 1..Len(queue'[p]),
             queue'[p][k] = queue'[p][l]
      PROVE  k = l
  <2>1. T[p] + k \in 1..Len(q[p]) /\ T[p] + l \in 1..Len(q[p])
    BY TailPlace
  <2>2. q[p][T[p] + k] = q[p][T[p] + l]
    BY <1>2, TailPlace
  <2>3. T[p] + k = T[p] + l
    BY <2>1, <2>2 DEF Placed
  <2>4. k \in Int /\ l \in Int
    OBVIOUS
  <2> QED
    BY <1>1, <2>3, <2>4
<1>3. ASSUME NEW k \in 1..Len(queue'[p])
      PROVE  /\ prio[queue'[p][k]] = p /\ worker'[queue'[p][k]] = "idle"
             /\ queue'[p][k] <= n
  <2> DEFINE j == queue'[p][k]
  <2>1. T[p] + k \in 1..Len(q[p]) /\ j = q[p][T[p] + k] /\ j \in Jobs \ Heads(q, T)
    BY TailPlace
  <2>2. prio[j] = p /\ wrk[j] = "idle" /\ j <= n
    BY <2>1 DEF Placed
  <2>3. worker'[j] = wrk[j]
    BY <2>1 DEF Looped
  <2> QED
    BY <2>2, <2>3
<1> QED
  BY <1>2, <1>3

\* The sets of jobs in a queue and in the workers are finite.
LEMMA JobsFinite == IsFiniteSet(Jobs) /\ \A wrk : IsFiniteSet(Busy(wrk))
<1>1. IsFiniteSet(Jobs)
  BY FS_Interval, BoundsAssumption DEF Jobs
<1> QED
  BY <1>1, FS_Subset DEF Busy

\* The first n entries of a sequence without duplicates are n jobs.
LEMMA HeadCount ==
  ASSUME NEW s \in Seq(Jobs), NEW n \in Nat, n <= Len(s),
         \A k, l \in 1..Len(s) : s[k] = s[l] => k = l
  PROVE  /\ IsFiniteSet({s[k] : k \in 1..n})
         /\ Cardinality({s[k] : k \in 1..n}) = n
<1> DEFINE H == {s[k] : k \in 1..n}
           f == [k \in 1..n |-> s[k]]
<1>1. 1..n \subseteq 1..Len(s)
  OBVIOUS
<1>2. f \in Bijection(1..n, H)
  <2>1. f \in [1..n -> H]
    OBVIOUS
  <2>2. \A k, l \in 1..n : f[k] = f[l] => k = l
    BY <1>1
  <2>3. \A h \in H : \E k \in 1..n : f[k] = h
    OBVIOUS
  <2> QED
    BY <2>1, <2>2, <2>3, Fun_IsBij
<1>3. IsFiniteSet(1..n) /\ Cardinality(1..n) = n
  BY FS_Interval
<1>4. ExistsBijection(1..n, H)
  BY <1>2 DEF ExistsBijection
<1> QED
  BY <1>3, <1>4, FS_Bijection

\* The number of elements of two disjoint sets.
LEMMA DisjointCount ==
  ASSUME NEW S, IsFiniteSet(S), NEW U, IsFiniteSet(U), \A x \in S : x \notin U
  PROVE  /\ IsFiniteSet(S \cup U)
         /\ Cardinality(S \cup U) = Cardinality(S) + Cardinality(U)
         /\ Cardinality(S) \in Nat /\ Cardinality(U) \in Nat
<1>1. S \cap U = {}
  OBVIOUS
<1>2. Cardinality(S) \in Nat /\ Cardinality(U) \in Nat
  BY FS_CardinalityType
<1>3. /\ IsFiniteSet(S \cup U)
      /\ Cardinality(S \cup U) = Cardinality(S) + Cardinality(U) - Cardinality(S \cap U)
  BY FS_Union
<1>4. Cardinality(S \cap U) = 0
  BY <1>1, FS_EmptySet
<1> QED
  BY <1>2, <1>3, <1>4

\* And of three.
LEMMA DisjointCount3 ==
  ASSUME NEW A, IsFiniteSet(A), NEW B, IsFiniteSet(B), NEW C, IsFiniteSet(C),
         \A x \in A : x \notin B, \A x \in A \cup B : x \notin C
  PROVE  /\ IsFiniteSet((A \cup B) \cup C)
         /\ Cardinality((A \cup B) \cup C) = Cardinality(A) + Cardinality(B) + Cardinality(C)
<1>1. IsFiniteSet(A \cup B) /\ Cardinality(A \cup B) = Cardinality(A) + Cardinality(B)
  BY DisjointCount
<1> DEFINE D == A \cup B
<1>2. IsFiniteSet(D) /\ Cardinality(D) = Cardinality(A) + Cardinality(B)
  BY <1>1
<1> HIDE DEF D
<1>3. /\ IsFiniteSet(D \cup C) /\ Cardinality(D \cup C) = Cardinality(D) + Cardinality(C)
  <2>1. \A x \in D : x \notin C
    BY DEF D
  <2> QED
    BY <1>2, <2>1, DisjointCount
<1> QED
  BY <1>2, <1>3 DEF D

\* The loop takes as many slots as it starts jobs.
LEMMA LoopAccounting ==
  ASSUME NEW q, NEW T, NEW running \in Int, NEW wrk, NEW sts, Looped(q, T, running, wrk, sts),
         q \in Queues, NEW prio, NEW n, Placed(q, wrk, prio, n)
  PROVE  runningWorkers' - running = Cardinality(Busy(worker')) - Cardinality(Busy(wrk))
<1> DEFINE H(p) == {q[p][k] : k \in 1..T[p]}
<1>1. ASSUME NEW p \in Priorities
      PROVE  /\ T[p] \in Nat /\ IsFiniteSet(H(p)) /\ Cardinality(H(p)) = T[p]
             /\ \A j \in H(p) : prio[j] = p
  <2>1. T[p] \in Nat /\ T[p] <= Len(q[p])
    BY DEF Looped
  <2>2. q[p] \in Seq(Jobs) /\ Len(q[p]) \in Nat
    BY DEF Queues
  <2>3. \A k, l \in 1..Len(q[p]) : q[p][k] = q[p][l] => k = l
    BY DEF Placed
  <2>4. IsFiniteSet(H(p)) /\ Cardinality(H(p)) = T[p]
    BY <2>1, <2>2, <2>3, HeadCount
  <2>5. 1..T[p] \subseteq 1..Len(q[p])
    BY <2>1, <2>2
  <2>6. \A j \in H(p) : prio[j] = p
    BY <2>5 DEF Placed
  <2> QED
    BY <2>1, <2>4, <2>6
<1>2. Heads(q, T) = (H("HIGH") \cup H("NORMAL")) \cup H("LOW")
  BY DEF Heads, Priorities
<1>3. "HIGH" \in Priorities /\ "NORMAL" \in Priorities /\ "LOW" \in Priorities
  BY DEF Priorities
<1>4. /\ \A j \in H("HIGH") : j \notin H("NORMAL")
      /\ \A j \in H("HIGH") \cup H("NORMAL") : j \notin H("LOW")
  BY <1>1, <1>3
<1>5. IsFiniteSet(H("HIGH")) /\ IsFiniteSet(H("NORMAL")) /\ IsFiniteSet(H("LOW"))
  BY <1>1, <1>3
<1>6. /\ T["HIGH"] \in Nat /\ T["NORMAL"] \in Nat /\ T["LOW"] \in Nat
      /\ Cardinality(H("HIGH")) = T["HIGH"] /\ Cardinality(H("NORMAL")) = T["NORMAL"]
      /\ Cardinality(H("LOW")) = T["LOW"]
  BY <1>1, <1>3
<1> HIDE DEF H
<1> DEFINE All == (H("HIGH") \cup H("NORMAL")) \cup H("LOW")
<1>7. /\ IsFiniteSet(All)
      /\ Cardinality(All)
           = Cardinality(H("HIGH")) + Cardinality(H("NORMAL")) + Cardinality(H("LOW"))
  BY <1>4, <1>5, DisjointCount3
<1> HIDE DEF All
<1>8. /\ IsFiniteSet(Heads(q, T))
      /\ Cardinality(Heads(q, T)) = T["HIGH"] + T["NORMAL"] + T["LOW"]
  <2>1. Heads(q, T) = All
    BY <1>2 DEF All
  <2> QED
    BY <1>6, <1>7, <2>1
<1>9. Busy(worker') = Busy(wrk) \cup Heads(q, T)
  <2>1. \A j \in Heads(q, T) : j \in Jobs
    BY HeadPlace
  <2>2. \A j \in Jobs : worker'[j] = IF j \in Heads(q, T) THEN "acquiring" ELSE wrk[j]
    BY DEF Looped
  <2> QED
    BY <2>1, <2>2 DEF Busy
<1>10. \A j \in Busy(wrk) : j \notin Heads(q, T)
  BY HeadPlace DEF Busy
<1>11. /\ Cardinality(Busy(worker')) = Cardinality(Busy(wrk)) + Cardinality(Heads(q, T))
       /\ Cardinality(Busy(wrk)) \in Nat
  BY <1>8, <1>9, <1>10, JobsFinite, DisjointCount
<1>13. runningWorkers' = running + T["HIGH"] + T["NORMAL"] + T["LOW"]
  BY DEF Looped
<1> QED
  BY <1>6, <1>8, <1>11, <1>13

----------------------------------------------------------------------------
\* The attempts a job has used, and what became of it.

\* RetryBudget, strengthened: a job in an attempt has used one more than its
\* retryCount, a job that waits for the next exactly its retryCount, and a job
\* not yet created none.
Budget(q, wrk, att, rc, mr, dl, n) ==
  \A j \in Jobs :
    /\ wrk[j] \in {"acquiring", "sending"} =>
         att[j] = rc[j] + 1 /\ rc[j] <= mr[j] /\ dl[j] <= rc[j]
    /\ wrk[j] = "backoff" \/ In(j, q) => att[j] = rc[j] /\ rc[j] <= mr[j]
    /\ att[j] <= mr[j] + 1 /\ rc[j] <= mr[j] + 1 /\ dl[j] <= att[j]
    /\ j > n => wrk[j] = "idle" /\ att[j] = 0 /\ rc[j] = 0 /\ dl[j] = 0

\* NothingLost, of any queues, workers and statuses.
Kept(q, wrk, sts, n, cl) ==
  \A j \in 1..n : In(j, q) \/ wrk[j] # "idle" \/ j \in cl \/ sts[j] \in {"completed", "failed"}

\* A queued job stays queued or is picked, and nothing else is queued.
LEMMA LoopQueued ==
  ASSUME NEW q, NEW T, NEW running, NEW wrk, NEW sts, Looped(q, T, running, wrk, sts),
         q \in Queues, NEW prio, NEW n, Placed(q, wrk, prio, n), NEW j \in Jobs
  PROVE  In(j, queue') <=> In(j, q) /\ j \notin Heads(q, T)
<1>1. ASSUME In(j, queue') PROVE In(j, q) /\ j \notin Heads(q, T)
  <2>0. PICK p \in Priorities : \E k \in 1..Len(queue'[p]) : queue'[p][k] = j
    BY <1>1 DEF In
  <2>1. PICK k \in 1..Len(queue'[p]) : queue'[p][k] = j
    BY <2>0
  <2>2. T[p] + k \in 1..Len(q[p]) /\ q[p][T[p] + k] = j /\ j \notin Heads(q, T)
    BY <2>1, TailPlace
  <2> QED
    BY <2>2 DEF In
<1>2. ASSUME In(j, q), j \notin Heads(q, T) PROVE In(j, queue')
  <2>0. PICK p \in Priorities : \E k \in 1..Len(q[p]) : q[p][k] = j
    BY <1>2 DEF In
  <2>1. PICK k \in 1..Len(q[p]) : q[p][k] = j
    BY <2>0
  <2>2. T[p] \in Nat /\ Len(queue'[p]) = Len(q[p]) - T[p] /\ Len(q[p]) \in Nat
    BY DEF Looped, Queues
  <2>3. k \notin 1..T[p]
    BY <1>2, <2>1 DEF Heads
  <2>4. k - T[p] \in 1..Len(queue'[p]) /\ T[p] + (k - T[p]) = k
    BY <2>2, <2>3
  <2>5. queue'[p][k - T[p]] = q[p][T[p] + (k - T[p])]
    BY <2>4 DEF Looped
  <2>6. queue'[p][k - T[p]] = j
    BY <2>1, <2>4, <2>5
  <2> QED
    BY <2>4, <2>6 DEF In
<1> QED
  BY <1>1, <1>2

\* An attempt starts with a retryCount the job has not exceeded.
LEMMA LoopBudget ==
  ASSUME NEW q, NEW T, NEW running, NEW wrk, NEW sts, Looped(q, T, running, wrk, sts),
         q \in Queues, NEW prio, NEW n \in Nat, Placed(q, wrk, prio, n),
         NEW rc \in [Jobs -> Nat], NEW mr \in [Jobs -> Nat], NEW dl \in [Jobs -> Nat],
         attempts \in [Jobs -> Nat], Budget(q, wrk, attempts, rc, mr, dl, n)
  PROVE  Budget(queue', worker', attempts', rc, mr, dl, n)
<1> SUFFICES ASSUME NEW j \in Jobs
             PROVE  /\ worker'[j] \in {"acquiring", "sending"} =>
                         attempts'[j] = rc[j] + 1 /\ rc[j] <= mr[j] /\ dl[j] <= rc[j]
                    /\ worker'[j] = "backoff" \/ In(j, queue') =>
                         attempts'[j] = rc[j] /\ rc[j] <= mr[j]
                    /\ attempts'[j] <= mr[j] + 1 /\ rc[j] <= mr[j] + 1
                    /\ dl[j] <= attempts'[j]
                    /\ j > n => worker'[j] = "idle" /\ attempts'[j] = 0 /\ rc[j] = 0 /\ dl[j] = 0
  BY DEF Budget
<1>1. attempts[j] \in Nat /\ rc[j] \in Nat /\ mr[j] \in Nat /\ dl[j] \in Nat /\ j \in Int
  BY DEF Jobs
<1>2. CASE j \in Heads(q, T)
  <2>1. worker'[j] = "acquiring" /\ attempts'[j] = attempts[j] + 1
    BY <1>2 DEF Looped
  <2>2. In(j, q) /\ ~In(j, queue')
    BY <1>2, HeadPlace, LoopQueued
  <2>3. j <= n
    BY <2>2 DEF In, Placed
  <2>4. attempts[j] = rc[j] /\ rc[j] <= mr[j] /\ dl[j] <= attempts[j]
    BY <2>2 DEF Budget
  <2> QED
    BY <1>1, <2>1, <2>2, <2>3, <2>4
<1>3. CASE j \notin Heads(q, T)
  <2>1. worker'[j] = wrk[j] /\ attempts'[j] = attempts[j]
    BY <1>3 DEF Looped
  <2>2. In(j, queue') => In(j, q)
    BY LoopQueued
  <2> QED
    BY <1>1, <2>1, <2>2 DEF Budget
<1> QED
  BY <1>2, <1>3

\* The loop loses no job.
LEMMA LoopKept ==
  ASSUME NEW q, NEW T, NEW running, NEW wrk, NEW sts, Looped(q, T, running, wrk, sts),
         q \in Queues, NEW prio, NEW n \in 0..MaxJobs, Placed(q, wrk, prio, n),
         NEW cl, Kept(q, wrk, sts, n, cl)
  PROVE  Kept(queue', worker', status', n, cl)
<1> SUFFICES ASSUME NEW j \in 1..n
             PROVE  \/ In(j, queue') \/ worker'[j] # "idle" \/ j \in cl
                    \/ status'[j] \in {"completed", "failed"}
  BY DEF Kept
<1>1. j \in Jobs
  BY BoundsAssumption DEF Jobs
<1>2. CASE j \in Heads(q, T)
  BY <1>1, <1>2 DEF Looped
<1>3. CASE j \notin Heads(q, T)
  <2>1. worker'[j] = wrk[j] /\ status'[j] = sts[j]
    BY <1>1, <1>3 DEF Looped
  <2>2. In(j, q) => In(j, queue')
    BY <1>1, <1>3, LoopQueued
  <2> QED
    BY <2>1, <2>2 DEF Kept
<1> QED
  BY <1>2, <1>3

----------------------------------------------------------------------------
\* The inductive invariant.  Every part of it is needed for another: the bounds
\* of the pool by the loop, one place by the count of the slots, and the attempts
\* used by the type of retryCount.

Accounting == /\ runningWorkers = Cardinality(Busy(worker)) + exiting
              /\ runningWorkers <= maxConcurrency

IInv ==
  /\ TypeOK
  /\ Accounting
  /\ Placed(queue, worker, priority, created)
  /\ Budget(queue, worker, attempts, retryCount, maxRetries, delivered, created)
  /\ Kept(queue, worker, status, created, cleared)

\* The types, with the abbreviations of this module.
LEMMA Types ==
  ASSUME IInv
  PROVE  /\ queue \in Queues /\ worker \in [Jobs -> Stages] /\ status \in [Jobs -> Statuses]
         /\ priority \in [Jobs -> Priorities]
         /\ attempts \in [Jobs -> Nat] /\ retryCount \in [Jobs -> Nat]
         /\ delivered \in [Jobs -> Nat] /\ maxRetries \in [Jobs -> Nat]
         /\ created \in 0..MaxJobs /\ created \in Nat /\ exiting \in Nat
         /\ runningWorkers \in Nat /\ runningWorkers <= maxConcurrency
         /\ Cardinality(Busy(worker)) \in Nat
<1>1. Cardinality(Busy(worker)) \in Nat
  BY JobsFinite, FS_CardinalityType
<1>2. 0..MaxRetryLimit \subseteq Nat /\ 0..(MaxRetryLimit + 1) \subseteq Nat /\ 0..MaxJobs \subseteq Nat
  BY BoundsAssumption
<1>3. retryCount \in [Jobs -> Nat] /\ maxRetries \in [Jobs -> Nat]
  BY <1>2 DEF IInv, TypeOK
<1> QED
  BY <1>1, <1>2, <1>3 DEF IInv, TypeOK, Accounting, Queues, Stages, Statuses

\* The whole invariant across the loop, which may start from a state that a
\* method or a callback has already changed.
LEMMA LoopInv ==
  ASSUME NEW on \in BOOLEAN, NEW q \in Queues, NEW running \in Nat, running <= maxConcurrency,
         NEW wrk \in [Jobs -> Stages], NEW sts \in [Jobs -> Statuses], NEW prio,
         NEW mr \in [Jobs -> Nat], NEW n \in 0..MaxJobs, NEW e \in Nat,
         attempts \in [Jobs -> Nat], retryCount \in [Jobs -> Nat], delivered \in [Jobs -> Nat],
         running = Cardinality(Busy(wrk)) + e,
         Placed(q, wrk, prio, n),
         Budget(q, wrk, attempts, retryCount, mr, delivered, n),
         Kept(q, wrk, sts, n, cleared),
         TriggerProcessing(on, q, running, wrk, sts)
  PROVE  /\ queue' \in Queues /\ runningWorkers' \in Int /\ runningWorkers' <= maxConcurrency
         /\ worker' \in [Jobs -> Stages] /\ status' \in [Jobs -> Statuses]
         /\ attempts' \in [Jobs -> Nat]
         /\ runningWorkers' = Cardinality(Busy(worker')) + e
         /\ Placed(queue', worker', prio, n)
         /\ Budget(queue', worker', attempts', retryCount, mr, delivered, n)
         /\ Kept(queue', worker', status', n, cleared)
<1>1. PICK T : Looped(q, T, running, wrk, sts)
  BY LoopIsLooped
<1>2. Placed(queue', worker', prio, n)
  BY <1>1, LoopPlaced
<1>3. n \in Nat
  BY BoundsAssumption
<1>4. Budget(queue', worker', attempts', retryCount, mr, delivered, n)
  BY <1>1, <1>3, LoopBudget
<1>5. Kept(queue', worker', status', n, cleared)
  BY <1>1, LoopKept
<1>6. runningWorkers' = Cardinality(Busy(worker')) + e
  <2>1. runningWorkers' - running = Cardinality(Busy(worker')) - Cardinality(Busy(wrk))
    BY <1>1, LoopAccounting
  <2>2. Cardinality(Busy(worker')) \in Nat /\ Cardinality(Busy(wrk)) \in Nat
    BY JobsFinite, FS_CardinalityType
  <2>3. runningWorkers' \in Nat
    BY <1>1 DEF Looped
  <2> QED
    BY <2>1, <2>2, <2>3
<1>7. /\ worker' \in [Jobs -> Stages] /\ status' \in [Jobs -> Statuses]
      /\ attempts' \in [Jobs -> Nat]
  BY <1>1 DEF Looped, Stages, Statuses
<1>8. queue' \in Queues /\ runningWorkers' \in Int /\ runningWorkers' <= maxConcurrency
  BY <1>1 DEF Looped
<1> QED
  BY <1>2, <1>4, <1>5, <1>6, <1>7, <1>8

----------------------------------------------------------------------------
\* What the methods do to the queues.

\* A job appended to a queue, as a statement about positions.
LEMMA Appended ==
  ASSUME NEW s \in Seq(Jobs), NEW j \in Jobs
  PROVE  /\ Append(s, j) \in Seq(Jobs) /\ Len(Append(s, j)) = Len(s) + 1 /\ Len(s) \in Nat
         /\ Append(s, j)[Len(s) + 1] = j
         /\ \A k \in 1..Len(s) : Append(s, j)[k] = s[k]
  OBVIOUS

\* A job put in front of a queue, as a statement about positions.
LEMMA Prepended ==
  ASSUME NEW s \in Seq(Jobs), NEW j \in Jobs
  PROVE  /\ <<j>> \o s \in Seq(Jobs) /\ Len(<<j>> \o s) = Len(s) + 1 /\ Len(s) \in Nat
         /\ (<<j>> \o s)[1] = j
         /\ \A k \in 2..(Len(s) + 1) : (<<j>> \o s)[k] = s[k - 1]
<1>1. <<j>> \in Seq(Jobs) /\ Len(<<j>>) = 1 /\ <<j>>[1] = j
  OBVIOUS
<1> QED
  BY <1>1, ConcatProperties

\* A queued job is in no worker.
LEMMA QueuedIsIdle ==
  ASSUME NEW q, NEW wrk, NEW prio, NEW n, Placed(q, wrk, prio, n), NEW j, In(j, q)
  PROVE  wrk[j] = "idle" /\ j <= n
  BY DEF Placed, In

\* What the queues of a reachable state hold.
LEMMA QueuesHold ==
  ASSUME IInv
  PROVE  /\ \A x \in Priorities : \A k, l \in 1..Len(queue[x]) : queue[x][k] = queue[x][l] => k = l
         /\ \A x \in Priorities : \A k \in 1..Len(queue[x]) :
              /\ queue[x][k] \in Jobs /\ queue[x][k] <= created
              /\ priority[queue[x][k]] = x /\ worker[queue[x][k]] = "idle"
<1>1. \A x \in Priorities : \A k \in 1..Len(queue[x]) : queue[x][k] \in Jobs
  BY Types DEF Queues
<1>2. Placed(queue, worker, priority, created)
  BY DEF IInv
<1> QED
  BY <1>1, <1>2 DEF Placed

\* The set of queued jobs, as a statement about positions.
LEMMA QueuedIn ==
  ASSUME IInv
  PROVE  \A i : In(i, queue) <=> i \in Queued
<1>1. \A p \in Priorities : DOMAIN queue[p] = 1..Len(queue[p])
  BY Types DEF Queues
<1>2. \A p \in Priorities : \A i : i \in Range(queue[p]) <=> \E k \in 1..Len(queue[p]) : queue[p][k] = i
  BY <1>1 DEF Range
<1>3. \A i : i \in Queued <=> \E p \in Priorities : i \in Range(queue[p])
  BY DEF Queued
<1> QED
  BY <1>2, <1>3 DEF In

\* enqueue adds one job to the queues, and the job is in one place.
LEMMA PushedQueue ==
  ASSUME IInv, created < MaxJobs, NEW p \in Priorities
  PROVE  /\ created + 1 \in Jobs /\ Pushed(p) \in Queues
         /\ \A i : In(i, Pushed(p)) <=> In(i, queue) \/ i = created + 1
         /\ Placed(Pushed(p), worker, [priority EXCEPT ![created + 1] = p], created + 1)
<1> DEFINE j == created + 1
           q2 == Pushed(p)
           prio2 == [priority EXCEPT ![j] = p]
<1>1. created \in Nat /\ j \in Jobs /\ j \in Nat
  <2>1. created \in Nat /\ MaxJobs \in Nat
    BY Types, BoundsAssumption
  <2> QED
    BY <2>1 DEF Jobs
<1>2. /\ q2[p] \in Seq(Jobs) /\ Len(q2[p]) = Len(queue[p]) + 1 /\ Len(queue[p]) \in Nat
      /\ q2[p][Len(queue[p]) + 1] = j
      /\ \A k \in 1..Len(queue[p]) : q2[p][k] = queue[p][k]
  BY <1>1, Types, Appended DEF Pushed, Queues
<1>3. \A x \in Priorities : x # p => q2[x] = queue[x]
  BY Types DEF Pushed, Queues
<1>4. q2 \in Queues
  BY <1>2, Types DEF Pushed, Queues
<1>5. /\ \A x \in Priorities : \A k, l \in 1..Len(queue[x]) : queue[x][k] = queue[x][l] => k = l
      /\ \A x \in Priorities : \A k \in 1..Len(queue[x]) :
           /\ queue[x][k] \in Jobs /\ queue[x][k] <= created /\ queue[x][k] # j
           /\ priority[queue[x][k]] = x /\ worker[queue[x][k]] = "idle"
  <2>1. \A i \in Jobs : i <= created => i # j
    BY <1>1 DEF Jobs
  <2> QED
    BY <2>1, QueuesHold
<1>6. worker[j] = "idle" /\ prio2[j] = p /\ \A i \in Jobs : i # j => prio2[i] = priority[i]
  <2>1. j > created
    BY <1>1
  <2>2. worker[j] = "idle"
    BY <1>1, <2>1 DEF IInv, Budget
  <2> QED
    BY <1>1, <2>2, Types
<1>7. \A i : In(i, q2) <=> In(i, queue) \/ i = j
  <2>1. ASSUME NEW i, In(i, queue) PROVE In(i, q2)
    <3>1. PICK x \in Priorities : \E k \in 1..Len(queue[x]) : queue[x][k] = i
      BY <2>1 DEF In
    <3>2. PICK k \in 1..Len(queue[x]) : queue[x][k] = i
      BY <3>1
    <3>3. k \in 1..Len(q2[x]) /\ q2[x][k] = i
      BY <1>2, <1>3, <3>2
    <3> QED
      BY <3>3 DEF In
  <2>2. In(j, q2)
    <3>1. Len(queue[p]) + 1 \in 1..Len(q2[p])
      BY <1>2
    <3> QED
      BY <1>2, <3>1 DEF In
  <2>3. ASSUME NEW i, In(i, q2), i # j PROVE In(i, queue)
    <3>1. PICK x \in Priorities : \E k \in 1..Len(q2[x]) : q2[x][k] = i
      BY <2>3 DEF In
    <3>2. PICK k \in 1..Len(q2[x]) : q2[x][k] = i
      BY <3>1
    <3>3. k \in 1..Len(queue[x]) /\ queue[x][k] = i
      BY <1>2, <1>3, <2>3, <3>2
    <3> QED
      BY <3>3 DEF In
  <2> QED
    BY <2>1, <2>2, <2>3
<1>8. Placed(q2, worker, prio2, j)
  <2> SUFFICES ASSUME NEW x \in Priorities
               PROVE  /\ \A k, l \in 1..Len(q2[x]) : q2[x][k] = q2[x][l] => k = l
                      /\ \A k \in 1..Len(q2[x]) :
                           /\ prio2[q2[x][k]] = x /\ worker[q2[x][k]] = "idle"
                           /\ q2[x][k] <= j
    BY DEF Placed
  <2>1. \A i \in Jobs : i <= created => i <= j
    BY <1>1 DEF Jobs
  <2>2. j <= j
    BY <1>1
  <2> HIDE DEF j, q2, prio2
  <2>3. CASE x # p
    BY <1>3, <1>5, <1>6, <2>1, <2>3
  <2>4. CASE x = p
    <3>1. \A k \in 1..Len(q2[p]) : k \in 1..Len(queue[p]) \/ k = Len(queue[p]) + 1
      BY <1>2
    <3>2. \A k, l \in 1..Len(q2[p]) : q2[p][k] = q2[p][l] => k = l
      <4>1. \A k \in 1..Len(queue[p]) : q2[p][k] = queue[p][k] /\ queue[p][k] # j
        BY <1>2, <1>5
      <4>2. q2[p][Len(queue[p]) + 1] = j
        BY <1>2
      <4>3. \A k, l \in 1..Len(queue[p]) : queue[p][k] = queue[p][l] => k = l
        BY <1>5
      <4> QED
        BY <3>1, <4>1, <4>2, <4>3
    <3>3. \A k \in 1..Len(q2[p]) :
            prio2[q2[p][k]] = p /\ worker[q2[p][k]] = "idle" /\ q2[p][k] <= j
      <4> SUFFICES ASSUME NEW k \in 1..Len(q2[p])
                   PROVE  prio2[q2[p][k]] = p /\ worker[q2[p][k]] = "idle" /\ q2[p][k] <= j
        OBVIOUS
      <4>1. CASE k = Len(queue[p]) + 1
        BY <1>2, <1>6, <2>2, <4>1
      <4>2. CASE k \in 1..Len(queue[p])
        <5>1. q2[p][k] = queue[p][k] /\ queue[p][k] \in Jobs /\ queue[p][k] # j
          BY <1>2, <1>5, <4>2
        <5> QED
          BY <1>5, <1>6, <2>1, <4>2, <5>1
      <4> QED
        BY <3>1, <4>1, <4>2
    <3> QED
      BY <2>4, <3>2, <3>3
  <2> QED
    BY <2>3, <2>4
<1> QED
  BY <1>1, <1>4, <1>7, <1>8

\* The backoff timer adds the job to the queues, and the job is in one place.
LEMMA RequeuedQueue ==
  ASSUME IInv, NEW j \in Jobs, worker[j] = "backoff"
  PROVE  /\ Requeued(j) \in Queues
         /\ \A i : In(i, Requeued(j)) <=> In(i, queue) \/ i = j
         /\ Placed(Requeued(j), [worker EXCEPT ![j] = "idle"], priority, created)
<1> DEFINE p == priority[j]
           q2 == Requeued(j)
           wrk2 == [worker EXCEPT ![j] = "idle"]
<1>1. p \in Priorities
  BY Types
<1>2. /\ q2[p] \in Seq(Jobs) /\ Len(q2[p]) = Len(queue[p]) + 1 /\ Len(queue[p]) \in Nat
      /\ q2[p][1] = j
      /\ \A k \in 2..(Len(queue[p]) + 1) : q2[p][k] = queue[p][k - 1]
  BY <1>1, Types, Prepended DEF Requeued, Queues
<1>3. \A x \in Priorities : x # p => q2[x] = queue[x]
  BY Types DEF Requeued, Queues
<1>4. q2 \in Queues
  BY <1>1, <1>2, Types DEF Requeued, Queues
<1>5. /\ \A x \in Priorities : \A k, l \in 1..Len(queue[x]) : queue[x][k] = queue[x][l] => k = l
      /\ \A x \in Priorities : \A k \in 1..Len(queue[x]) :
           /\ queue[x][k] # j /\ queue[x][k] \in Jobs /\ queue[x][k] <= created
           /\ priority[queue[x][k]] = x /\ worker[queue[x][k]] = "idle"
  <2>1. \A x \in Priorities : \A k \in 1..Len(queue[x]) : queue[x][k] # j
    BY QueuesHold
  <2> QED
    BY <2>1, QueuesHold
<1>6. /\ wrk2[j] = "idle" /\ \A i \in Jobs : worker[i] = "idle" => wrk2[i] = "idle"
      /\ j <= created
  <2>1. ~(j > created)
    BY DEF IInv, Budget
  <2> QED
    BY <2>1, Types DEF Jobs
<1> HIDE DEF p, q2, wrk2
<1>7. \A i : In(i, q2) <=> In(i, queue) \/ i = j
  <2>1. ASSUME NEW i, In(i, queue) PROVE In(i, q2)
    <3>1. PICK x \in Priorities : \E k \in 1..Len(queue[x]) : queue[x][k] = i
      BY <2>1 DEF In
    <3>2. PICK k \in 1..Len(queue[x]) : queue[x][k] = i
      BY <3>1
    <3>3. CASE x # p
      BY <1>3, <3>2, <3>3 DEF In
    <3>4. CASE x = p
      <4>1. k + 1 \in 2..(Len(queue[p]) + 1) /\ (k + 1) - 1 = k /\ k + 1 \in 1..Len(q2[p])
        BY <1>2, <3>4
      <4>2. q2[p][k + 1] = i
        BY <1>2, <3>2, <3>4, <4>1
      <4> QED
        BY <1>1, <4>1, <4>2 DEF In
    <3> QED
      BY <3>3, <3>4
  <2>2. In(j, q2)
    <3>1. 1 \in 1..Len(q2[p])
      BY <1>2
    <3> QED
      BY <1>1, <1>2, <3>1 DEF In
  <2>3. ASSUME NEW i, In(i, q2), i # j PROVE In(i, queue)
    <3>1. PICK x \in Priorities : \E k \in 1..Len(q2[x]) : q2[x][k] = i
      BY <2>3 DEF In
    <3>2. PICK k \in 1..Len(q2[x]) : q2[x][k] = i
      BY <3>1
    <3>3. CASE x # p
      BY <1>3, <3>2, <3>3 DEF In
    <3>4. CASE x = p
      <4>1. k \in 2..(Len(queue[p]) + 1) /\ k - 1 \in 1..Len(queue[p])
        BY <1>2, <2>3, <3>2, <3>4
      <4>2. queue[p][k - 1] = i
        BY <1>2, <3>2, <3>4, <4>1
      <4> QED
        BY <1>1, <4>1, <4>2 DEF In
    <3> QED
      BY <3>3, <3>4
  <2> QED
    BY <2>1, <2>2, <2>3
<1>8. Placed(q2, wrk2, priority, created)
  <2> SUFFICES ASSUME NEW x \in Priorities
               PROVE  /\ \A k, l \in 1..Len(q2[x]) : q2[x][k] = q2[x][l] => k = l
                      /\ \A k \in 1..Len(q2[x]) :
                           /\ priority[q2[x][k]] = x /\ wrk2[q2[x][k]] = "idle"
                           /\ q2[x][k] <= created
    BY DEF Placed
  <2>1. CASE x # p
    BY <1>3, <1>5, <1>6, <2>1
  <2>2. CASE x = p
    <3>1. \A k \in 1..Len(q2[p]) :
            k = 1 \/ (k \in 2..(Len(queue[p]) + 1) /\ k - 1 \in 1..Len(queue[p]))
      BY <1>2
    <3>2. ASSUME NEW k \in 1..Len(q2[p]), NEW l \in 1..Len(q2[p]), q2[p][k] = q2[p][l]
          PROVE  k = l
      <4>1. CASE k = 1 \/ l = 1
        BY <1>1, <1>2, <1>5, <3>1, <3>2, <4>1
      <4>2. CASE k # 1 /\ l # 1
        <5>1. k - 1 \in 1..Len(queue[p]) /\ l - 1 \in 1..Len(queue[p])
                /\ queue[p][k - 1] = queue[p][l - 1]
          BY <1>2, <3>1, <3>2, <4>2
        <5>2. k - 1 = l - 1
          BY <1>1, <1>5, <5>1
        <5> QED
          BY <5>2
      <4> QED
        BY <4>1, <4>2
    <3>3. ASSUME NEW k \in 1..Len(q2[p])
          PROVE  priority[q2[p][k]] = p /\ wrk2[q2[p][k]] = "idle" /\ q2[p][k] <= created
      <4>1. CASE k = 1
        BY <1>2, <1>6, <4>1 DEF p
      <4>2. CASE k # 1
        <5>1. k - 1 \in 1..Len(queue[p]) /\ q2[p][k] = queue[p][k - 1]
          BY <1>2, <3>1, <4>2
        <5> QED
          BY <1>1, <1>5, <1>6, <5>1
      <4> QED
        BY <4>1, <4>2
    <3> QED
      BY <2>2, <3>2, <3>3
  <2> QED
    BY <2>1, <2>2
<1> QED
  BY <1>4, <1>7, <1>8 DEF q2, wrk2

\* A job that is in a worker moves to another await, or leaves the worker.
LEMMA WorkerMoves ==
  ASSUME IInv, NEW j \in Jobs, worker[j] # "idle", NEW s \in Stages
  PROVE  LET wrk2 == [worker EXCEPT ![j] = s] IN
         /\ wrk2 \in [Jobs -> Stages]
         /\ Placed(queue, wrk2, priority, created)
         /\ ~In(j, queue)
         /\ Cardinality(Busy(wrk2)) = IF s = "idle" THEN Cardinality(Busy(worker)) - 1
                                                    ELSE Cardinality(Busy(worker))
<1> DEFINE wrk2 == [worker EXCEPT ![j] = s]
<1>1. wrk2 \in [Jobs -> Stages] /\ wrk2[j] = s /\ \A i \in Jobs : i # j => wrk2[i] = worker[i]
  BY Types
<1>2. ~In(j, queue)
  BY QueuedIsIdle DEF IInv
<1>3. Placed(queue, wrk2, priority, created)
  <2>1. \A x \in Priorities : \A k \in 1..Len(queue[x]) :
          queue[x][k] \in Jobs /\ worker[queue[x][k]] = "idle"
    BY QueuesHold
  <2>2. \A x \in Priorities : \A k \in 1..Len(queue[x]) : wrk2[queue[x][k]] = "idle"
    BY <1>1, <2>1
  <2>3. Placed(queue, worker, priority, created)
    BY DEF IInv
  <2> QED
    BY <2>2, <2>3 DEF Placed
<1>4. Busy(wrk2) = IF s = "idle" THEN Busy(worker) \ {j} ELSE Busy(worker)
  BY <1>1 DEF Busy
<1>5. j \in Busy(worker) /\ IsFiniteSet(Busy(worker))
  BY JobsFinite DEF Busy
<1>6. Cardinality(Busy(worker) \ {j}) = Cardinality(Busy(worker)) - 1
  BY <1>5, FS_RemoveElement
<1> QED
  BY <1>1, <1>2, <1>3, <1>4, <1>6

----------------------------------------------------------------------------
\* The invariant holds initially, and every action keeps it.

\* Every initial state satisfies the invariant.
LEMMA InitIInv == Init => IInv
<1> SUFFICES ASSUME Init PROVE IInv
  OBVIOUS
<1>1. 0 \in 0..MaxRetryLimit /\ 0 \in 0..(MaxRetryLimit + 1) /\ 0 \in 0..MaxJobs
  BY BoundsAssumption
<1>2. TypeOK
  BY <1>1 DEF Init, TypeOK, Priorities
<1>3. Busy(worker) = {} /\ Cardinality({}) = 0
  BY FS_EmptySet DEF Init, Busy
<1>4. Accounting
  <2>1. runningWorkers = 0 /\ exiting = 0
    BY DEF Init
  <2>2. Cardinality(Busy(worker)) = 0
    BY <1>3
  <2> QED
    BY <2>1, <2>2, ConcurrencyAssumption DEF Accounting
<1>5. \A p \in Priorities : Len(queue[p]) = 0
  BY DEF Init
<1>6. Placed(queue, worker, priority, created) /\ \A j : ~In(j, queue)
  BY <1>5 DEF Placed, In
<1>7. Budget(queue, worker, attempts, retryCount, maxRetries, delivered, created)
  BY <1>6 DEF Init, Budget
<1>8. Kept(queue, worker, status, created, cleared)
  BY DEF Init, Kept
<1> QED
  BY <1>2, <1>4, <1>6, <1>7, <1>8 DEF IInv

\* The state in which enqueue emits its event and then runs the loop.
LEMMA PushedState ==
  ASSUME IInv, NEW p \in Priorities, NEW m \in 0..MaxRetryLimit, PushJob(p, m)
  PROVE  /\ created' = created + 1 /\ created' \in 0..MaxJobs
         /\ priority' \in [Jobs -> Priorities]
         /\ maxRetries' \in [Jobs -> 0..MaxRetryLimit] /\ maxRetries' \in [Jobs -> Nat]
         /\ Pushed(p) \in Queues /\ Pending \in [Jobs -> Statuses]
         /\ Placed(Pushed(p), worker, priority', created')
         /\ Budget(Pushed(p), worker, attempts, retryCount, maxRetries', delivered, created')
         /\ Kept(Pushed(p), worker, Pending, created', cleared)
<1> DEFINE q2 == Pushed(p)
<1>1. created' = created + 1 /\ created \in Nat /\ created + 1 \in Jobs /\ created' \in 0..MaxJobs
        /\ created < MaxJobs
  <2>1. created < MaxJobs /\ created' = created + 1
    BY DEF PushJob
  <2>2. created \in 0..MaxJobs /\ created \in Nat
    BY Types
  <2> QED
    BY <2>1, <2>2, BoundsAssumption DEF Jobs
<1>2. /\ q2 \in Queues /\ Placed(q2, worker, priority', created')
      /\ \A i : In(i, q2) <=> In(i, queue) \/ i = created + 1
  BY <1>1, PushedQueue DEF PushJob
<1>3. priority' \in [Jobs -> Priorities] /\ maxRetries' \in [Jobs -> 0..MaxRetryLimit]
  BY DEF PushJob, IInv, TypeOK
<1>4. maxRetries' \in [Jobs -> Nat]
  BY <1>3, BoundsAssumption
<1>5. Pending \in [Jobs -> Statuses]
  BY Types DEF Pending, Statuses
<1> HIDE DEF q2
<1>6. Budget(q2, worker, attempts, retryCount, maxRetries', delivered, created')
  <2> SUFFICES ASSUME NEW i \in Jobs
               PROVE  /\ worker[i] \in {"acquiring", "sending"} =>
                           /\ attempts[i] = retryCount[i] + 1
                           /\ retryCount[i] <= maxRetries'[i] /\ delivered[i] <= retryCount[i]
                      /\ worker[i] = "backoff" \/ In(i, q2) =>
                           attempts[i] = retryCount[i] /\ retryCount[i] <= maxRetries'[i]
                      /\ attempts[i] <= maxRetries'[i] + 1 /\ retryCount[i] <= maxRetries'[i] + 1
                      /\ delivered[i] <= attempts[i]
                      /\ i > created' => /\ worker[i] = "idle" /\ attempts[i] = 0
                                         /\ retryCount[i] = 0 /\ delivered[i] = 0
    BY DEF Budget
  <2>1. CASE i = created + 1
    <3>1. i > created
      BY <1>1, <2>1
    <3>2. worker[i] = "idle" /\ attempts[i] = 0 /\ retryCount[i] = 0 /\ delivered[i] = 0
      BY <3>1 DEF IInv, Budget
    <3>3. maxRetries'[i] \in Nat
      BY <1>4
    <3> QED
      BY <3>2, <3>3
  <2>2. CASE i # created + 1
    <3>1. maxRetries'[i] = maxRetries[i]
      BY <2>2, Types DEF PushJob
    <3>2. In(i, q2) <=> In(i, queue)
      BY <1>2, <2>2
    <3>3. i > created' => i > created
      BY <1>1 DEF Jobs
    <3>4. Budget(queue, worker, attempts, retryCount, maxRetries, delivered, created)
      BY DEF IInv
    <3> QED
      BY <3>1, <3>2, <3>3, <3>4 DEF Budget
  <2> QED
    BY <2>1, <2>2
<1>7. Kept(q2, worker, Pending, created', cleared)
  <2> SUFFICES ASSUME NEW i \in 1..created'
               PROVE  \/ In(i, q2) \/ worker[i] # "idle" \/ i \in cleared
                      \/ Pending[i] \in {"completed", "failed"}
    BY DEF Kept
  <2>1. CASE i = created + 1
    BY <1>2, <2>1
  <2>2. CASE i # created + 1
    <3>1. i \in 1..created /\ i \in Jobs
      BY <1>1, <2>2, BoundsAssumption DEF Jobs
    <3>2. Pending[i] = status[i]
      BY <2>2, <3>1, Types DEF Pending
    <3>3. Kept(queue, worker, status, created, cleared)
      BY DEF IInv
    <3> QED
      BY <1>2, <3>1, <3>2, <3>3 DEF Kept
  <2> QED
    BY <2>1, <2>2
<1> QED
  BY <1>1, <1>2, <1>3, <1>4, <1>5, <1>6, <1>7 DEF q2

\* enqueue: the job is appended, then the loop runs.
LEMMA EnqueueInv ==
  ASSUME IInv, NEW p \in Priorities, NEW m \in 0..MaxRetryLimit, Enqueue(p, m)
  PROVE  IInv'
<1>1. PushJob(p, m) /\ TriggerProcessing(isProcessing, Pushed(p), runningWorkers, worker, Pending)
        /\ UNCHANGED <<isProcessing, retryCount, promise, completedCount, failedCount,
                       delivered, exiting, cleared>>
  BY DEF Enqueue, outcome
<1>2. isProcessing \in BOOLEAN /\ runningWorkers = Cardinality(Busy(worker)) + exiting
  BY DEF IInv, TypeOK, Accounting
<1>3. /\ created' \in 0..MaxJobs /\ priority' \in [Jobs -> Priorities]
      /\ maxRetries' \in [Jobs -> 0..MaxRetryLimit] /\ maxRetries' \in [Jobs -> Nat]
      /\ Pushed(p) \in Queues /\ Pending \in [Jobs -> Statuses]
      /\ Placed(Pushed(p), worker, priority', created')
      /\ Budget(Pushed(p), worker, attempts, retryCount, maxRetries', delivered, created')
      /\ Kept(Pushed(p), worker, Pending, created', cleared)
  BY <1>1, PushedState
<1>4. /\ queue' \in Queues /\ runningWorkers' \in Int /\ runningWorkers' <= maxConcurrency
      /\ worker' \in [Jobs -> Stages] /\ status' \in [Jobs -> Statuses]
      /\ attempts' \in [Jobs -> Nat]
      /\ runningWorkers' = Cardinality(Busy(worker')) + exiting
      /\ Placed(queue', worker', priority', created')
      /\ Budget(queue', worker', attempts', retryCount, maxRetries', delivered, created')
      /\ Kept(queue', worker', status', created', cleared)
  BY <1>1, <1>2, <1>3, Types, LoopInv
<1>5. TypeOK'
  BY <1>1, <1>3, <1>4 DEF IInv, TypeOK, Queues, Stages, Statuses
<1> QED
  BY <1>1, <1>4, <1>5 DEF IInv, Accounting

\* enqueue, left by a throw before the loop.
LEMMA EnqueuedListenerThrowsInv ==
  ASSUME IInv, NEW p \in Priorities, NEW m \in 0..MaxRetryLimit, EnqueuedListenerThrows(p, m)
  PROVE  IInv'
<1>1. /\ PushJob(p, m) /\ queue' = Pushed(p) /\ status' = Pending
      /\ promise' = [promise EXCEPT ![created + 1] = "rejected"]
      /\ UNCHANGED <<runningWorkers, worker, attempts, isProcessing, retryCount,
                     completedCount, failedCount, delivered, exiting, cleared>>
  BY DEF EnqueuedListenerThrows
<1>2. /\ created' \in 0..MaxJobs /\ priority' \in [Jobs -> Priorities]
      /\ maxRetries' \in [Jobs -> 0..MaxRetryLimit]
      /\ queue' \in Queues /\ status' \in [Jobs -> Statuses]
      /\ Placed(queue', worker, priority', created')
      /\ Budget(queue', worker, attempts, retryCount, maxRetries', delivered, created')
      /\ Kept(queue', worker, status', created', cleared)
  BY <1>1, PushedState
<1>3. TypeOK'
  BY <1>1, <1>2 DEF IInv, TypeOK, Queues, Statuses
<1>4. Accounting'
  BY <1>1 DEF IInv, Accounting, Busy
<1> QED
  BY <1>1, <1>2, <1>3, <1>4 DEF IInv

\* start: the loop runs from the state as it is.
LEMMA StartInv ==
  ASSUME IInv, Start
  PROVE  IInv'
<1>1. /\ isProcessing' = TRUE /\ TriggerProcessing(TRUE, queue, runningWorkers, worker, status)
      /\ UNCHANGED <<created, priority, maxRetries, retryCount, promise, completedCount,
                     failedCount, delivered, exiting, cleared>>
  BY DEF Start, jobOptions, outcome
<1>2. /\ runningWorkers = Cardinality(Busy(worker)) + exiting
      /\ Placed(queue, worker, priority, created)
      /\ Budget(queue, worker, attempts, retryCount, maxRetries, delivered, created)
      /\ Kept(queue, worker, status, created, cleared)
  BY DEF IInv, Accounting
<1>3. /\ queue' \in Queues /\ runningWorkers' \in Int /\ runningWorkers' <= maxConcurrency
      /\ worker' \in [Jobs -> Stages] /\ status' \in [Jobs -> Statuses]
      /\ attempts' \in [Jobs -> Nat]
      /\ runningWorkers' = Cardinality(Busy(worker')) + exiting
      /\ Placed(queue', worker', priority, created)
      /\ Budget(queue', worker', attempts', retryCount, maxRetries, delivered, created)
      /\ Kept(queue', worker', status', created, cleared)
  BY <1>1, <1>2, Types, LoopInv
<1>4. TypeOK'
  BY <1>1, <1>3 DEF IInv, TypeOK, Queues, Stages, Statuses
<1> QED
  BY <1>1, <1>3, <1>4 DEF IInv, Accounting

\* The .finally callback: a slot is freed, then the loop runs.
LEMMA FinallyInv ==
  ASSUME IInv, Finally
  PROVE  IInv'
<1> DEFINE r == runningWorkers - 1
           e == exiting - 1
<1>1. /\ exiting > 0 /\ exiting' = e
      /\ TriggerProcessing(isProcessing, queue, r, worker, status)
      /\ UNCHANGED <<isProcessing, created, priority, maxRetries, retryCount, promise,
                     completedCount, failedCount, delivered, cleared>>
  BY DEF Finally, jobOptions, outcome
<1>2. /\ isProcessing \in BOOLEAN
      /\ runningWorkers = Cardinality(Busy(worker)) + exiting
      /\ Placed(queue, worker, priority, created)
      /\ Budget(queue, worker, attempts, retryCount, maxRetries, delivered, created)
      /\ Kept(queue, worker, status, created, cleared)
  BY DEF IInv, TypeOK, Accounting
<1>3. /\ e \in Nat /\ r \in Nat /\ r <= maxConcurrency
      /\ r = Cardinality(Busy(worker)) + e
  BY <1>1, <1>2, Types, ConcurrencyAssumption
<1> HIDE DEF r, e
<1>4. /\ queue' \in Queues /\ runningWorkers' \in Int /\ runningWorkers' <= maxConcurrency
      /\ worker' \in [Jobs -> Stages] /\ status' \in [Jobs -> Statuses]
      /\ attempts' \in [Jobs -> Nat]
      /\ runningWorkers' = Cardinality(Busy(worker')) + e
      /\ Placed(queue', worker', priority, created)
      /\ Budget(queue', worker', attempts', retryCount, maxRetries, delivered, created)
      /\ Kept(queue', worker', status', created, cleared)
  BY <1>1, <1>2, <1>3, Types, LoopInv
<1>5. TypeOK'
  BY <1>1, <1>3, <1>4 DEF IInv, TypeOK, Queues, Stages, Statuses
<1> QED
  BY <1>1, <1>4, <1>5 DEF IInv, Accounting

\* pause only clears the flag.
LEMMA PauseInv ==
  ASSUME IInv, Pause
  PROVE  IInv'
<1>1. isProcessing' = FALSE /\ UNCHANGED <<queue, runningWorkers, worker, status, attempts,
        created, priority, maxRetries, retryCount, promise, completedCount, failedCount,
        delivered, exiting, cleared>>
  BY DEF Pause, pool, jobOptions, outcome
<1>2. TypeOK'
  BY <1>1 DEF IInv, TypeOK
<1> QED
  BY <1>1, <1>2 DEF IInv, Accounting, Busy

\* clear empties the queues: the jobs it drops are all that leave them.
LEMMA ClearInv ==
  ASSUME IInv, Clear
  PROVE  IInv'
<1>1. /\ queue' = [p \in Priorities |-> <<>>] /\ cleared' = cleared \cup Queued
      /\ UNCHANGED <<runningWorkers, worker, status, attempts, isProcessing, created, priority,
                     maxRetries, retryCount, promise, completedCount, failedCount, delivered,
                     exiting>>
  BY DEF Clear, jobOptions, outcome
<1>3. \A i : In(i, queue) <=> i \in Queued
  BY QueuedIn
<1>4. Queued \subseteq Jobs
  BY <1>3, QueuesHold DEF In
<1>5. \A p \in Priorities : Len(queue'[p]) = 0
  BY <1>1
<1>6. TypeOK'
  BY <1>1, <1>4 DEF IInv, TypeOK
<1>7. Placed(queue', worker', priority', created') /\ \A i : ~In(i, queue')
  BY <1>5 DEF Placed, In
<1>8. Budget(queue', worker', attempts', retryCount', maxRetries', delivered', created')
  BY <1>1, <1>7 DEF IInv, Budget
<1>9. Kept(queue', worker', status', created', cleared')
  BY <1>1, <1>3 DEF IInv, Kept
<1> QED
  BY <1>1, <1>6, <1>7, <1>8, <1>9 DEF IInv, Accounting, Busy

----------------------------------------------------------------------------
\* A step of processJob(j) concerns j alone.

\* The attempts used, when j is the only job whose await, retryCount or sends change.
LEMMA BudgetMoves ==
  ASSUME IInv, NEW j \in Jobs, worker[j] # "idle", NEW s \in Stages,
         NEW q2, NEW rc2, NEW dl2,
         \A i \in Jobs : i # j => /\ rc2[i] = retryCount[i] /\ dl2[i] = delivered[i]
                                  /\ In(i, q2) => In(i, queue),
         s \in {"acquiring", "sending"} =>
           attempts[j] = rc2[j] + 1 /\ rc2[j] <= maxRetries[j] /\ dl2[j] <= rc2[j],
         s = "backoff" \/ In(j, q2) => attempts[j] = rc2[j] /\ rc2[j] <= maxRetries[j],
         attempts[j] <= maxRetries[j] + 1 /\ rc2[j] <= maxRetries[j] + 1 /\ dl2[j] <= attempts[j]
  PROVE  Budget(q2, [worker EXCEPT ![j] = s], attempts, rc2, maxRetries, dl2, created)
<1> DEFINE wrk2 == [worker EXCEPT ![j] = s]
<1>1. wrk2[j] = s /\ \A i \in Jobs : i # j => wrk2[i] = worker[i]
  BY Types
<1>2. Budget(queue, worker, attempts, retryCount, maxRetries, delivered, created)
  BY DEF IInv
<1>3. ~(j > created)
  BY <1>2 DEF Budget
<1> HIDE DEF wrk2
<1>4. \A i \in Jobs : i # j =>
        /\ wrk2[i] \in {"acquiring", "sending"} =>
             attempts[i] = rc2[i] + 1 /\ rc2[i] <= maxRetries[i] /\ dl2[i] <= rc2[i]
        /\ wrk2[i] = "backoff" \/ In(i, q2) => attempts[i] = rc2[i] /\ rc2[i] <= maxRetries[i]
        /\ attempts[i] <= maxRetries[i] + 1 /\ rc2[i] <= maxRetries[i] + 1
        /\ dl2[i] <= attempts[i]
        /\ i > created => wrk2[i] = "idle" /\ attempts[i] = 0 /\ rc2[i] = 0 /\ dl2[i] = 0
  BY <1>1, <1>2 DEF Budget
<1>5. Budget(q2, wrk2, attempts, rc2, maxRetries, dl2, created)
  BY <1>1, <1>3, <1>4 DEF Budget
<1> QED
  BY <1>5 DEF wrk2

\* No other job is lost, and j is not if it is queued, in a worker or over.
LEMMA KeptMoves ==
  ASSUME IInv, NEW j \in Jobs, NEW s \in Stages, NEW q2, NEW sts2,
         \A i \in Jobs : i # j => sts2[i] = status[i] /\ (In(i, queue) => In(i, q2)),
         In(j, queue) => In(j, q2),
         In(j, q2) \/ s # "idle" \/ sts2[j] \in {"completed", "failed"}
  PROVE  Kept(q2, [worker EXCEPT ![j] = s], sts2, created, cleared)
<1> DEFINE wrk2 == [worker EXCEPT ![j] = s]
<1>1. wrk2[j] = s /\ \A i \in Jobs : i # j => wrk2[i] = worker[i]
  BY Types
<1>2. 1..created \subseteq Jobs
  BY Types, BoundsAssumption DEF Jobs
<1>3. Kept(queue, worker, status, created, cleared)
  BY DEF IInv
<1> HIDE DEF wrk2
<1>4. Kept(q2, wrk2, sts2, created, cleared)
  BY <1>1, <1>2, <1>3 DEF Kept
<1> QED
  BY <1>4 DEF wrk2

\* What the invariant says of the attempts of a job that is in a worker.
LEMMA InAttempt ==
  ASSUME IInv, NEW j \in Jobs, worker[j] \in {"acquiring", "sending"}
  PROVE  /\ attempts[j] = retryCount[j] + 1 /\ retryCount[j] <= maxRetries[j]
         /\ delivered[j] <= retryCount[j]
         /\ attempts[j] \in Nat /\ retryCount[j] \in Nat /\ maxRetries[j] \in Nat
         /\ delivered[j] \in Nat /\ maxRetries[j] <= MaxRetryLimit
         /\ ~In(j, queue)
<1>1. Budget(queue, worker, attempts, retryCount, maxRetries, delivered, created)
  BY DEF IInv
<1>2. ~In(j, queue)
  BY QueuedIsIdle DEF IInv
<1>3. maxRetries[j] \in 0..MaxRetryLimit
  BY DEF IInv, TypeOK
<1> QED
  BY <1>1, <1>2, <1>3, Types, BoundsAssumption DEF Budget

\* The limiter lets the job through: only its await changes.
LEMMA AcquireDoneInv ==
  ASSUME IInv, NEW j \in Jobs, AcquireDone(j)
  PROVE  IInv'
<1>1. /\ worker[j] = "acquiring" /\ worker' = [worker EXCEPT ![j] = "sending"]
      /\ UNCHANGED <<queue, runningWorkers, status, attempts, isProcessing, created, priority,
                     maxRetries, retryCount, promise, completedCount, failedCount, delivered,
                     exiting, cleared>>
  BY DEF AcquireDone, jobOptions, outcome
<1>2. "sending" \in Stages
  BY DEF Stages
<1>3. /\ worker' \in [Jobs -> Stages] /\ Placed(queue, worker', priority, created)
      /\ Cardinality(Busy(worker')) = Cardinality(Busy(worker))
  BY <1>1, <1>2, WorkerMoves
<1>4. Budget(queue, worker', attempts, retryCount, maxRetries, delivered, created)
  <2>1. /\ attempts[j] = retryCount[j] + 1 /\ retryCount[j] <= maxRetries[j]
        /\ delivered[j] <= retryCount[j] /\ ~In(j, queue)
    BY <1>1, InAttempt
  <2>2. /\ attempts[j] <= maxRetries[j] + 1 /\ retryCount[j] <= maxRetries[j] + 1
        /\ delivered[j] <= attempts[j]
    BY <1>1, InAttempt
  <2> QED
    BY <1>1, <1>2, <2>1, <2>2, BudgetMoves
<1>5. Kept(queue, worker', status, created, cleared)
  BY <1>1, <1>2, KeptMoves
<1>6. TypeOK'
  BY <1>1, <1>3 DEF IInv, TypeOK, Stages
<1> QED
  BY <1>1, <1>3, <1>4, <1>5, <1>6 DEF IInv, Accounting

\* The send succeeds: the job is over, and its slot is not yet free.
LEMMA SendOkInv ==
  ASSUME IInv, NEW j \in Jobs, SendOk(j)
  PROVE  IInv'
<1>1. /\ worker[j] = "sending" /\ worker' = [worker EXCEPT ![j] = "idle"]
      /\ delivered' = [delivered EXCEPT ![j] = @ + 1] /\ status' = [status EXCEPT ![j] = "completed"]
      /\ completedCount' = completedCount + 1 /\ promise' = Settle(j, "resolved")
      /\ exiting' = exiting + 1
      /\ UNCHANGED <<queue, runningWorkers, attempts, isProcessing, created, priority,
                     maxRetries, retryCount, failedCount, cleared>>
  BY DEF SendOk, jobOptions
<1>2. "idle" \in Stages
  BY DEF Stages
<1>3. /\ worker' \in [Jobs -> Stages] /\ Placed(queue, worker', priority, created)
      /\ Cardinality(Busy(worker')) = Cardinality(Busy(worker)) - 1
  BY <1>1, <1>2, WorkerMoves
<1>4. Budget(queue, worker', attempts, retryCount, maxRetries, delivered', created)
  <2>1. /\ \A i \in Jobs : i # j => delivered'[i] = delivered[i]
        /\ delivered'[j] = delivered[j] + 1
    BY <1>1, Types
  <2>2. /\ attempts[j] <= maxRetries[j] + 1 /\ retryCount[j] <= maxRetries[j] + 1
        /\ delivered'[j] <= attempts[j] /\ ~In(j, queue)
    BY <1>1, <2>1, InAttempt
  <2> QED
    BY <1>1, <1>2, <2>1, <2>2, BudgetMoves
<1>5. Kept(queue, worker', status', created, cleared)
  <2>1. status'[j] = "completed" /\ \A i \in Jobs : i # j => status'[i] = status[i]
    BY <1>1, Types
  <2> QED
    BY <1>1, <1>2, <2>1, KeptMoves
<1>6. TypeOK'
  BY <1>1, <1>3 DEF IInv, TypeOK, Settle, Stages
<1>7. Accounting'
  <2>1. runningWorkers = Cardinality(Busy(worker)) + exiting /\ runningWorkers <= maxConcurrency
    BY DEF IInv, Accounting
  <2>2. runningWorkers' = Cardinality(Busy(worker')) + exiting'
    BY <1>1, <1>3, <2>1, Types
  <2> QED
    BY <1>1, <2>1, <2>2 DEF Accounting
<1> QED
  BY <1>1, <1>3, <1>4, <1>5, <1>6, <1>7 DEF IInv

\* The catch block, whatever was counted and sent before it.
LEMMA HandleErrorInv ==
  ASSUME IInv, NEW j \in Jobs, worker[j] = "sending", NEW sts \in [Jobs -> Statuses],
         \A i \in Jobs : i # j => sts[i] = status[i], HandleError(j, sts),
         completedCount' \in Nat, delivered' \in [Jobs -> Nat],
         \A i \in Jobs : i # j => delivered'[i] = delivered[i],
         delivered'[j] <= delivered[j] + 1
  PROVE  IInv'
<1>1. /\ retryCount' = [retryCount EXCEPT ![j] = @ + 1]
      /\ UNCHANGED <<queue, runningWorkers, attempts, isProcessing, created, priority,
                     maxRetries, cleared>>
  BY DEF HandleError, jobOptions
<1>2. /\ retryCount'[j] = retryCount[j] + 1
      /\ \A i \in Jobs : i # j => retryCount'[i] = retryCount[i]
  BY <1>1, Types
<1>3. /\ attempts[j] = retryCount'[j] /\ retryCount'[j] <= maxRetries[j] + 1
      /\ attempts[j] <= maxRetries[j] + 1 /\ delivered'[j] <= attempts[j] /\ ~In(j, queue)
      /\ delivered'[j] \in Nat
  BY <1>2, InAttempt
<1>4. retryCount' \in [Jobs -> 0..(MaxRetryLimit + 1)]
  <2>1. retryCount[j] + 1 \in 0..(MaxRetryLimit + 1)
    BY InAttempt, BoundsAssumption
  <2> QED
    BY <1>1, <2>1 DEF IInv, TypeOK
<1>5. runningWorkers = Cardinality(Busy(worker)) + exiting /\ runningWorkers <= maxConcurrency
  BY DEF IInv, Accounting
<1>6. CASE SleepBeforeRetry(j, sts)
  <2>1. /\ worker' = [worker EXCEPT ![j] = "backoff"] /\ status' = sts
        /\ UNCHANGED <<failedCount, promise, exiting>> /\ retryCount[j] + 1 <= maxRetries[j]
    BY <1>6 DEF SleepBeforeRetry, CanRetry
  <2>2. "backoff" \in Stages
    BY DEF Stages
  <2>3. /\ worker' \in [Jobs -> Stages] /\ Placed(queue, worker', priority, created)
        /\ Cardinality(Busy(worker')) = Cardinality(Busy(worker))
    BY <2>1, <2>2, WorkerMoves
  <2>4. Budget(queue, worker', attempts, retryCount', maxRetries, delivered', created)
    BY <1>2, <1>3, <2>1, <2>2, BudgetMoves
  <2>5. Kept(queue, worker', status', created, cleared)
    BY <2>1, <2>2, KeptMoves
  <2>6. TypeOK'
    BY <1>1, <1>4, <2>1, <2>3 DEF IInv, TypeOK, Stages, Statuses
  <2>7. Accounting'
    BY <1>1, <1>5, <2>1, <2>3 DEF Accounting
  <2> QED
    BY <1>1, <2>3, <2>4, <2>5, <2>6, <2>7 DEF IInv
<1>7. CASE GiveUp(j, sts)
  <2>1. /\ worker' = [worker EXCEPT ![j] = "idle"] /\ status' = [sts EXCEPT ![j] = "failed"]
        /\ failedCount' = failedCount + 1 /\ promise' = Settle(j, "rejected")
        /\ exiting' = exiting + 1
    BY <1>7 DEF GiveUp
  <2>2. "idle" \in Stages
    BY DEF Stages
  <2>3. /\ worker' \in [Jobs -> Stages] /\ Placed(queue, worker', priority, created)
        /\ Cardinality(Busy(worker')) = Cardinality(Busy(worker)) - 1
    BY <2>1, <2>2, WorkerMoves
  <2>4. Budget(queue, worker', attempts, retryCount', maxRetries, delivered', created)
    BY <1>2, <1>3, <2>1, <2>2, BudgetMoves
  <2>5. /\ status' \in [Jobs -> Statuses]
        /\ status'[j] = "failed" /\ \A i \in Jobs : i # j => status'[i] = status[i]
    BY <2>1 DEF Statuses
  <2>6. Kept(queue, worker', status', created, cleared)
    BY <2>1, <2>2, <2>5, KeptMoves
  <2>7. TypeOK'
    BY <1>1, <1>4, <2>1, <2>3, <2>5 DEF IInv, TypeOK, Settle, Stages, Statuses
  <2>8. Accounting'
    <3>1. runningWorkers' = Cardinality(Busy(worker')) + exiting'
      BY <1>1, <1>5, <2>1, <2>3, Types
    <3> QED
      BY <1>1, <1>5, <3>1 DEF Accounting
  <2> QED
    BY <1>1, <2>3, <2>4, <2>6, <2>7, <2>8 DEF IInv
<1> QED
  BY <1>6, <1>7 DEF HandleError

\* The send fails.
LEMMA SendFailInv ==
  ASSUME IInv, NEW j \in Jobs, SendFail(j)
  PROVE  IInv'
<1>1. worker[j] = "sending" /\ HandleError(j, status) /\ UNCHANGED <<completedCount, delivered>>
  BY DEF SendFail
<1>2. completedCount' \in Nat /\ delivered' \in [Jobs -> Nat] /\ delivered'[j] <= delivered[j] + 1
  BY <1>1, Types DEF IInv, TypeOK
<1> QED
  BY <1>1, <1>2, Types, HandleErrorInv

\* The send succeeds and the job is counted, then a listener throws.
LEMMA CompletedListenerThrowsInv ==
  ASSUME IInv, NEW j \in Jobs, CompletedListenerThrows(j)
  PROVE  IInv'
<1> DEFINE sts == [status EXCEPT ![j] = "completed"]
<1>1. /\ worker[j] = "sending" /\ HandleError(j, sts)
      /\ completedCount' = completedCount + 1 /\ delivered' = [delivered EXCEPT ![j] = @ + 1]
  BY DEF CompletedListenerThrows
<1>2. completedCount' \in Nat
  BY <1>1 DEF IInv, TypeOK
<1>3. /\ delivered' \in [Jobs -> Nat] /\ delivered'[j] <= delivered[j] + 1
      /\ \A i \in Jobs : i # j => delivered'[i] = delivered[i]
  BY <1>1, Types
<1>4. sts \in [Jobs -> Statuses] /\ \A i \in Jobs : i # j => sts[i] = status[i]
  BY Types DEF Statuses
<1> HIDE DEF sts
<1> QED
  BY <1>1, <1>2, <1>3, <1>4, HandleErrorInv

\* The backoff timer fires: the job is queued again, and its slot is not yet free.
LEMMA BackoffDoneInv ==
  ASSUME IInv, NEW j \in Jobs, BackoffDone(j)
  PROVE  IInv'
<1>1. /\ worker[j] = "backoff" /\ queue' = Requeued(j) /\ worker' = [worker EXCEPT ![j] = "idle"]
      /\ exiting' = exiting + 1
      /\ UNCHANGED <<runningWorkers, status, attempts, isProcessing, created, priority,
                     maxRetries, retryCount, promise, completedCount, failedCount, delivered,
                     cleared>>
  BY DEF BackoffDone, jobOptions, outcome
<1>2. "idle" \in Stages
  BY DEF Stages
<1>3. /\ worker' \in [Jobs -> Stages]
      /\ Cardinality(Busy(worker')) = Cardinality(Busy(worker)) - 1
  BY <1>1, <1>2, WorkerMoves
<1>4. /\ queue' \in Queues /\ Placed(queue', worker', priority, created)
      /\ \A i : In(i, queue') <=> In(i, queue) \/ i = j
  BY <1>1, RequeuedQueue
<1>5. Budget(queue', worker', attempts, retryCount, maxRetries, delivered, created)
  <2>1. Budget(queue, worker, attempts, retryCount, maxRetries, delivered, created)
    BY DEF IInv
  <2>2. /\ attempts[j] = retryCount[j] /\ retryCount[j] <= maxRetries[j]
        /\ attempts[j] <= maxRetries[j] + 1 /\ retryCount[j] <= maxRetries[j] + 1
        /\ delivered[j] <= attempts[j]
    BY <1>1, <2>1 DEF Budget
  <2> QED
    BY <1>1, <1>2, <1>4, <2>2, BudgetMoves
<1>6. Kept(queue', worker', status, created, cleared)
  BY <1>1, <1>2, <1>4, KeptMoves
<1>7. TypeOK'
  BY <1>1, <1>3, <1>4 DEF IInv, TypeOK, Queues, Stages
<1>8. Accounting'
  <2>1. runningWorkers = Cardinality(Busy(worker)) + exiting /\ runningWorkers <= maxConcurrency
    BY DEF IInv, Accounting
  <2>2. runningWorkers' = Cardinality(Busy(worker')) + exiting'
    BY <1>1, <1>3, <2>1, Types
  <2> QED
    BY <1>1, <2>1, <2>2 DEF Accounting
<1> QED
  BY <1>1, <1>4, <1>5, <1>6, <1>7, <1>8 DEF IInv

\* Every step of the queue keeps the invariant.
LEMMA NextIInv == IInv /\ [Next]_vars => IInv'
<1> SUFFICES ASSUME IInv, [Next]_vars PROVE IInv'
  OBVIOUS
<1>1. CASE Application
  <2>1. ASSUME NEW p \in Priorities, NEW m \in 0..MaxRetryLimit, Enqueue(p, m) PROVE IInv'
    BY <2>1, EnqueueInv
  <2>2. ASSUME NEW p \in Priorities, NEW m \in 0..MaxRetryLimit, EnqueuedListenerThrows(p, m)
        PROVE  IInv'
    BY <2>2, EnqueuedListenerThrowsInv
  <2>3. CASE Start
    BY <2>3, StartInv
  <2>4. CASE Pause
    BY <2>4, PauseInv
  <2>5. CASE Clear
    BY <2>5, ClearInv
  <2> QED
    BY <1>1, <2>1, <2>2, <2>3, <2>4, <2>5 DEF Application
<1>2. CASE Finally
  BY <1>2, FinallyInv
<1>3. ASSUME NEW j \in Jobs, ProcessJob(j) PROVE IInv'
  <2>1. CASE AcquireDone(j)
    BY <2>1, AcquireDoneInv
  <2>2. CASE SendOk(j)
    BY <2>2, SendOkInv
  <2>3. CASE SendFail(j)
    BY <2>3, SendFailInv
  <2>4. CASE CompletedListenerThrows(j)
    BY <2>4, CompletedListenerThrowsInv
  <2>5. CASE BackoffDone(j)
    BY <2>5, BackoffDoneInv
  <2> QED
    BY <1>3, <2>1, <2>2, <2>3, <2>4, <2>5 DEF ProcessJob
<1>4. CASE UNCHANGED vars
  <2>1. TypeOK'
    BY <1>4 DEF vars, pool, jobOptions, outcome, IInv, TypeOK
  <2> QED
    BY <1>4, <2>1 DEF vars, pool, jobOptions, outcome, IInv, Accounting, Busy
<1> QED
  BY <1>1, <1>2, <1>3, <1>4 DEF Next

----------------------------------------------------------------------------
\* The theorems.

\* The invariant holds in every reachable state.
LEMMA SpecIInv == Spec => []IInv
<1>1. Init => IInv
  BY InitIInv
<1>2. IInv /\ [Next]_vars => IInv'
  BY NextIInv
<1> QED
  BY <1>1, <1>2, PTL DEF Spec

\* The variables keep their types; in particular no retryCount passes
\* maxRetries + 1, however attempts fail.
THEOREM QueueTypeCorrect == Spec => []TypeOK
<1>1. IInv => TypeOK
  BY DEF IInv
<1> QED
  BY <1>1, SpecIInv, PTL

\* The slots in use are the suspended calls of processJob and those whose
\* .finally is due, and there are never more than concurrency.
THEOREM SlotsAccounted == Spec => []WorkerAccounting
<1>1. IInv => WorkerAccounting
  BY DEF IInv, Accounting, WorkerAccounting, Busy, Active
<1> QED
  BY <1>1, SpecIInv, PTL

\* A job is in one queue, once, or in one worker, or in neither.
THEOREM JobsInOnePlace == Spec => []OnePlace
<1>1. IInv => OnePlace
  <2> SUFFICES ASSUME IInv PROVE OnePlace
    OBVIOUS
  <2>1. \A p \in Priorities : DOMAIN queue[p] = 1..Len(queue[p])
    BY Types DEF Queues
  <2>2. \A p \in Priorities : IsInjective(queue[p])
    BY <2>1, QueuesHold DEF IsInjective
  <2>3. \A p \in Priorities : \A j \in Range(queue[p]) :
          priority[j] = p /\ worker[j] = "idle" /\ j <= created
    BY <2>1, QueuesHold DEF Range
  <2> QED
    BY <2>2, <2>3 DEF OnePlace
<1> QED
  BY <1>1, SpecIInv, PTL

\* A job is tried at most maxRetries + 1 times, and sent no more often than tried.
THEOREM RetriesBounded == Spec => []RetryBudget
<1>1. IInv => RetryBudget
  BY DEF IInv, Budget, RetryBudget
<1> QED
  BY <1>1, SpecIInv, PTL

\* A job that was enqueued and not cleared is queued, in a worker, or over.
THEOREM JobsKept == Spec => []NothingLost
<1>1. IInv => NothingLost
  <2> SUFFICES ASSUME IInv, NEW j \in 1..created
               PROVE  \/ j \in Queued \/ j \in Active \/ j \in cleared
                      \/ status[j] \in {"completed", "failed"}
    BY DEF NothingLost
  <2>1. j \in Jobs
    BY Types, BoundsAssumption DEF Jobs
  <2>2. In(j, queue) => j \in Queued
    BY QueuedIn
  <2> QED
    BY <2>1, <2>2 DEF IInv, Kept, Active
<1> QED
  BY <1>1, SpecIInv, PTL

\* Every job that was enqueued and not cleared has exactly one place, or is over.
THEOREM JobsStayPlaced == Spec => []JobsPlaced
BY JobsInOnePlace, JobsKept, PTL DEF JobsPlaced

----------------------------------------------------------------------------
\* Further invariants, each inductive together with the one above and each under
\* a condition: listeners that do not throw, or a single slot.

\* The number of jobs in the queues q: PendingCount, of any queues.
Total(q) == Len(q["HIGH"]) + Len(q["NORMAL"]) + Len(q["LOW"])

\* Arithmetic for the counts of jobs.
LEMMA Sums ==
  ASSUME NEW a \in Nat, NEW b \in Nat, NEW c \in Nat
  PROVE  /\ a + b + c \in Nat
         /\ (a + 1) + b + c = (a + b + c) + 1
         /\ a + (b + 1) + c = (a + b + c) + 1
         /\ a + b + (c + 1) = (a + b + c) + 1
  OBVIOUS

\* The lengths of queues.
LEMMA Lengths ==
  ASSUME NEW q \in Queues
  PROVE  /\ Len(q["HIGH"]) \in Nat /\ Len(q["NORMAL"]) \in Nat /\ Len(q["LOW"]) \in Nat
         /\ Total(q) \in Nat
<1>1. \A p \in Priorities : Len(q[p]) \in Nat
  BY DEF Queues
<1>2. Len(q["HIGH"]) \in Nat /\ Len(q["NORMAL"]) \in Nat /\ Len(q["LOW"]) \in Nat
  BY <1>1 DEF Priorities
<1> QED
  BY <1>2, Sums DEF Total

\* Queues without a job.
LEMMA NoneQueued ==
  ASSUME NEW q, \A p \in Priorities : Len(q[p]) = 0
  PROVE  Total(q) = 0 /\ \A i : ~In(i, q)
<1>1. Len(q["HIGH"]) = 0 /\ Len(q["NORMAL"]) = 0 /\ Len(q["LOW"]) = 0
  BY DEF Priorities
<1>2. \A i : ~In(i, q)
  BY DEF In
<1> QED
  BY <1>1, <1>2 DEF Total

\* The loop of a started queue stops only when the pool is full or the queues are empty.
LEMMA LoopFills ==
  ASSUME NEW q \in Queues, NEW running \in Nat, running <= maxConcurrency, NEW wrk, NEW sts,
         TriggerProcessing(TRUE, q, running, wrk, sts)
  PROVE  runningWorkers' = maxConcurrency \/ \A i : ~In(i, queue')
<1> DEFINE free == maxConcurrency - running
           h == Len(q["HIGH"])
           n == Len(q["NORMAL"])
           l == Len(q["LOW"])
<1>1. free \in Nat /\ h \in Nat /\ n \in Nat /\ l \in Nat
  BY Lengths, ConcurrencyAssumption
<1>2. /\ Taken(q, free, "HIGH") = IF free <= 0 THEN 0 ELSE IF free < h THEN free ELSE h
      /\ Taken(q, free, "NORMAL") =
           IF free - h <= 0 THEN 0 ELSE IF free - h < n THEN free - h ELSE n
      /\ Taken(q, free, "LOW") =
           IF free - (h + n) <= 0 THEN 0 ELSE IF free - (h + n) < l THEN free - (h + n) ELSE l
  <2>1. Ahead(q, "HIGH") = 0 /\ Ahead(q, "NORMAL") = h /\ Ahead(q, "LOW") = h + n
    BY DEF Ahead
  <2> HIDE DEF free, h, n, l
  <2>2. free - 0 = free
    BY <1>1
  <2> QED
    BY <2>1, <2>2 DEF Taken, h, n, l
<1>3. FreeSlots(TRUE, running) = free
  BY DEF FreeSlots
<1>4. /\ queue' = [p \in Priorities |-> SubSeq(q[p], Taken(q, free, p) + 1, Len(q[p]))]
      /\ runningWorkers' = running + Taken(q, free, "HIGH") + Taken(q, free, "NORMAL")
                                   + Taken(q, free, "LOW")
  BY <1>3 DEF TriggerProcessing
<1>5. CASE free >= h + n + l
  <2>1. /\ Taken(q, free, "HIGH") = h /\ Taken(q, free, "NORMAL") = n
        /\ Taken(q, free, "LOW") = l
    <3> HIDE DEF free, h, n, l
    <3> QED
      BY <1>1, <1>2, <1>5
  <2>2. \A p \in Priorities : Taken(q, free, p) = Len(q[p])
    BY <2>1 DEF Priorities
  <2>3. ASSUME NEW p \in Priorities PROVE Len(queue'[p]) = 0
    <3>1. q[p] \in Seq(Jobs) /\ Len(q[p]) \in Nat
      BY DEF Queues
    <3>2. queue'[p] = SubSeq(q[p], Len(q[p]) + 1, Len(q[p]))
      BY <1>4, <2>2
    <3> QED
      BY <3>1, <3>2, ShiftedQueue
  <2> QED
    BY <2>3 DEF In
<1>6. CASE free < h + n + l
  <2>1. Taken(q, free, "HIGH") + Taken(q, free, "NORMAL") + Taken(q, free, "LOW") = free
    <3> HIDE DEF free, h, n, l
    <3> QED
      BY <1>1, <1>2, <1>6
  <2>2. /\ Taken(q, free, "HIGH") \in Int /\ Taken(q, free, "NORMAL") \in Int
        /\ Taken(q, free, "LOW") \in Int
    <3> HIDE DEF free, h, n, l
    <3> QED
      BY <1>1, <1>2
  <2> QED
    BY <1>4, <2>1, <2>2, ConcurrencyAssumption
<1>7. h + n + l \in Nat
  BY <1>1, Sums
<1> HIDE DEF free, h, n, l
<1> QED
  BY <1>1, <1>5, <1>6, <1>7

\* The loop only moves jobs from the queues to the slots.
LEMMA LoopTotal ==
  ASSUME NEW q \in Queues, NEW T, NEW running \in Nat, NEW wrk, NEW sts,
         Looped(q, T, running, wrk, sts)
  PROVE  Total(queue') + runningWorkers' = Total(q) + running
<1>1. /\ Len(queue'["HIGH"]) = Len(q["HIGH"]) - T["HIGH"]
      /\ Len(queue'["NORMAL"]) = Len(q["NORMAL"]) - T["NORMAL"]
      /\ Len(queue'["LOW"]) = Len(q["LOW"]) - T["LOW"]
      /\ T["HIGH"] \in Nat /\ T["NORMAL"] \in Nat /\ T["LOW"] \in Nat
      /\ runningWorkers' = running + T["HIGH"] + T["NORMAL"] + T["LOW"]
  BY DEF Looped, Priorities
<1> DEFINE a == Len(q["HIGH"])
           b == Len(q["NORMAL"])
           c == Len(q["LOW"])
           x == T["HIGH"]
           y == T["NORMAL"]
           z == T["LOW"]
<1>2. a \in Nat /\ b \in Nat /\ c \in Nat /\ x \in Nat /\ y \in Nat /\ z \in Nat
  BY <1>1, Lengths
<1>3. Total(queue') = (a - x) + (b - y) + (c - z) /\ Total(q) = a + b + c
  BY <1>1 DEF Total
<1>4. runningWorkers' = running + x + y + z
  BY <1>1
<1> HIDE DEF a, b, c, x, y, z
<1> QED
  BY <1>2, <1>3, <1>4

\* A job appended to or put in front of a queue is one more.
LEMMA OneMore ==
  ASSUME NEW q \in Queues, NEW q2 \in Queues, NEW p \in Priorities,
         Len(q2[p]) = Len(q[p]) + 1, \A x \in Priorities : x # p => q2[x] = q[x]
  PROVE  Total(q2) = Total(q) + 1
<1> DEFINE a == Len(q["HIGH"])
           b == Len(q["NORMAL"])
           c == Len(q["LOW"])
<1>1. a \in Nat /\ b \in Nat /\ c \in Nat
  BY Lengths
<1>2. p = "HIGH" \/ p = "NORMAL" \/ p = "LOW"
  BY DEF Priorities
<1>3. \A x \in {"HIGH", "NORMAL", "LOW"} : x # p => Len(q2[x]) = Len(q[x])
  BY DEF Priorities
<1>4. Total(q) = a + b + c
  BY DEF Total
<1>5. CASE p = "HIGH"
  <2>1. Len(q2["HIGH"]) = a + 1 /\ Len(q2["NORMAL"]) = b /\ Len(q2["LOW"]) = c
    BY <1>3, <1>5
  <2>2. Total(q2) = (a + 1) + b + c
    BY <2>1 DEF Total
  <2> HIDE DEF a, b, c
  <2> QED
    BY <1>1, <1>4, <2>2, Sums
<1>6. CASE p = "NORMAL"
  <2>1. Len(q2["HIGH"]) = a /\ Len(q2["NORMAL"]) = b + 1 /\ Len(q2["LOW"]) = c
    BY <1>3, <1>6
  <2>2. Total(q2) = a + (b + 1) + c
    BY <2>1 DEF Total
  <2> HIDE DEF a, b, c
  <2> QED
    BY <1>1, <1>4, <2>2, Sums
<1>7. CASE p = "LOW"
  <2>1. Len(q2["HIGH"]) = a /\ Len(q2["NORMAL"]) = b /\ Len(q2["LOW"]) = c + 1
    BY <1>3, <1>7
  <2>2. Total(q2) = a + b + (c + 1)
    BY <2>1 DEF Total
  <2> HIDE DEF a, b, c
  <2> QED
    BY <1>1, <1>4, <2>2, Sums
<1> QED
  BY <1>2, <1>5, <1>6, <1>7

----------------------------------------------------------------------------
\* No slot is idle while a job waits.

\* WorkConserving, with the queues as positions.
Fed == isProcessing /\ exiting = 0 /\ (\E i : In(i, queue)) => runningWorkers = maxConcurrency

\* Every step keeps the pool fed.
LEMMA NextFed ==
  ASSUME "job:enqueued" \notin FaultyEvents, IInv, Fed, [Next]_vars
  PROVE  Fed'
<1>1. ASSUME NEW q \in Queues, NEW r \in Nat, r <= maxConcurrency, NEW on \in BOOLEAN,
             NEW wrk, NEW sts, TriggerProcessing(on, q, r, wrk, sts), isProcessing' = on
      PROVE  Fed'
  <2>1. CASE on = FALSE
    BY <1>1, <2>1 DEF Fed
  <2>2. CASE on = TRUE
    <3>1. runningWorkers' = maxConcurrency \/ \A i : ~In(i, queue')
      BY <1>1, <2>2, LoopFills
    <3> QED
      BY <3>1 DEF Fed
  <2> QED
    BY <2>1, <2>2
<1>2. isProcessing \in BOOLEAN
  BY DEF IInv, TypeOK
<1>3. ASSUME NEW p \in Priorities, NEW m \in 0..MaxRetryLimit, Enqueue(p, m) PROVE Fed'
  <2>1. /\ created < MaxJobs /\ isProcessing' = isProcessing
        /\ TriggerProcessing(isProcessing, Pushed(p), runningWorkers, worker, Pending)
    BY <1>3 DEF Enqueue, PushJob
  <2>2. Pushed(p) \in Queues
    BY <2>1, PushedQueue
  <2> QED
    BY <1>1, <1>2, <2>1, <2>2, Types
<1>4. CASE Start
  <2>1. /\ isProcessing' = TRUE
        /\ TriggerProcessing(TRUE, queue, runningWorkers, worker, status)
    BY <1>4 DEF Start
  <2> QED
    BY <1>1, <2>1, Types
<1>5. CASE Pause
  BY <1>5 DEF Pause, Fed
<1>6. CASE Clear
  <2>1. \A p \in Priorities : Len(queue'[p]) = 0
    BY <1>6 DEF Clear
  <2> QED
    BY <2>1 DEF Fed, In
<1>7. CASE Finally
  <2> DEFINE r == runningWorkers - 1
  <2>1. /\ exiting > 0 /\ isProcessing' = isProcessing
        /\ TriggerProcessing(isProcessing, queue, r, worker, status)
    BY <1>7 DEF Finally
  <2>2. r \in Nat /\ r <= maxConcurrency
    <3>1. runningWorkers = Cardinality(Busy(worker)) + exiting
      BY DEF IInv, Accounting
    <3> QED
      BY <2>1, <3>1, Types, ConcurrencyAssumption
  <2> HIDE DEF r
  <2> QED
    BY <1>1, <1>2, <2>1, <2>2, Types
<1>8. ASSUME NEW j \in Jobs, ProcessJob(j) PROVE Fed'
  <2>1. \/ UNCHANGED <<queue, runningWorkers, isProcessing, exiting>>
        \/ exiting' = exiting + 1
    BY <1>8 DEF ProcessJob, AcquireDone, SendOk, SendFail, CompletedListenerThrows, BackoffDone,
                HandleError, SleepBeforeRetry, GiveUp
  <2>2. exiting \in Nat
    BY Types
  <2>3. CASE exiting' = exiting + 1
    BY <2>2, <2>3 DEF Fed
  <2>4. CASE UNCHANGED <<queue, runningWorkers, isProcessing, exiting>>
    BY <2>4 DEF Fed
  <2> QED
    BY <2>1, <2>3, <2>4
<1>9. CASE UNCHANGED vars
  BY <1>9 DEF vars, pool, Fed
<1>10. ASSUME NEW p \in Priorities, NEW m \in 0..MaxRetryLimit PROVE ~EnqueuedListenerThrows(p, m)
  BY DEF EnqueuedListenerThrows
<1> QED
  BY <1>3, <1>4, <1>5, <1>6, <1>7, <1>8, <1>9, <1>10 DEF Next, Application

\* If no listener of "job:enqueued" throws, a started queue leaves no slot idle
\* while a job waits.
THEOREM NoIdleSlot ==
  ASSUME "job:enqueued" \notin FaultyEvents
  PROVE  Spec => []WorkConserving
<1>1. Init => Fed
  <2> SUFFICES ASSUME Init PROVE Fed
    OBVIOUS
  <2>1. \A p \in Priorities : Len(queue[p]) = 0
    BY DEF Init
  <2> QED
    BY <2>1 DEF Fed, In
<1>2. IInv /\ Fed /\ [Next]_vars => Fed'
  BY NextFed
<1>3. IInv /\ Fed => WorkConserving
  <2> SUFFICES ASSUME IInv, Fed PROVE WorkConserving
    OBVIOUS
  <2>1. Queued # {} => \E i : In(i, queue)
    BY QueuedIn
  <2> QED
    BY <2>1 DEF Fed, WorkConserving
<1> QED
  BY <1>1, <1>2, <1>3, SpecIInv, PTL DEF Spec

----------------------------------------------------------------------------
\* The statistics account for every job.

\* The queued jobs are as many as the queues are long.
LEMMA QueueCount ==
  ASSUME IInv
  PROVE  IsFiniteSet(Queued) /\ Cardinality(Queued) = Total(queue)
<1> DEFINE H(p) == {queue[p][k] : k \in 1..Len(queue[p])}
<1>1. ASSUME NEW p \in Priorities
      PROVE  /\ IsFiniteSet(H(p)) /\ Cardinality(H(p)) = Len(queue[p])
             /\ \A j \in H(p) : priority[j] = p
  <2>1. queue[p] \in Seq(Jobs) /\ Len(queue[p]) \in Nat /\ Len(queue[p]) <= Len(queue[p])
    BY Types DEF Queues
  <2>2. IsFiniteSet(H(p)) /\ Cardinality(H(p)) = Len(queue[p])
    BY <2>1, QueuesHold, HeadCount
  <2>3. \A j \in H(p) : priority[j] = p
    BY QueuesHold
  <2> QED
    BY <2>2, <2>3
<1>2. "HIGH" \in Priorities /\ "NORMAL" \in Priorities /\ "LOW" \in Priorities
  BY DEF Priorities
<1>3. \A i : In(i, queue) <=> \E p \in Priorities : i \in H(p)
  BY DEF In
<1>4. Queued = (H("HIGH") \cup H("NORMAL")) \cup H("LOW")
  <2>1. \A i : i \in Queued <=> \E p \in Priorities : i \in H(p)
    BY <1>3, QueuedIn
  <2>2. \A i : (\E p \in Priorities : i \in H(p)) <=> i \in H("HIGH") \/ i \in H("NORMAL") \/ i \in H("LOW")
    BY DEF Priorities
  <2> HIDE DEF H
  <2> QED
    BY <2>1, <2>2
<1>5. /\ \A j \in H("HIGH") : j \notin H("NORMAL")
      /\ \A j \in H("HIGH") \cup H("NORMAL") : j \notin H("LOW")
  BY <1>1, <1>2
<1>6. /\ IsFiniteSet(H("HIGH")) /\ IsFiniteSet(H("NORMAL")) /\ IsFiniteSet(H("LOW"))
      /\ Cardinality(H("HIGH")) = Len(queue["HIGH"])
      /\ Cardinality(H("NORMAL")) = Len(queue["NORMAL"])
      /\ Cardinality(H("LOW")) = Len(queue["LOW"])
  BY <1>1, <1>2
<1> HIDE DEF H
<1> DEFINE All == (H("HIGH") \cup H("NORMAL")) \cup H("LOW")
<1>7. /\ IsFiniteSet(All)
      /\ Cardinality(All)
           = Cardinality(H("HIGH")) + Cardinality(H("NORMAL")) + Cardinality(H("LOW"))
  <2>1. IsFiniteSet(H("HIGH")) /\ IsFiniteSet(H("NORMAL")) /\ IsFiniteSet(H("LOW"))
    BY <1>6
  <2> QED
    BY <1>5, <2>1, DisjointCount3
<1>8. Queued = All
  BY <1>4
<1> HIDE DEF All
<1>9. /\ IsFiniteSet(Queued)
      /\ Cardinality(Queued) = Len(queue["HIGH"]) + Len(queue["NORMAL"]) + Len(queue["LOW"])
  BY <1>6, <1>7, <1>8
<1> QED
  BY <1>9 DEF Total

\* The jobs a method or a callback adds to the queues.
LEMMA AddedOne ==
  ASSUME IInv
  PROVE  /\ \A p \in Priorities : created < MaxJobs => Total(Pushed(p)) = Total(queue) + 1
         /\ \A j \in Jobs : worker[j] = "backoff" => Total(Requeued(j)) = Total(queue) + 1
<1>1. queue \in Queues /\ \A p \in Priorities : queue[p] \in Seq(Jobs)
  BY Types DEF Queues
<1>2. ASSUME NEW p \in Priorities, created < MaxJobs
      PROVE  Total(Pushed(p)) = Total(queue) + 1
  <2>1. created + 1 \in Jobs /\ Pushed(p) \in Queues
    BY <1>2, PushedQueue
  <2>2. Len(Pushed(p)[p]) = Len(queue[p]) + 1
    BY <1>1, <2>1, Appended DEF Pushed, Queues
  <2>3. \A x \in Priorities : x # p => Pushed(p)[x] = queue[x]
    BY <1>1 DEF Pushed, Queues
  <2> QED
    BY <1>1, <2>1, <2>2, <2>3, OneMore
<1>3. ASSUME NEW j \in Jobs, worker[j] = "backoff"
      PROVE  Total(Requeued(j)) = Total(queue) + 1
  <2> DEFINE p == priority[j]
  <2>1. p \in Priorities /\ Requeued(j) \in Queues
    BY <1>3, Types, RequeuedQueue
  <2>2. Len(Requeued(j)[p]) = Len(queue[p]) + 1
    BY <1>1, <2>1, Prepended DEF Requeued, Queues
  <2>3. \A x \in Priorities : x # p => Requeued(j)[x] = queue[x]
    BY <1>1 DEF Requeued, Queues
  <2> HIDE DEF p
  <2> QED
    BY <1>1, <2>1, <2>2, <2>3, OneMore
<1> QED
  BY <1>2, <1>3

\* StatsConserve, and that a job clear() dropped never comes back.
Counted ==
  /\ Total(queue) + runningWorkers + completedCount + failedCount
       = created - Cardinality(cleared) + exiting
  /\ \A j \in cleared : worker[j] = "idle" /\ ~In(j, queue) /\ j <= created

\* The numbers Counted is about.
LEMMA CountedTypes ==
  ASSUME IInv
  PROVE  /\ Total(queue) \in Nat /\ runningWorkers \in Nat /\ completedCount \in Nat
         /\ failedCount \in Nat /\ created \in Nat /\ exiting \in Nat
         /\ cleared \subseteq Jobs /\ IsFiniteSet(cleared) /\ Cardinality(cleared) \in Nat
<1>1. cleared \subseteq Jobs
  BY DEF IInv, TypeOK
<1>2. IsFiniteSet(cleared) /\ Cardinality(cleared) \in Nat
  BY <1>1, JobsFinite, FS_Subset, FS_CardinalityType
<1> QED
  BY <1>1, <1>2, Types, Lengths DEF IInv, TypeOK

\* The loop moves jobs from the queues to the slots, none of them a cleared one.
LEMMA LoopCounted ==
  ASSUME IInv, NEW on \in BOOLEAN, NEW q \in Queues, NEW r \in Nat, r <= maxConcurrency,
         NEW sts, NEW prio, NEW n, Placed(q, worker, prio, n),
         \A j \in cleared : worker[j] = "idle" /\ ~In(j, q),
         TriggerProcessing(on, q, r, worker, sts)
  PROVE  /\ Total(queue') + runningWorkers' = Total(q) + r
         /\ Total(queue') \in Nat /\ runningWorkers' \in Nat
         /\ \A j \in cleared : worker'[j] = "idle" /\ ~In(j, queue')
<1>1. PICK T : Looped(q, T, r, worker, sts)
  BY LoopIsLooped
<1>2. Total(queue') + runningWorkers' = Total(q) + r
  BY <1>1, LoopTotal
<1>3. queue' \in Queues /\ runningWorkers' \in Nat
  BY <1>1 DEF Looped
<1>4. ASSUME NEW j \in cleared PROVE worker'[j] = "idle" /\ ~In(j, queue')
  <2>1. j \in Jobs /\ ~In(j, q) /\ worker[j] = "idle"
    BY CountedTypes
  <2>2. j \notin Heads(q, T)
    BY <1>1, <2>1, HeadPlace
  <2>3. worker'[j] = worker[j]
    BY <1>1, <2>1, <2>2 DEF Looped
  <2> QED
    BY <1>1, <2>1, <2>3, LoopQueued
<1> QED
  BY <1>2, <1>3, <1>4, Lengths

\* Every step keeps the counts.
LEMMA NextCounted ==
  ASSUME "job:completed" \notin FaultyEvents, IInv, Counted, [Next]_vars
  PROVE  Counted'
<1> DEFINE c == Cardinality(cleared)
<1>1. /\ Total(queue) \in Nat /\ runningWorkers \in Nat /\ completedCount \in Nat
      /\ failedCount \in Nat /\ created \in Nat /\ exiting \in Nat /\ c \in Nat
      /\ Total(queue) + runningWorkers + completedCount + failedCount = created - c + exiting
      /\ \A j \in cleared : j \in Jobs /\ worker[j] = "idle" /\ ~In(j, queue) /\ j <= created
  BY CountedTypes DEF Counted
<1>2. isProcessing \in BOOLEAN /\ Placed(queue, worker, priority, created)
  BY DEF IInv, TypeOK
<1>3. ASSUME cleared' = cleared PROVE Cardinality(cleared') = c
  BY <1>3
<1> HIDE DEF c
<1>4. ASSUME NEW p \in Priorities, NEW m \in 0..MaxRetryLimit, PushJob(p, m)
      PROVE  /\ created' = created + 1 /\ Pushed(p) \in Queues
             /\ Total(Pushed(p)) = Total(queue) + 1
             /\ Placed(Pushed(p), worker, priority', created')
             /\ \A j \in cleared : worker[j] = "idle" /\ ~In(j, Pushed(p)) /\ j <= created'
  <2>1. created < MaxJobs /\ created' = created + 1
    BY <1>4 DEF PushJob
  <2>2. /\ Pushed(p) \in Queues /\ Placed(Pushed(p), worker, priority', created')
        /\ \A i : In(i, Pushed(p)) <=> In(i, queue) \/ i = created + 1
    BY <1>4, <2>1, PushedState, PushedQueue
  <2>3. \A j \in Jobs : j <= created => j # created + 1 /\ j <= created + 1
    BY <1>1 DEF Jobs
  <2> QED
    BY <1>1, <2>1, <2>2, <2>3, AddedOne
<1>5. ASSUME NEW p \in Priorities, NEW m \in 0..MaxRetryLimit, Enqueue(p, m) PROVE Counted'
  <2>1. /\ PushJob(p, m)
        /\ TriggerProcessing(isProcessing, Pushed(p), runningWorkers, worker, Pending)
        /\ UNCHANGED <<completedCount, failedCount, exiting, cleared>>
    BY <1>5 DEF Enqueue, outcome
  <2>2. /\ Total(queue') + runningWorkers' = Total(Pushed(p)) + runningWorkers
        /\ Total(queue') \in Nat /\ runningWorkers' \in Nat
        /\ \A j \in cleared : worker'[j] = "idle" /\ ~In(j, queue')
    BY <1>2, <1>4, <2>1, Types, LoopCounted
  <2>3. created' = created + 1 /\ Total(Pushed(p)) = Total(queue) + 1
    BY <1>4, <2>1
  <2>4. Total(queue') + runningWorkers' = Total(queue) + runningWorkers + 1
    BY <1>1, <2>2, <2>3
  <2>5. Total(queue') + runningWorkers' + completedCount + failedCount = created' - c + exiting
    BY <1>1, <2>2, <2>3, <2>4
  <2> QED
    BY <1>3, <1>4, <2>1, <2>2, <2>5 DEF Counted
<1>6. ASSUME NEW p \in Priorities, NEW m \in 0..MaxRetryLimit, EnqueuedListenerThrows(p, m)
      PROVE  Counted'
  <2>1. /\ PushJob(p, m) /\ queue' = Pushed(p)
        /\ UNCHANGED <<worker, runningWorkers, completedCount, failedCount, exiting, cleared>>
    BY <1>6 DEF EnqueuedListenerThrows
  <2>2. created' = created + 1 /\ Total(queue') = Total(queue) + 1
    BY <1>4, <2>1
  <2>3. Total(queue') + runningWorkers + completedCount + failedCount = created' - c + exiting
    BY <1>1, <2>2
  <2> QED
    BY <1>3, <1>4, <2>1, <2>3 DEF Counted
<1>7. CASE Start
  <2>1. /\ TriggerProcessing(TRUE, queue, runningWorkers, worker, status)
        /\ UNCHANGED <<created, completedCount, failedCount, exiting, cleared>>
    BY <1>7 DEF Start, jobOptions, outcome
  <2>2. /\ Total(queue') + runningWorkers' = Total(queue) + runningWorkers
        /\ Total(queue') \in Nat /\ runningWorkers' \in Nat
        /\ \A j \in cleared : worker'[j] = "idle" /\ ~In(j, queue')
    BY <1>1, <1>2, <2>1, Types, LoopCounted
  <2>3. Total(queue') + runningWorkers' + completedCount + failedCount = created - c + exiting
    BY <1>1, <2>2
  <2> QED
    BY <1>1, <1>3, <2>1, <2>2, <2>3 DEF Counted
<1>8. CASE Finally
  <2> DEFINE r == runningWorkers - 1
  <2>1. /\ exiting > 0 /\ exiting' = exiting - 1
        /\ TriggerProcessing(isProcessing, queue, r, worker, status)
        /\ UNCHANGED <<created, completedCount, failedCount, cleared>>
    BY <1>8 DEF Finally, jobOptions, outcome
  <2>2. r \in Nat /\ r <= maxConcurrency
    <3>1. runningWorkers = Cardinality(Busy(worker)) + exiting
      BY DEF IInv, Accounting
    <3> QED
      BY <2>1, <3>1, Types, ConcurrencyAssumption
  <2>3. r = runningWorkers - 1
    OBVIOUS
  <2> HIDE DEF r
  <2>4. /\ Total(queue') + runningWorkers' = Total(queue) + r
        /\ Total(queue') \in Nat /\ runningWorkers' \in Nat
        /\ \A j \in cleared : worker'[j] = "idle" /\ ~In(j, queue')
    BY <1>1, <1>2, <2>1, <2>2, Types, LoopCounted
  <2>5. Total(queue') + runningWorkers' + completedCount + failedCount = created - c + exiting'
    BY <1>1, <2>1, <2>2, <2>3, <2>4
  <2> QED
    BY <1>1, <1>3, <2>1, <2>4, <2>5 DEF Counted
<1>9. CASE Pause \/ UNCHANGED vars
  BY <1>9 DEF Pause, vars, pool, jobOptions, outcome, Counted, Total, In
<1>10. CASE Clear
  <2>1. /\ queue' = [p \in Priorities |-> <<>>] /\ cleared' = cleared \cup Queued
        /\ UNCHANGED <<worker, runningWorkers, created, completedCount, failedCount, exiting>>
    BY <1>10 DEF Clear, jobOptions, outcome
  <2>2. IsFiniteSet(Queued) /\ Cardinality(Queued) = Total(queue) /\ IsFiniteSet(cleared)
    BY QueueCount, CountedTypes
  <2>3. \A j \in cleared : j \notin Queued
    BY <1>1, QueuedIn
  <2>4. Cardinality(cleared') = c + Total(queue)
    BY <2>1, <2>2, <2>3, DisjointCount DEF c
  <2>5. \A p \in Priorities : Len(queue'[p]) = 0
    BY <2>1
  <2>6. Total(queue') = 0 /\ \A i : ~In(i, queue')
    BY <2>5, NoneQueued
  <2>7. \A j \in Queued : worker[j] = "idle" /\ j <= created
    BY <1>2, QueuedIn, QueuedIsIdle
  <2>8. Total(queue') + runningWorkers + completedCount + failedCount
          = created - Cardinality(cleared') + exiting
    BY <1>1, <2>4, <2>6
  <2> QED
    BY <1>1, <2>1, <2>6, <2>7, <2>8 DEF Counted
<1>11. ASSUME NEW j \in Jobs, ProcessJob(j) PROVE Counted'
  <2>1. ASSUME worker[j] # "idle", NEW s, worker' = [worker EXCEPT ![j] = s],
               \A i : In(i, queue') => In(i, queue) \/ i = j, UNCHANGED <<created, cleared>>
        PROVE  \A i \in cleared' : worker'[i] = "idle" /\ ~In(i, queue') /\ i <= created'
    <3>1. \A i \in cleared : i # j
      BY <1>1, <2>1
    <3> QED
      BY <1>1, <2>1, <3>1, Types
  <2>2. CASE AcquireDone(j)
    <3>1. /\ worker[j] = "acquiring" /\ worker' = [worker EXCEPT ![j] = "sending"]
          /\ UNCHANGED <<queue, runningWorkers, created, completedCount, failedCount, exiting,
                         cleared>>
      BY <2>2 DEF AcquireDone, jobOptions, outcome
    <3>2. \A i \in cleared' : worker'[i] = "idle" /\ ~In(i, queue') /\ i <= created'
      BY <2>1, <3>1
    <3> QED
      BY <1>1, <3>1, <3>2, <1>3 DEF Counted
  <2>3. CASE SendOk(j)
    <3>1. /\ worker[j] = "sending" /\ worker' = [worker EXCEPT ![j] = "idle"]
          /\ completedCount' = completedCount + 1 /\ exiting' = exiting + 1
          /\ UNCHANGED <<queue, runningWorkers, created, failedCount, cleared>>
      BY <2>3 DEF SendOk, jobOptions
    <3>2. \A i \in cleared' : worker'[i] = "idle" /\ ~In(i, queue') /\ i <= created'
      BY <2>1, <3>1
    <3>3. Total(queue) + runningWorkers + completedCount' + failedCount = created - c + exiting'
      BY <1>1, <3>1
    <3> QED
      BY <1>3, <3>1, <3>2, <3>3 DEF Counted
  <2>4. CASE SendFail(j)
    <3>1. /\ worker[j] = "sending"
          /\ UNCHANGED <<queue, runningWorkers, created, completedCount, cleared>>
          /\ SleepBeforeRetry(j, status) \/ GiveUp(j, status)
      BY <2>4 DEF SendFail, HandleError, jobOptions
    <3>2. CASE SleepBeforeRetry(j, status)
      <4>1. worker' = [worker EXCEPT ![j] = "backoff"] /\ UNCHANGED <<failedCount, exiting>>
        BY <3>2 DEF SleepBeforeRetry
      <4>2. \A i \in cleared' : worker'[i] = "idle" /\ ~In(i, queue') /\ i <= created'
        BY <2>1, <3>1, <4>1
      <4> QED
        BY <1>1, <1>3, <3>1, <4>1, <4>2 DEF Counted
    <3>3. CASE GiveUp(j, status)
      <4>1. /\ worker' = [worker EXCEPT ![j] = "idle"]
            /\ failedCount' = failedCount + 1 /\ exiting' = exiting + 1
        BY <3>3 DEF GiveUp
      <4>2. \A i \in cleared' : worker'[i] = "idle" /\ ~In(i, queue') /\ i <= created'
        BY <2>1, <3>1, <4>1
      <4>3. Total(queue) + runningWorkers + completedCount + failedCount'
              = created - c + exiting'
        BY <1>1, <4>1
      <4> QED
        BY <1>3, <3>1, <4>1, <4>2, <4>3 DEF Counted
    <3> QED
      BY <3>1, <3>2, <3>3
  <2>5. CASE BackoffDone(j)
    <3>1. /\ worker[j] = "backoff" /\ worker' = [worker EXCEPT ![j] = "idle"]
          /\ queue' = Requeued(j) /\ exiting' = exiting + 1
          /\ UNCHANGED <<runningWorkers, created, completedCount, failedCount, cleared>>
      BY <2>5 DEF BackoffDone, jobOptions, outcome
    <3>2. \A i : In(i, queue') <=> In(i, queue) \/ i = j
      BY <3>1, RequeuedQueue
    <3>3. \A i \in cleared' : worker'[i] = "idle" /\ ~In(i, queue') /\ i <= created'
      <4>1. ASSUME NEW i \in cleared PROVE worker'[i] = "idle" /\ ~In(i, queue') /\ i <= created'
        BY <1>1, <3>1, <3>2, Types
      <4> QED
        BY <3>1, <4>1
    <3>4. Total(queue') = Total(queue) + 1
      BY <3>1, AddedOne
    <3>5. Total(queue') + runningWorkers + completedCount + failedCount
            = created - c + exiting'
      BY <1>1, <3>1, <3>4
    <3> QED
      BY <1>3, <3>1, <3>3, <3>5 DEF Counted
  <2>6. ~CompletedListenerThrows(j)
    BY DEF CompletedListenerThrows
  <2> QED
    BY <1>11, <2>2, <2>3, <2>4, <2>5, <2>6 DEF ProcessJob
<1> QED
  BY <1>5, <1>6, <1>7, <1>8, <1>9, <1>10, <1>11 DEF Next, Application

\* If no listener of "job:completed" throws, getStats accounts for every job that
\* was not cleared: once, or twice while its .finally is due.
THEOREM StatsAddUp ==
  ASSUME "job:completed" \notin FaultyEvents
  PROVE  Spec => []StatsConserve
<1>1. Init => Counted
  <2> SUFFICES ASSUME Init PROVE Counted
    OBVIOUS
  <2>1. \A p \in Priorities : Len(queue[p]) = 0
    BY DEF Init
  <2>2. Total(queue) = 0
    BY <2>1, NoneQueued
  <2>3. Cardinality({}) = 0
    BY FS_EmptySet
  <2> QED
    BY <2>2, <2>3 DEF Counted, Init
<1>2. IInv /\ Counted /\ [Next]_vars => Counted'
  BY NextCounted
<1>3. Counted => StatsConserve
  BY DEF Counted, StatsConserve, Total, PendingCount
<1> QED
  BY <1>1, <1>2, <1>3, SpecIInv, PTL DEF Spec

----------------------------------------------------------------------------
\* The promise tells what happened.

\* OutcomeTruthful, and that the promise of a job that is not over is open.
Truth(q, wrk, att, mr, dl, pr, n) ==
  \A j \in Jobs :
    /\ dl[j] = IF pr[j] = "resolved" THEN 1 ELSE 0
    /\ pr[j] = "rejected" => att[j] = mr[j] + 1
    /\ In(j, q) \/ wrk[j] # "idle" \/ j > n => pr[j] = "open"

Truthful == Truth(queue, worker, attempts, maxRetries, delivered, promise, created)

\* The loop starts attempts of jobs whose promises are open.
LEMMA LoopTruth ==
  ASSUME NEW on \in BOOLEAN, NEW q \in Queues, NEW r \in Nat, r <= maxConcurrency,
         NEW wrk, NEW sts, NEW prio, NEW n, Placed(q, wrk, prio, n),
         NEW mr, NEW dl, NEW pr, Truth(q, wrk, attempts, mr, dl, pr, n),
         TriggerProcessing(on, q, r, wrk, sts)
  PROVE  Truth(queue', worker', attempts', mr, dl, pr, n)
<1>1. PICK T : Looped(q, T, r, wrk, sts)
  BY LoopIsLooped
<1>2. ASSUME NEW j \in Jobs
      PROVE  /\ dl[j] = IF pr[j] = "resolved" THEN 1 ELSE 0
             /\ pr[j] = "rejected" => attempts'[j] = mr[j] + 1
             /\ In(j, queue') \/ worker'[j] # "idle" \/ j > n => pr[j] = "open"
  <2>1. /\ dl[j] = IF pr[j] = "resolved" THEN 1 ELSE 0
        /\ pr[j] = "rejected" => attempts[j] = mr[j] + 1
        /\ In(j, q) \/ wrk[j] # "idle" \/ j > n => pr[j] = "open"
    BY DEF Truth
  <2>2. In(j, queue') => In(j, q)
    BY <1>1, LoopQueued
  <2>3. CASE j \in Heads(q, T)
    <3>1. pr[j] = "open"
      BY <1>1, <2>1, <2>3, HeadPlace
    <3> QED
      BY <2>1, <3>1
  <2>4. CASE j \notin Heads(q, T)
    <3>1. worker'[j] = wrk[j] /\ attempts'[j] = attempts[j]
      BY <1>1, <2>4 DEF Looped
    <3> QED
      BY <2>1, <2>2, <3>1
  <2> QED
    BY <2>3, <2>4
<1> QED
  BY <1>2 DEF Truth

\* A step of processJob(j) that settles no promise but j's.
LEMMA TruthMoves ==
  ASSUME IInv, Truthful, NEW j \in Jobs, worker[j] # "idle", NEW s \in Stages,
         NEW q2, NEW dl2, NEW pr2,
         \A i \in Jobs : i # j => /\ dl2[i] = delivered[i] /\ pr2[i] = promise[i]
                                  /\ In(i, q2) => In(i, queue),
         dl2[j] = IF pr2[j] = "resolved" THEN 1 ELSE 0,
         pr2[j] = "rejected" => attempts[j] = maxRetries[j] + 1,
         In(j, q2) \/ s # "idle" => pr2[j] = "open"
  PROVE  Truth(q2, [worker EXCEPT ![j] = s], attempts, maxRetries, dl2, pr2, created)
<1> DEFINE wrk2 == [worker EXCEPT ![j] = s]
<1>1. wrk2[j] = s /\ \A i \in Jobs : i # j => wrk2[i] = worker[i]
  BY Types
<1>2. ~(j > created)
  BY DEF IInv, Budget
<1> HIDE DEF wrk2
<1>3. \A i \in Jobs : i # j =>
        /\ dl2[i] = IF pr2[i] = "resolved" THEN 1 ELSE 0
        /\ pr2[i] = "rejected" => attempts[i] = maxRetries[i] + 1
        /\ In(i, q2) \/ wrk2[i] # "idle" \/ i > created => pr2[i] = "open"
  BY <1>1 DEF Truthful, Truth
<1>4. Truth(q2, wrk2, attempts, maxRetries, dl2, pr2, created)
  BY <1>1, <1>2, <1>3 DEF Truth
<1> QED
  BY <1>4 DEF wrk2

\* Every step keeps the promises true.
LEMMA NextTruthful ==
  ASSUME FaultyEvents = {}, IInv, Truthful, [Next]_vars
  PROVE  Truthful'
<1>1. /\ isProcessing \in BOOLEAN /\ Placed(queue, worker, priority, created)
      /\ promise \in [Jobs -> {"open", "resolved", "rejected"}]
  BY DEF IInv, TypeOK
<1>2. ASSUME NEW p \in Priorities, NEW m \in 0..MaxRetryLimit, Enqueue(p, m) PROVE Truthful'
  <2>1. /\ PushJob(p, m) /\ created < MaxJobs /\ created' = created + 1
        /\ TriggerProcessing(isProcessing, Pushed(p), runningWorkers, worker, Pending)
        /\ UNCHANGED <<delivered, promise>>
    BY <1>2 DEF Enqueue, PushJob, outcome
  <2>2. /\ Pushed(p) \in Queues /\ Placed(Pushed(p), worker, priority', created')
        /\ \A i : In(i, Pushed(p)) <=> In(i, queue) \/ i = created + 1
    BY <2>1, PushedState, PushedQueue
  <2>3. ASSUME NEW j \in Jobs
        PROVE  /\ delivered[j] = IF promise[j] = "resolved" THEN 1 ELSE 0
               /\ promise[j] = "rejected" => attempts[j] = maxRetries'[j] + 1
               /\ In(j, Pushed(p)) \/ worker[j] # "idle" \/ j > created' => promise[j] = "open"
    <3>1. /\ delivered[j] = IF promise[j] = "resolved" THEN 1 ELSE 0
          /\ promise[j] = "rejected" => attempts[j] = maxRetries[j] + 1
          /\ In(j, queue) \/ worker[j] # "idle" \/ j > created => promise[j] = "open"
      BY DEF Truthful, Truth
    <3>2. j > created' => j > created
      BY <2>1, Types DEF Jobs
    <3>3. CASE j = created + 1
      <4>1. j > created
        BY <3>3, Types
      <4> QED
        BY <3>1, <4>1
    <3>4. CASE j # created + 1
      <4>1. maxRetries'[j] = maxRetries[j]
        BY <2>1, <3>4, Types DEF PushJob
      <4> QED
        BY <2>2, <3>1, <3>2, <3>4, <4>1
    <3> QED
      BY <3>3, <3>4
  <2>4. Truth(Pushed(p), worker, attempts, maxRetries', delivered, promise, created')
    BY <2>3 DEF Truth
  <2>5. Truth(queue', worker', attempts', maxRetries', delivered, promise, created')
    BY <1>1, <2>1, <2>2, <2>4, Types, LoopTruth
  <2> QED
    BY <2>1, <2>5 DEF Truthful
<1>3. CASE Start
  <2>1. /\ TriggerProcessing(TRUE, queue, runningWorkers, worker, status)
        /\ UNCHANGED <<created, maxRetries, delivered, promise>>
    BY <1>3 DEF Start, jobOptions, outcome
  <2>2. Truth(queue', worker', attempts', maxRetries, delivered, promise, created)
    BY <1>1, <2>1, Types, LoopTruth DEF Truthful
  <2> QED
    BY <2>1, <2>2 DEF Truthful
<1>4. CASE Finally
  <2> DEFINE r == runningWorkers - 1
  <2>1. /\ exiting > 0 /\ TriggerProcessing(isProcessing, queue, r, worker, status)
        /\ UNCHANGED <<created, maxRetries, delivered, promise>>
    BY <1>4 DEF Finally, jobOptions, outcome
  <2>2. r \in Nat /\ r <= maxConcurrency
    <3>1. runningWorkers = Cardinality(Busy(worker)) + exiting
      BY DEF IInv, Accounting
    <3> QED
      BY <2>1, <3>1, Types, ConcurrencyAssumption
  <2> HIDE DEF r
  <2>3. Truth(queue', worker', attempts', maxRetries, delivered, promise, created)
    BY <1>1, <2>1, <2>2, Types, LoopTruth DEF Truthful
  <2> QED
    BY <2>1, <2>3 DEF Truthful
<1>5. CASE Pause \/ UNCHANGED vars
  BY <1>5 DEF Pause, vars, pool, jobOptions, outcome, Truthful
<1>6. CASE Clear
  <2>1. /\ queue' = [p \in Priorities |-> <<>>]
        /\ UNCHANGED <<worker, attempts, created, maxRetries, delivered, promise>>
    BY <1>6 DEF Clear, jobOptions, outcome
  <2>2. \A p \in Priorities : Len(queue'[p]) = 0
    BY <2>1
  <2>3. \A i : ~In(i, queue')
    BY <2>2, NoneQueued
  <2> QED
    BY <2>1, <2>3 DEF Truthful, Truth
<1>7. ASSUME NEW j \in Jobs, ProcessJob(j) PROVE Truthful'
  <2>1. worker[j] # "idle" => promise[j] = "open" /\ delivered[j] = 0 /\ ~In(j, queue)
    BY <1>1, QueuedIsIdle DEF Truthful, Truth
  <2>2. {"idle", "sending", "backoff"} \subseteq Stages
    BY DEF Stages
  <2>3. CASE AcquireDone(j)
    <3>1. /\ worker[j] # "idle" /\ worker' = [worker EXCEPT ![j] = "sending"]
          /\ UNCHANGED <<queue, attempts, created, maxRetries, delivered, promise>>
      BY <2>3 DEF AcquireDone, jobOptions, outcome
    <3>2. Truth(queue, worker', attempts, maxRetries, delivered, promise, created)
      BY <2>1, <2>2, <3>1, TruthMoves
    <3> QED
      BY <3>1, <3>2 DEF Truthful
  <2>4. CASE SendOk(j)
    <3>1. /\ worker[j] # "idle" /\ worker' = [worker EXCEPT ![j] = "idle"]
          /\ delivered' = [delivered EXCEPT ![j] = @ + 1] /\ promise' = Settle(j, "resolved")
          /\ UNCHANGED <<queue, attempts, created, maxRetries>>
      BY <2>4 DEF SendOk, jobOptions
    <3>2. /\ delivered'[j] = 1 /\ promise'[j] = "resolved"
          /\ \A i \in Jobs : i # j => delivered'[i] = delivered[i] /\ promise'[i] = promise[i]
      BY <1>1, <2>1, <3>1, Types DEF Settle
    <3>3. Truth(queue, worker', attempts, maxRetries, delivered', promise', created)
      BY <2>1, <2>2, <3>1, <3>2, TruthMoves
    <3> QED
      BY <3>1, <3>3 DEF Truthful
  <2>5. CASE SendFail(j)
    <3>1. /\ worker[j] = "sending"
          /\ SleepBeforeRetry(j, status) \/ GiveUp(j, status)
          /\ UNCHANGED <<queue, attempts, created, maxRetries, delivered>>
      BY <2>5 DEF SendFail, HandleError, jobOptions
    <3>2. CASE SleepBeforeRetry(j, status)
      <4>1. worker' = [worker EXCEPT ![j] = "backoff"] /\ promise' = promise
        BY <3>2 DEF SleepBeforeRetry
      <4>2. Truth(queue, worker', attempts, maxRetries, delivered, promise, created)
        BY <2>1, <2>2, <3>1, <4>1, TruthMoves
      <4> QED
        BY <3>1, <4>1, <4>2 DEF Truthful
    <3>3. CASE GiveUp(j, status)
      <4>1. /\ worker' = [worker EXCEPT ![j] = "idle"] /\ promise' = Settle(j, "rejected")
            /\ ~(retryCount[j] + 1 <= maxRetries[j])
        BY <3>3 DEF GiveUp, CanRetry
      <4>2. attempts[j] = maxRetries[j] + 1
        BY <3>1, <4>1, InAttempt
      <4>3. promise'[j] = "rejected" /\ \A i \in Jobs : i # j => promise'[i] = promise[i]
        BY <1>1, <2>1, <3>1, <4>1 DEF Settle
      <4>4. Truth(queue, worker', attempts, maxRetries, delivered, promise', created)
        BY <2>1, <2>2, <3>1, <4>1, <4>2, <4>3, TruthMoves
      <4> QED
        BY <3>1, <4>4 DEF Truthful
    <3> QED
      BY <3>1, <3>2, <3>3
  <2>6. CASE BackoffDone(j)
    <3>1. /\ worker[j] = "backoff" /\ worker' = [worker EXCEPT ![j] = "idle"]
          /\ queue' = Requeued(j)
          /\ UNCHANGED <<attempts, created, maxRetries, delivered, promise>>
      BY <2>6 DEF BackoffDone, jobOptions, outcome
    <3>2. \A i : In(i, queue') <=> In(i, queue) \/ i = j
      BY <3>1, RequeuedQueue
    <3>3. Truth(queue', worker', attempts, maxRetries, delivered, promise, created)
      BY <2>1, <2>2, <3>1, <3>2, TruthMoves
    <3> QED
      BY <3>1, <3>3 DEF Truthful
  <2>7. ~CompletedListenerThrows(j)
    BY DEF CompletedListenerThrows
  <2> QED
    BY <1>7, <2>3, <2>4, <2>5, <2>6, <2>7 DEF ProcessJob
<1>8. ASSUME NEW p \in Priorities, NEW m \in 0..MaxRetryLimit PROVE ~EnqueuedListenerThrows(p, m)
  BY DEF EnqueuedListenerThrows
<1> QED
  BY <1>2, <1>3, <1>4, <1>5, <1>6, <1>7, <1>8 DEF Next, Application

\* If no listener throws, a promise that resolved was of a job sent exactly once,
\* one that was rejected of a job never sent whose attempts were all used.
THEOREM PromisesTellTheTruth ==
  ASSUME FaultyEvents = {}
  PROVE  Spec => []OutcomeTruthful
<1>1. Init => Truthful
  BY DEF Init, Truthful, Truth
<1>2. IInv /\ Truthful /\ [Next]_vars => Truthful'
  BY NextTruthful
<1>3. Truthful => OutcomeTruthful
  BY DEF Truthful, Truth, OutcomeTruthful
<1> QED
  BY <1>1, <1>2, <1>3, SpecIInv, PTL DEF Spec

----------------------------------------------------------------------------
\* One slot serves the jobs of a priority in the order of their enqueue calls.

\* SerialFifo, with what it rests on: each queue is in the order of creation, and
\* the job in the worker is older than the queued ones of its priority.
Ordered(q, wrk, att, prio) ==
  /\ \A p \in Priorities : \A k, l \in 1..Len(q[p]) : k < l => q[p][k] < q[p][l]
  /\ \A a \in Jobs : wrk[a] # "idle" => \A k \in 1..Len(q[prio[a]]) : a < q[prio[a]][k]
  /\ \A i, j \in Jobs :
       i < j /\ prio[i] = prio[j] /\ (In(i, q) \/ wrk[i] # "idle") => att[j] = 0

InOrder == Ordered(queue, worker, attempts, priority)

\* The loop has one slot to fill and finds it free, or changes nothing.
LEMMA LoopOfOne ==
  ASSUME maxConcurrency = 1, NEW q, NEW T, NEW running \in Nat, NEW wrk, NEW sts,
         Looped(q, T, running, wrk, sts), Cardinality(Busy(wrk)) <= running,
         NEW p \in Priorities, NEW k \in 1..T[p]
  PROVE  k = 1 /\ \A j \in Jobs : wrk[j] = "idle"
<1> DEFINE x == T["HIGH"]
           y == T["NORMAL"]
           z == T["LOW"]
<1>1. x \in Nat /\ y \in Nat /\ z \in Nat /\ running + x + y + z <= 1
  BY DEF Looped, Priorities
<1>2. T[p] = x \/ T[p] = y \/ T[p] = z
  BY DEF Priorities
<1> HIDE DEF x, y, z
<1>3. T[p] <= 1 /\ (T[p] = 1 => running = 0) /\ T[p] \in Nat
  BY <1>1, <1>2
<1>4. k = 1 /\ running = 0
  BY <1>3
<1>5. Cardinality(Busy(wrk)) = 0
  BY <1>4, JobsFinite, FS_CardinalityType
<1>6. Busy(wrk) = {}
  BY <1>5, JobsFinite, FS_EmptySet
<1> QED
  BY <1>4, <1>6 DEF Busy

\* The loop starts the oldest job of a priority.
LEMMA LoopOrdered ==
  ASSUME maxConcurrency = 1, NEW on \in BOOLEAN, NEW q \in Queues, NEW r \in Nat, r <= 1,
         NEW wrk, NEW sts, Cardinality(Busy(wrk)) <= r,
         NEW prio \in [Jobs -> Priorities], NEW n, Placed(q, wrk, prio, n),
         Ordered(q, wrk, attempts, prio), TriggerProcessing(on, q, r, wrk, sts)
  PROVE  Ordered(queue', worker', attempts', prio)
<1>1. PICK T : Looped(q, T, r, wrk, sts)
  BY LoopIsLooped
<1>2. ASSUME NEW p \in Priorities, NEW k \in 1..Len(queue'[p]), NEW l \in 1..Len(queue'[p]), k < l
      PROVE  queue'[p][k] < queue'[p][l]
  <2>1. /\ T[p] + k \in 1..Len(q[p]) /\ queue'[p][k] = q[p][T[p] + k]
        /\ T[p] + l \in 1..Len(q[p]) /\ queue'[p][l] = q[p][T[p] + l]
    BY <1>1, TailPlace
  <2>2. T[p] + k < T[p] + l
    <3>1. T[p] \in Nat /\ Len(queue'[p]) \in Nat
      BY <1>1 DEF Looped, Queues
    <3> QED
      BY <1>2, <3>1
  <2> QED
    BY <2>1, <2>2 DEF Ordered
<1>3. ASSUME NEW a \in Jobs, worker'[a] # "idle", NEW k \in 1..Len(queue'[prio[a]])
      PROVE  a < queue'[prio[a]][k]
  <2> DEFINE p == prio[a]
  <2>1. p \in Priorities
    OBVIOUS
  <2>2. T[p] + k \in 1..Len(q[p]) /\ queue'[p][k] = q[p][T[p] + k]
    BY <1>1, <2>1, TailPlace
  <2>3. CASE a \in Heads(q, T)
    <3>1. PICK m \in 1..T[p] : q[p][m] = a
      BY <1>1, <2>3, HeadPlace
    <3>2. T[p] \in Nat /\ Len(queue'[p]) \in Nat /\ Len(q[p]) \in Nat /\ T[p] <= Len(q[p])
      BY <1>1, <2>1 DEF Looped, Queues
    <3>3. m \in 1..Len(q[p]) /\ m < T[p] + k
      BY <3>2
    <3> QED
      BY <2>1, <2>2, <3>1, <3>3 DEF Ordered
  <2>4. CASE a \notin Heads(q, T)
    <3>1. wrk[a] # "idle"
      BY <1>1, <1>3, <2>4 DEF Looped
    <3> QED
      BY <2>2, <3>1 DEF Ordered
  <2> QED
    BY <2>3, <2>4
<1>4. ASSUME NEW i \in Jobs, NEW j \in Jobs, i < j, prio[i] = prio[j],
             In(i, queue') \/ worker'[i] # "idle"
      PROVE  attempts'[j] = 0
  <2>1. In(i, q) \/ wrk[i] # "idle"
    <3>1. In(i, queue') => In(i, q)
      BY <1>1, LoopQueued
    <3>2. i \in Heads(q, T) => In(i, q)
      BY <1>1, HeadPlace
    <3>3. i \notin Heads(q, T) => worker'[i] = wrk[i]
      BY <1>1 DEF Looped
    <3> QED
      BY <1>4, <3>1, <3>2, <3>3
  <2>2. attempts[j] = 0
    BY <1>4, <2>1 DEF Ordered
  <2>3. j \notin Heads(q, T)
    <3> SUFFICES ASSUME j \in Heads(q, T) PROVE FALSE
      OBVIOUS
    <3> DEFINE p == prio[j]
    <3>1. p \in Priorities
      OBVIOUS
    <3>2. PICK k \in 1..T[p] : q[p][k] = j
      BY <1>1, HeadPlace
    <3>3. k = 1 /\ wrk[i] = "idle"
      <4> HIDE DEF p
      <4>1. k \in 1..T[p]
        BY <3>2
      <4>2. k = 1 /\ \A a \in Jobs : wrk[a] = "idle"
        BY <1>1, <3>1, <4>1, LoopOfOne
      <4> QED
        BY <4>2
    <3>4. In(i, q)
      BY <2>1, <3>3
    <3>5. PICK x \in Priorities : \E l \in 1..Len(q[x]) : q[x][l] = i
      BY <3>4 DEF In
    <3>6. PICK l \in 1..Len(q[x]) : q[x][l] = i
      BY <3>5
    <3>7. x = p
      BY <1>4, <3>6 DEF Placed
    <3>8. Len(q[p]) \in Nat
      BY <3>1 DEF Queues
    <3>9. l = 1 \/ (1 \in 1..Len(q[p]) /\ 1 < l)
      BY <3>6, <3>7, <3>8
    <3>10. i = j \/ j < i
      BY <3>1, <3>2, <3>3, <3>6, <3>7, <3>9 DEF Ordered
    <3> QED
      BY <1>4, <3>10 DEF Jobs
  <2> QED
    BY <1>1, <2>2, <2>3 DEF Looped
<1> QED
  BY <1>2, <1>3, <1>4 DEF Ordered

\* Every step keeps the order.
LEMMA NextInOrder ==
  ASSUME maxConcurrency = 1, IInv, InOrder, [Next]_vars
  PROVE  InOrder'
<1>1. /\ isProcessing \in BOOLEAN /\ Placed(queue, worker, priority, created)
      /\ runningWorkers = Cardinality(Busy(worker)) + exiting
  BY DEF IInv, TypeOK, Accounting
<1>2. /\ runningWorkers \in Nat /\ runningWorkers <= 1
      /\ Cardinality(Busy(worker)) \in Nat /\ Cardinality(Busy(worker)) <= runningWorkers
  BY <1>1, Types
<1>3. ASSUME NEW p \in Priorities, NEW m \in 0..MaxRetryLimit, PushJob(p, m)
      PROVE  /\ Pushed(p) \in Queues /\ priority' \in [Jobs -> Priorities]
             /\ Placed(Pushed(p), worker, priority', created')
             /\ Ordered(Pushed(p), worker, attempts, priority')
  <2> DEFINE j == created + 1
             q2 == Pushed(p)
  <2>1. /\ created < MaxJobs /\ j \in Jobs /\ priority' = [priority EXCEPT ![j] = p]
        /\ q2 \in Queues /\ priority' \in [Jobs -> Priorities]
        /\ Placed(q2, worker, priority', created')
        /\ \A i : In(i, q2) <=> In(i, queue) \/ i = j
    BY <1>3, PushedState, PushedQueue DEF PushJob
  <2>2. /\ q2[p] \in Seq(Jobs) /\ Len(q2[p]) = Len(queue[p]) + 1 /\ Len(queue[p]) \in Nat
        /\ q2[p][Len(queue[p]) + 1] = j
        /\ \A k \in 1..Len(queue[p]) : q2[p][k] = queue[p][k]
        /\ \A x \in Priorities : x # p => q2[x] = queue[x]
    BY <2>1, Types, Appended DEF Pushed, Queues
  <2>3. /\ priority'[j] = p /\ \A i \in Jobs : i # j => priority'[i] = priority[i]
        /\ \A i \in Jobs : i > created => worker[i] = "idle" /\ attempts[i] = 0
    BY <2>1, Types DEF IInv, Budget
  <2>4. /\ j > created /\ \A i \in Jobs : i <= created => i < j
        /\ \A i \in Jobs : j < i => i > created
        /\ \A i \in Jobs : i <= created \/ i > created
    BY Types DEF Jobs
  <2> HIDE DEF j, q2
  <2>5. ASSUME NEW x \in Priorities, NEW k \in 1..Len(q2[x]), NEW l \in 1..Len(q2[x]), k < l
        PROVE  q2[x][k] < q2[x][l]
    <3>1. CASE x # p
      BY <2>2, <2>5, <3>1 DEF InOrder, Ordered
    <3>2. CASE x = p
      <4>1. k \in 1..Len(queue[p]) /\ (l \in 1..Len(queue[p]) \/ l = Len(queue[p]) + 1)
        BY <2>2, <2>5, <3>2
      <4>2. CASE l = Len(queue[p]) + 1
        <5>1. queue[p][k] \in Jobs /\ queue[p][k] <= created
          BY <4>1, QueuesHold
        <5> QED
          BY <2>2, <2>4, <3>2, <4>1, <4>2, <5>1
      <4>3. CASE l \in 1..Len(queue[p])
        BY <2>2, <2>5, <3>2, <4>1, <4>3 DEF InOrder, Ordered
      <4> QED
        BY <4>1, <4>2, <4>3
    <3> QED
      BY <3>1, <3>2
  <2>6. ASSUME NEW a \in Jobs, worker[a] # "idle", NEW k \in 1..Len(q2[priority'[a]])
        PROVE  a < q2[priority'[a]][k]
    <3>1. a <= created /\ a # j /\ priority'[a] = priority[a] /\ priority[a] \in Priorities
      BY <2>1, <2>3, <2>4, <2>6, Types
    <3>2. CASE priority[a] # p
      BY <2>2, <2>6, <3>1, <3>2 DEF InOrder, Ordered
    <3>3. CASE priority[a] = p
      <4>1. k \in 1..Len(queue[p]) \/ k = Len(queue[p]) + 1
        BY <2>2, <2>6, <3>1, <3>3
      <4>2. CASE k = Len(queue[p]) + 1
        BY <2>2, <2>4, <3>1, <3>3, <4>2
      <4>3. CASE k \in 1..Len(queue[p])
        BY <2>2, <2>6, <3>1, <3>3, <4>3 DEF InOrder, Ordered
      <4> QED
        BY <4>1, <4>2, <4>3
    <3> QED
      BY <3>2, <3>3
  <2>7. ASSUME NEW a \in Jobs, NEW b \in Jobs, a < b, priority'[a] = priority'[b],
               In(a, q2) \/ worker[a] # "idle"
        PROVE  attempts[b] = 0
    <3>1. CASE b > created
      BY <2>3, <3>1
    <3>2. CASE b <= created
      <4>1. a # j /\ b # j
        BY <2>1, <2>4, <2>7, <3>2, Types DEF Jobs
      <4>2. In(a, queue) \/ worker[a] # "idle"
        BY <2>1, <2>7, <4>1
      <4>3. priority[a] = priority[b]
        BY <2>3, <2>7, <4>1
      <4> QED
        BY <2>7, <4>2, <4>3 DEF InOrder, Ordered
    <3> QED
      BY <2>4, <3>1, <3>2
  <2>8. Ordered(q2, worker, attempts, priority')
    BY <2>5, <2>6, <2>7 DEF Ordered
  <2> QED
    BY <2>1, <2>8 DEF q2
<1>4. ASSUME NEW p \in Priorities, NEW m \in 0..MaxRetryLimit, Enqueue(p, m) PROVE InOrder'
  <2>1. PushJob(p, m) /\ TriggerProcessing(isProcessing, Pushed(p), runningWorkers, worker, Pending)
    BY <1>4 DEF Enqueue
  <2>2. Ordered(queue', worker', attempts', priority')
    BY <1>1, <1>2, <1>3, <2>1, LoopOrdered
  <2> QED
    BY <2>2 DEF InOrder
<1>5. ASSUME NEW p \in Priorities, NEW m \in 0..MaxRetryLimit, EnqueuedListenerThrows(p, m)
      PROVE  InOrder'
  <2>1. PushJob(p, m) /\ queue' = Pushed(p) /\ UNCHANGED <<worker, attempts>>
    BY <1>5 DEF EnqueuedListenerThrows
  <2> QED
    BY <1>3, <2>1 DEF InOrder
<1>6. CASE Start
  <2>1. TriggerProcessing(TRUE, queue, runningWorkers, worker, status) /\ priority' = priority
    BY <1>6 DEF Start, jobOptions
  <2>2. Ordered(queue', worker', attempts', priority)
    BY <1>1, <1>2, <2>1, Types, LoopOrdered DEF InOrder
  <2> QED
    BY <2>1, <2>2 DEF InOrder
<1>7. CASE Finally
  <2> DEFINE r == runningWorkers - 1
  <2>1. /\ exiting > 0 /\ priority' = priority
        /\ TriggerProcessing(isProcessing, queue, r, worker, status)
    BY <1>7 DEF Finally, jobOptions
  <2>2. r \in Nat /\ r <= 1 /\ Cardinality(Busy(worker)) <= r
    BY <1>1, <1>2, <2>1, Types
  <2> HIDE DEF r
  <2>3. Ordered(queue', worker', attempts', priority)
    BY <1>1, <2>1, <2>2, Types, LoopOrdered DEF InOrder
  <2> QED
    BY <2>1, <2>3 DEF InOrder
<1>8. CASE Pause \/ UNCHANGED vars
  BY <1>8 DEF Pause, vars, pool, jobOptions, InOrder
<1>9. CASE Clear
  <2>1. /\ queue' = [p \in Priorities |-> <<>>]
        /\ UNCHANGED <<worker, attempts, priority>>
    BY <1>9 DEF Clear, jobOptions
  <2>2. \A p \in Priorities : Len(queue'[p]) = 0
    BY <2>1
  <2>3. \A i : ~In(i, queue')
    BY <2>2, NoneQueued
  <2>4. \A a \in Jobs : priority[a] \in Priorities
    BY Types
  <2> QED
    BY <2>1, <2>2, <2>3, <2>4 DEF InOrder, Ordered
<1>10. ASSUME NEW j \in Jobs, ProcessJob(j) PROVE InOrder'
  <2>1. CASE BackoffDone(j)
    <3> DEFINE p == priority[j]
    <3>1. /\ worker[j] = "backoff" /\ queue' = Requeued(j)
          /\ worker' = [worker EXCEPT ![j] = "idle"] /\ UNCHANGED <<attempts, priority>>
      BY <2>1 DEF BackoffDone, jobOptions
    <3>2. p \in Priorities /\ \A i : In(i, queue') <=> In(i, queue) \/ i = j
      BY <3>1, Types, RequeuedQueue
    <3>3. /\ Len(queue'[p]) = Len(queue[p]) + 1 /\ Len(queue[p]) \in Nat
          /\ queue'[p][1] = j
          /\ \A k \in 2..(Len(queue[p]) + 1) : queue'[p][k] = queue[p][k - 1]
          /\ \A x \in Priorities : x # p => queue'[x] = queue[x]
      BY <3>1, <3>2, Types, Prepended DEF Requeued, Queues
    <3>4. \A i \in Jobs : worker'[i] # "idle" => worker[i] # "idle" /\ i # j
      BY <3>1, Types
    <3>5. \A i \in Jobs : i # j => worker[i] = "idle"
      <4>1. Busy(worker) \ {j} = {}
        <5>1. j \in Busy(worker) /\ IsFiniteSet(Busy(worker))
          BY <3>1, JobsFinite DEF Busy
        <5>2. Cardinality(Busy(worker) \ {j}) = Cardinality(Busy(worker)) - 1
          BY <5>1, FS_RemoveElement
        <5>3. IsFiniteSet(Busy(worker) \ {j}) /\ Cardinality(Busy(worker) \ {j}) \in Nat
          BY <5>1, FS_Subset, FS_CardinalityType
        <5>4. Cardinality(Busy(worker) \ {j}) = 0
          BY <1>2, <5>2, <5>3
        <5> QED
          BY <5>3, <5>4, FS_EmptySet
      <4> QED
        BY <4>1 DEF Busy
    <3> HIDE DEF p
    <3>6. ASSUME NEW x \in Priorities, NEW k \in 1..Len(queue'[x]), NEW l \in 1..Len(queue'[x]), k < l
          PROVE  queue'[x][k] < queue'[x][l]
      <4>1. CASE x # p
        BY <3>3, <3>6, <4>1 DEF InOrder, Ordered
      <4>2. CASE x = p
        <5>1. /\ l \in 2..(Len(queue[p]) + 1) /\ l - 1 \in 1..Len(queue[p])
              /\ queue'[p][l] = queue[p][l - 1]
          BY <3>3, <3>6, <4>2
        <5>2. CASE k = 1
          <6>1. j < queue[p][l - 1]
            BY <3>1, <5>1 DEF p, InOrder, Ordered
          <6> QED
            BY <3>3, <4>2, <5>1, <5>2, <6>1
        <5>3. CASE k # 1
          <6>1. /\ k - 1 \in 1..Len(queue[p]) /\ k - 1 < l - 1
                /\ queue'[p][k] = queue[p][k - 1]
            BY <3>3, <3>6, <4>2, <5>3
          <6> QED
            BY <3>2, <4>2, <5>1, <6>1 DEF InOrder, Ordered
        <5> QED
          BY <5>2, <5>3
      <4> QED
        BY <4>1, <4>2
    <3>7. ASSUME NEW a \in Jobs, NEW b \in Jobs, a < b, priority[a] = priority[b],
                 In(a, queue')
          PROVE  attempts[b] = 0
      <4>1. In(a, queue) \/ worker[a] # "idle"
        BY <3>1, <3>2, <3>7
      <4> QED
        BY <3>7, <4>1 DEF InOrder, Ordered
    <3> QED
      BY <3>1, <3>4, <3>5, <3>6, <3>7 DEF InOrder, Ordered
  <2>2. CASE ~BackoffDone(j)
    <3>1. /\ worker[j] # "idle" /\ \E s \in Stages : worker' = [worker EXCEPT ![j] = s]
          /\ UNCHANGED <<queue, attempts, priority>>
      BY <1>10, <2>2 DEF ProcessJob, AcquireDone, SendOk, SendFail, CompletedListenerThrows,
                  HandleError, SleepBeforeRetry, GiveUp, jobOptions, Stages
    <3>2. \A i \in Jobs : worker'[i] # "idle" => worker[i] # "idle"
      BY <3>1, Types
    <3> QED
      BY <3>1, <3>2 DEF InOrder, Ordered
  <2> QED
    BY <2>1, <2>2
<1> QED
  BY <1>4, <1>5, <1>6, <1>7, <1>8, <1>9, <1>10 DEF Next, Application

\* With one slot, no job of a priority is tried before every earlier one of that
\* priority is over, its retries included.
THEOREM OneSlotIsFifo ==
  ASSUME maxConcurrency = 1
  PROVE  Spec => []SerialFifo
<1>1. Init => InOrder
  <2> SUFFICES ASSUME Init PROVE InOrder
    OBVIOUS
  <2>1. \A p \in Priorities : Len(queue[p]) = 0
    BY DEF Init
  <2>2. \A i : ~In(i, queue)
    BY <2>1, NoneQueued
  <2>3. \A j \in Jobs : worker[j] = "idle"
    BY DEF Init
  <2> QED
    BY <2>1, <2>2, <2>3 DEF InOrder, Ordered
<1>2. IInv /\ InOrder /\ [Next]_vars => InOrder'
  BY NextInOrder
<1>3. IInv /\ InOrder => SerialFifo
  <2> SUFFICES ASSUME IInv, InOrder, NEW i \in 1..created, NEW j \in 1..created,
                      i < j, priority[i] = priority[j], i \in Queued \cup Active
               PROVE  attempts[j] = 0
    BY DEF SerialFifo
  <2>1. i \in Jobs /\ j \in Jobs
    BY Types, BoundsAssumption DEF Jobs
  <2>2. In(i, queue) \/ worker[i] # "idle"
    BY QueuedIn DEF Active
  <2> QED
    BY <2>1, <2>2 DEF InOrder, Ordered
<1> QED
  BY <1>1, <1>2, <1>3, SpecIInv, PTL DEF Spec

=============================================================================
