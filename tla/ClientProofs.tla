------------------------------ MODULE ClientProofs ------------------------------
(***************************************************************************)
(* Proofs about Client and its AsyncEventQueue, for any consumers and any   *)
(* number of calls.                                                        *)
(*                                                                         *)
(* push and close both come down to Deliver of a batch: some new events,    *)
(* and after them, if close() has to wake more waiters than there are       *)
(* events, synthetic ones.  The invariant of the queue needs that a waiter  *)
(* is in the list once, or a wake-up would leave it there, and that the     *)
(* queue holds the last events pushed, so that what is given next is newer  *)
(* than all that was given.                                                *)
(***************************************************************************)
EXTENDS Client, FunctionTheorems, FiniteSetTheorems, SequenceTheorems, TLAPS

Waits(c, w) == \E k \in 1..Len(w) : w[k] = c

\* Every waiter once, and none for an event that is there or after the close.
WaitersInv ==
  /\ \A k, l \in 1..Len(waiters) : waiters[k] = waiters[l] => k = l
  /\ \A c \in Consumers : at[c] = "waiting" <=> Waits(c, waiters)
  /\ waiters # <<>> => queue = <<>> /\ ~closed

\* The queue holds the last events pushed, and everything given was before them.
EventsInv ==
  /\ Len(queue) <= pushed
  /\ \A k \in 1..Len(queue) : queue[k] = Handed + k
  /\ \A c \in Consumers : last[c] <= Handed

QueueInv == QueueTypeOK /\ WaitersInv /\ EventsInv

\* Every call of connect that was rejected or still awaits its load was made.
CallsCounted == loading + rejected <= connects

ClientInv == ClientTypeOK /\ QueueInv /\ CallsCounted /\ StateMatchesCredentials

----------------------------------------------------------------------------
\* Facts about sequences.

\* What remains of a sequence behind its first n entries.
LEMMA Rest ==
  ASSUME NEW S, NEW s \in Seq(S), NEW n \in 0..Len(s)
  PROVE  LET r == SubSeq(s, n + 1, Len(s)) IN
         /\ r \in Seq(S) /\ Len(r) = Len(s) - n
         /\ \A k \in 1..Len(r) : r[k] = s[n + k] /\ n + k \in 1..Len(s)
<1>1. \A i \in n + 1..Len(s) : s[i] \in S
  OBVIOUS
<1>2. n + 1 \in Int /\ Len(s) \in Int
  OBVIOUS
<1> QED
  BY <1>1, <1>2, SubSeqProperties

\* Two sequences, one behind the other.
LEMMA Joined ==
  ASSUME NEW S, NEW s \in Seq(S), NEW t \in Seq(S)
  PROVE  /\ s \o t \in Seq(S) /\ Len(s \o t) = Len(s) + Len(t)
         /\ Len(s) \in Nat /\ Len(t) \in Nat
         /\ \A k \in 1..Len(s) : (s \o t)[k] = s[k]
         /\ \A k \in 1..Len(t) : (s \o t)[Len(s) + k] = t[k]
<1>1. /\ s \o t \in Seq(S) /\ Len(s \o t) = Len(s) + Len(t)
      /\ \A i \in 1..Len(s) + Len(t) :
           (s \o t)[i] = IF i <= Len(s) THEN s[i] ELSE t[i - Len(s)]
  BY ConcatProperties
<1>2. Len(s) \in Nat /\ Len(t) \in Nat
  OBVIOUS
<1>3. ASSUME NEW k \in 1..Len(s) PROVE (s \o t)[k] = s[k]
  <2>1. k \in 1..Len(s) + Len(t) /\ k <= Len(s)
    BY <1>2
  <2> QED
    BY <1>1, <2>1
<1>4. ASSUME NEW k \in 1..Len(t) PROVE (s \o t)[Len(s) + k] = t[k]
  <2>1. /\ Len(s) + k \in 1..Len(s) + Len(t) /\ ~(Len(s) + k <= Len(s))
        /\ (Len(s) + k) - Len(s) = k
    BY <1>2
  <2> QED
    BY <1>1, <2>1
<1> QED
  BY <1>1, <1>2, <1>3, <1>4

\* The first n entries of a sequence without duplicates are n.
LEMMA FirstCount ==
  ASSUME NEW S, NEW s \in Seq(S), NEW n \in Nat, n <= Len(s),
         \A k, l \in 1..Len(s) : s[k] = s[l] => k = l
  PROVE  Cardinality({s[k] : k \in 1..n}) = n
<1> DEFINE H == {s[k] : k \in 1..n}
           f == [k \in 1..n |-> s[k]]
<1>1. 1..n \subseteq 1..Len(s)
  OBVIOUS
<1>2. f \in Bijection(1..n, H)
  <2>1. f \in [1..n -> H] /\ \A k, l \in 1..n : f[k] = f[l] => k = l
    BY <1>1
  <2>2. \A h \in H : \E k \in 1..n : f[k] = h
    OBVIOUS
  <2> QED
    BY <2>1, <2>2, Fun_IsBij
<1>3. IsFiniteSet(1..n) /\ Cardinality(1..n) = n
  BY FS_Interval
<1>4. ExistsBijection(1..n, H)
  BY <1>2 DEF ExistsBijection
<1> QED
  BY <1>3, <1>4, FS_Bijection

----------------------------------------------------------------------------
\* Deliver

\* The events es are r new ones and then synthetic ones, as many as there are
\* waiters for, and those only if the new ones leave waiters.
Batch(es, r) ==
  /\ es \in Seq(Nat) /\ r \in 0..Len(es)
  /\ \A k \in 1..Len(es) : es[k] = IF k <= r THEN pushed + k ELSE Synthetic
  /\ Len(es) = r \/ Len(es) = Len(waiters)

\* What every step does to the events: see ExactlyOnceInOrder.
GivesNext ==
  /\ queue' = [k \in 1..Len(queue') |-> Handed' + k]
  /\ {last'[c] : c \in GivenNow} = Handed + 1..Handed'
  /\ Cardinality(GivenNow) = Handed' - Handed

\* The types, as numbers.
LEMMA QueueTypes ==
  ASSUME QueueInv
  PROVE  /\ queue \in Seq(Nat) /\ Len(queue) \in Nat /\ pushed \in Nat /\ Handed \in Nat
         /\ waiters \in Seq(Consumers) /\ Len(waiters) \in Nat
         /\ last \in [Consumers -> Nat]
         /\ waiters # <<>> => Len(queue) = 0 /\ Handed = pushed
<1>1. pushed \in Nat /\ 1..pushed \subseteq Nat /\ {Synthetic} \cup 1..pushed \subseteq Nat
  BY DEF QueueInv, QueueTypeOK, Synthetic
<1>2. queue \in Seq(Nat) /\ last \in [Consumers -> Nat] /\ waiters \in Seq(Consumers)
  BY <1>1 DEF QueueInv, QueueTypeOK
<1>3. Len(queue) \in Nat /\ Len(waiters) \in Nat
  BY <1>2
<1>4. Handed \in Nat
  BY <1>1, <1>3 DEF QueueInv, EventsInv, Handed
<1>5. waiters # <<>> => Len(queue) = 0 /\ Handed = pushed
  BY <1>1 DEF QueueInv, WaitersInv, Handed
<1> QED
  BY <1>1, <1>2, <1>3, <1>4, <1>5

\* A queue that holds the last events pushed, as a function and with its type.
LEMMA QueueIsTail ==
  ASSUME NEW q \in Seq(Nat), NEW n \in Nat, Len(q) <= n,
         \A k \in 1..Len(q) : q[k] = (n - Len(q)) + k
  PROVE  q \in Seq(1..n) /\ q = [k \in 1..Len(q) |-> (n - Len(q)) + k]
<1>1. Len(q) \in Nat /\ q = [k \in 1..Len(q) |-> q[k]]
  OBVIOUS
<1>2. \A k \in 1..Len(q) : q[k] \in 1..n
  BY <1>1
<1>3. q \in Seq(1..n)
  BY <1>1, <1>2
<1> QED
  BY <1>1, <1>3

\* The waiters after a delivery, and what it gave to whom.
LEMMA DeliverStep ==
  ASSUME QueueInv, NEW es, NEW r, Batch(es, r), Deliver(es), pushed' = pushed + r
  PROVE  /\ QueueTypeOK' <=> closed' \in BOOLEAN
         /\ \A k, l \in 1..Len(waiters') : waiters'[k] = waiters'[l] => k = l
         /\ \A c \in Consumers : at'[c] = "waiting" <=> Waits(c, waiters')
         /\ waiters' # <<>> => queue' = <<>>
         /\ Len(waiters) <= Len(es) => waiters' = <<>>
         /\ EventsInv'
         /\ GivesNext
<1> DEFINE w == Len(waiters)
           m == Len(es)
           n == Lower(w, m)
           g == IF n < r THEN n ELSE r
<1>1. /\ es \in Seq(Nat) /\ m \in Nat /\ r \in Nat /\ r <= m /\ (m = r \/ m = w)
      /\ \A k \in 1..m : es[k] = IF k <= r THEN pushed + k ELSE 0
  BY DEF Batch, Synthetic
<1>2. /\ queue \in Seq(Nat) /\ Len(queue) \in Nat /\ pushed \in Nat /\ Handed \in Nat
      /\ waiters \in Seq(Consumers) /\ w \in Nat /\ last \in [Consumers -> Nat]
      /\ w # 0 => Len(queue) = 0 /\ Handed = pushed
  BY QueueTypes
<1>3. /\ n \in Nat /\ n <= w /\ n <= m /\ (n = w \/ n = m)
      /\ g \in Nat /\ g <= n /\ g <= r /\ (m = r => g = n) /\ (m # r => g = r)
  <2>1. w \in Nat /\ m \in Nat /\ r \in Nat /\ r <= m /\ (m = r \/ m = w)
    BY <1>1, <1>2
  <2> HIDE DEF w, m
  <2>2. n \in Nat /\ n <= w /\ n <= m /\ (n = w \/ n = m)
    BY <2>1 DEF Lower
  <2> HIDE DEF n
  <2> QED
    BY <2>1, <2>2
<1> HIDE DEF w, m, n, g
<1>4. /\ waiters' = SubSeq(waiters, n + 1, w) /\ queue' = queue \o SubSeq(es, n + 1, m)
      /\ at' = [c \in Consumers |-> IF Waited(c, n) THEN "busy" ELSE at[c]]
      /\ last' = [c \in Consumers |->
           IF Waited(c, n) THEN es[CHOOSE k \in 1..n : waiters[k] = c] ELSE last[c]]
  BY DEF Deliver, Backlog, n, w, m
<1>5. /\ waiters' \in Seq(Consumers) /\ Len(waiters') = w - n
      /\ \A k \in 1..Len(waiters') : waiters'[k] = waiters[n + k] /\ n + k \in 1..w
  <2>1. n \in 0..Len(waiters)
    BY <1>2, <1>3 DEF w
  <2> QED
    BY <1>2, <1>4, <2>1, Rest DEF w
<1>6. /\ \A k, l \in 1..w : waiters[k] = waiters[l] => k = l
      /\ \A c \in Consumers : at[c] = "waiting" <=> \E k \in 1..w : waiters[k] = c
      /\ \A k \in 1..w : waiters[k] \in Consumers
      /\ \A c \in Consumers : last[c] <= Handed
  BY <1>2 DEF QueueInv, WaitersInv, EventsInv, Waits, w
<1>7. \A c : Waited(c, n) <=> \E k \in 1..n : waiters[k] = c
  BY DEF Waited
<1>8. \A k, l \in 1..Len(waiters') : waiters'[k] = waiters'[l] => k = l
  <2> SUFFICES ASSUME NEW k \in 1..Len(waiters'), NEW l \in 1..Len(waiters'), waiters'[k] = waiters'[l]
               PROVE  k = l
    OBVIOUS
  <2>1. n + k = n + l
    BY <1>5, <1>6
  <2>2. k \in Int /\ l \in Int
    OBVIOUS
  <2> QED
    BY <1>3, <2>1, <2>2
<1>9. \A c \in Consumers : at'[c] = "waiting" <=> Waits(c, waiters')
  <2> SUFFICES ASSUME NEW c \in Consumers PROVE at'[c] = "waiting" <=> Waits(c, waiters')
    OBVIOUS
  <2>1. CASE Waited(c, n)
    <3>1. at'[c] = "busy"
      BY <1>4, <2>1
    <3>2. PICK l \in 1..n : waiters[l] = c
      BY <1>7, <2>1
    <3>3. ASSUME NEW k \in 1..Len(waiters'), waiters'[k] = c PROVE FALSE
      <4>0. l \in 1..w
        BY <1>2, <1>3
      <4>1. n + k \in 1..w /\ waiters[n + k] = c /\ l \in 1..w
        BY <1>5, <3>3, <4>0
      <4>2. n + k = l
        BY <1>6, <3>2, <4>1
      <4> QED
        BY <1>3, <4>2
    <3> QED
      BY <3>1, <3>3 DEF Waits
  <2>2. CASE ~Waited(c, n)
    <3>1. at'[c] = at[c]
      BY <1>4, <2>2
    <3>2. ASSUME NEW l \in 1..w, waiters[l] = c PROVE Waits(c, waiters')
      <4>1. l \notin 1..n
        BY <1>7, <2>2, <3>2
      <4>2. l - n \in 1..Len(waiters') /\ n + (l - n) = l
        BY <1>2, <1>3, <1>5, <4>1
      <4>3. waiters'[l - n] = waiters[n + (l - n)]
        BY <1>5, <4>2
      <4> QED
        BY <3>2, <4>2, <4>3 DEF Waits
    <3>3. Waits(c, waiters') => \E k \in 1..w : waiters[k] = c
      BY <1>5 DEF Waits
    <3> QED
      BY <1>6, <3>1, <3>2, <3>3
  <2> QED
    BY <2>1, <2>2
<1>10. w <= m => waiters' = <<>>
  <2> SUFFICES ASSUME w <= m PROVE waiters' = <<>>
    OBVIOUS
  <2>1. n = w
    BY <1>1, <1>2, <1>3
  <2>2. Len(waiters') = 0
    BY <1>2, <1>5, <2>1
  <2> QED
    BY <1>5, <2>2
<1>11. /\ queue' \in Seq(Nat) /\ Len(queue') = Len(queue) + (m - n)
       /\ \A k \in 1..Len(queue) : queue'[k] = queue[k]
       /\ \A k \in 1..(m - n) : queue'[Len(queue) + k] = es[n + k] /\ n + k \in 1..m
  <2> DEFINE rest == SubSeq(es, n + 1, m)
  <2>1. /\ rest \in Seq(Nat) /\ Len(rest) = m - n
        /\ \A k \in 1..(m - n) : rest[k] = es[n + k] /\ n + k \in 1..m
    <3>1. n \in 0..Len(es)
      BY <1>1, <1>3 DEF m
    <3> QED
      BY <1>1, <3>1, Rest DEF m
  <2>2. queue' = queue \o rest /\ queue \in Seq(Nat)
    BY <1>2, <1>4
  <2> HIDE DEF rest
  <2>3. /\ queue \o rest \in Seq(Nat) /\ Len(queue \o rest) = Len(queue) + Len(rest)
        /\ \A k \in 1..Len(queue) : (queue \o rest)[k] = queue[k]
        /\ \A k \in 1..Len(rest) : (queue \o rest)[Len(queue) + k] = rest[k]
    <3>1. rest \in Seq(Nat) /\ queue \in Seq(Nat)
      BY <2>1, <2>2
    <3> QED
      BY <3>1, Joined
  <2> QED
    BY <2>1, <2>2, <2>3
<1>12. m - n # 0 => m = r /\ n = w
  BY <1>1, <1>2, <1>3
<1>13. w = 0 => n = 0 /\ g = 0
  BY <1>3
<1>14. Handed' = Handed + g
  <2>1. Handed' = (pushed + r) - (Len(queue) + (m - n)) /\ Handed = pushed - Len(queue)
    BY <1>11 DEF Handed
  <2>2. m - n = r - g
    BY <1>1, <1>3, <1>12
  <2> QED
    BY <1>1, <1>2, <1>3, <2>1, <2>2
<1>15. Len(queue') <= pushed'
  <2>1. Handed' = pushed' - Len(queue') /\ Len(queue') \in Nat /\ pushed' \in Nat
    BY <1>1, <1>2, <1>11 DEF Handed
  <2> QED
    BY <1>2, <1>3, <1>14, <2>1
<1>16. \A k \in 1..Len(queue') : queue'[k] = Handed' + k
  <2> SUFFICES ASSUME NEW k \in 1..Len(queue') PROVE queue'[k] = Handed' + k
    OBVIOUS
  <2>1. CASE k \in 1..Len(queue)
    <3>1. w = 0
      BY <1>2, <2>1
    <3>2. queue[k] = Handed + k
      BY <2>1 DEF QueueInv, EventsInv
    <3> QED
      BY <1>2, <1>11, <1>13, <1>14, <2>1, <3>1, <3>2
  <2>2. CASE k \notin 1..Len(queue)
    <3> DEFINE l == k - Len(queue)
    <3>1. l \in 1..(m - n) /\ Len(queue) + l = k
      BY <1>1, <1>2, <1>3, <1>11, <2>2
    <3> HIDE DEF l
    <3>2. queue'[k] = es[n + l] /\ n + l \in 1..m
      BY <1>11, <3>1
    <3>3. m = r /\ n = w /\ g = n
      BY <1>1, <1>3, <1>12, <3>1
    <3>4. es[n + l] = pushed + (n + l)
      BY <1>1, <3>2, <3>3
    <3>5. Handed = pushed - Len(queue)
      BY DEF Handed
    <3>6. queue'[k] = pushed + (n + l) /\ Handed' = (pushed - Len(queue)) + n
      BY <1>14, <3>2, <3>3, <3>4, <3>5
    <3>7. l \in Int /\ n \in Int /\ k = Len(queue) + l
      BY <1>3, <3>1
    <3> QED
      BY <1>2, <3>6, <3>7
  <2> QED
    BY <2>1, <2>2
<1>17. \A k \in 1..n : last'[waiters[k]] = es[k]
  <2> SUFFICES ASSUME NEW k \in 1..n PROVE last'[waiters[k]] = es[k]
    OBVIOUS
  <2>1. k \in 1..w /\ 1..n \subseteq 1..w
    BY <1>2, <1>3
  <2>2. (CHOOSE l \in 1..n : waiters[l] = waiters[k]) = k
    BY <1>6, <2>1
  <2>3. Waited(waiters[k], n) /\ waiters[k] \in Consumers
    BY <1>6, <1>7, <2>1
  <2> QED
    BY <1>4, <2>2, <2>3
<1>18. \A c \in Consumers : ~Waited(c, n) => last'[c] = last[c]
  BY <1>4
<1>19. \A k \in 1..n : /\ k <= g => last'[waiters[k]] = Handed + k
                       /\ ~(k <= g) => last'[waiters[k]] = 0
  <2> SUFFICES ASSUME NEW k \in 1..n
               PROVE  /\ k <= g => last'[waiters[k]] = Handed + k
                      /\ ~(k <= g) => last'[waiters[k]] = 0
    OBVIOUS
  <2>1. k \in 1..m /\ w # 0 /\ (k <= g <=> k <= r)
    BY <1>1, <1>2, <1>3
  <2>2. last'[waiters[k]] = IF k <= r THEN pushed + k ELSE 0
    BY <1>1, <1>17, <2>1
  <2> QED
    BY <1>2, <2>1, <2>2
<1>20. last' \in [Consumers -> Nat] /\ \A c \in Consumers : last'[c] <= Handed'
  <2> SUFFICES ASSUME NEW c \in Consumers PROVE last'[c] \in Nat /\ last'[c] <= Handed'
    BY <1>4
  <2>1. CASE Waited(c, n)
    <3>1. PICK k \in 1..n : waiters[k] = c
      BY <1>7, <2>1
    <3>2. (last'[c] = Handed + k /\ k <= g) \/ last'[c] = 0
      BY <1>19, <3>1
    <3> QED
      BY <1>2, <1>3, <1>14, <3>2
  <2>2. CASE ~Waited(c, n)
    BY <1>2, <1>3, <1>6, <1>14, <1>18, <2>2
  <2> QED
    BY <2>1, <2>2
<1>21. EventsInv'
  BY <1>15, <1>16, <1>20 DEF EventsInv
<1>22. waiters' # <<>> => queue' = <<>>
  <2> SUFFICES ASSUME waiters' # <<>> PROVE queue' = <<>>
    OBVIOUS
  <2>1. Len(waiters') # 0
    BY <1>5
  <2>2. n = m /\ w # 0
    BY <1>2, <1>3, <1>5, <2>1
  <2>3. Len(queue') = 0
    BY <1>1, <1>2, <1>11, <2>2
  <2> QED
    BY <1>11, <2>3
<1>23. QueueTypeOK' <=> closed' \in BOOLEAN
  <2>1. pushed' \in Nat /\ pushed' = Handed' + Len(queue') /\ Len(queue') \in Nat
    BY <1>1, <1>2, <1>11 DEF Handed
  <2>2. queue' \in Seq(1..pushed')
    <3>1. \A k \in 1..Len(queue') : queue'[k] = (pushed' - Len(queue')) + k
      BY <1>16 DEF Handed
    <3> QED
      BY <1>11, <1>15, <2>1, <3>1, QueueIsTail
  <2>3. last' \in [Consumers -> {Synthetic} \cup 1..pushed']
    <3>1. Handed' \in Nat /\ Handed' <= pushed'
      BY <1>2, <1>3, <1>14, <2>1
    <3>2. \A c \in Consumers : last'[c] \in {0} \cup 1..pushed'
      BY <1>20, <2>1, <3>1
    <3> QED
      BY <1>20, <3>2 DEF Synthetic
  <2>4. at' \in [Consumers -> {"busy", "waiting", "ended"}]
    BY <1>4 DEF QueueInv, QueueTypeOK
  <2> QED
    BY <1>5, <2>1, <2>2, <2>3, <2>4 DEF QueueTypeOK
<1>24. GivesNext
  <2>1. queue' = [k \in 1..Len(queue') |-> Handed' + k]
    <3>1. queue' = [k \in 1..Len(queue') |-> queue'[k]]
      BY <1>11
    <3> QED
      BY <1>16, <3>1
  <2>2. GivenNow = {waiters[k] : k \in 1..g}
    <3>1. ASSUME NEW k \in 1..g PROVE waiters[k] \in GivenNow
      <4>1. k \in 1..n /\ k \in 1..w /\ k <= g
        BY <1>2, <1>3
      <4>2. last'[waiters[k]] = Handed + k /\ waiters[k] \in Consumers
        BY <1>6, <1>19, <4>1
      <4>3. last[waiters[k]] <= Handed /\ last[waiters[k]] \in Nat
        BY <1>2, <1>6, <4>2
      <4> QED
        BY <1>2, <4>2, <4>3 DEF GivenNow, Synthetic
    <3>2. ASSUME NEW c \in GivenNow PROVE \E k \in 1..g : waiters[k] = c
      <4>1. c \in Consumers /\ last'[c] # last[c] /\ last'[c] # 0
        BY DEF GivenNow, Synthetic
      <4>2. PICK k \in 1..n : waiters[k] = c
        BY <1>7, <1>18, <4>1
      <4>3. k <= g
        BY <1>19, <4>1, <4>2
      <4> QED
        BY <1>3, <4>2, <4>3
    <3> QED
      BY <3>1, <3>2
  <2>3. {last'[c] : c \in GivenNow} = Handed + 1..Handed'
    <3>1. \A k \in 1..g : last'[waiters[k]] = Handed + k
      BY <1>3, <1>19
    <3>2. {last'[c] : c \in GivenNow} = {Handed + k : k \in 1..g}
      BY <2>2, <3>1
    <3>3. {Handed + k : k \in 1..g} = Handed + 1..Handed + g
      <4>1. ASSUME NEW x \in Handed + 1..Handed + g PROVE x - Handed \in 1..g /\ x = Handed + (x - Handed)
        BY <1>2, <1>3
      <4>2. ASSUME NEW k \in 1..g PROVE Handed + k \in Handed + 1..Handed + g
        BY <1>2, <1>3
      <4> QED
        BY <4>1, <4>2
    <3> QED
      BY <1>14, <3>2, <3>3
  <2>4. Cardinality(GivenNow) = g
    <3>1. g <= Len(waiters) /\ \A k, l \in 1..Len(waiters) : waiters[k] = waiters[l] => k = l
      BY <1>2, <1>3, <1>6 DEF w
    <3> QED
      BY <1>2, <1>3, <2>2, <3>1, FirstCount
  <2>5. Handed' - Handed = g
    BY <1>2, <1>3, <1>14
  <2> QED
    BY <2>1, <2>3, <2>4, <2>5 DEF GivesNext
<1> QED
  BY <1>8, <1>9, <1>10, <1>21, <1>22, <1>23, <1>24 DEF w, m

----------------------------------------------------------------------------
\* The steps of the queue.

\* The new events of n calls of push are a batch.
LEMMA NewEventsBatch ==
  ASSUME QueueInv, NEW n \in Nat
  PROVE  Batch(NewEvents(n), n) /\ NewEvents(n) \in Seq(Nat) /\ Len(NewEvents(n)) = n
<1>1. pushed \in Nat
  BY QueueTypes
<1>2. NewEvents(n) \in Seq(Nat) /\ Len(NewEvents(n)) = n
  BY <1>1 DEF NewEvents
<1>3. \A k \in 1..n : NewEvents(n)[k] = pushed + k
  BY DEF NewEvents
<1> QED
  BY <1>2, <1>3 DEF Batch

\* push, any number of times.
LEMMA PushInv ==
  ASSUME QueueInv, NEW n \in Nat, Push(n)
  PROVE  QueueInv' /\ (GivesNext \/ UNCHANGED queueVars)
<1>1. CASE UNCHANGED queueVars
  BY <1>1 DEF queueVars, QueueInv, QueueTypeOK, WaitersInv, EventsInv, Waits, Handed
<1>2. CASE ~closed /\ Deliver(NewEvents(n)) /\ pushed' = pushed + n /\ UNCHANGED closed
  <2>1. closed' \in BOOLEAN /\ ~closed'
    BY <1>2 DEF QueueInv, QueueTypeOK
  <2> QED
    BY <1>2, <2>1, NewEventsBatch, DeliverStep DEF QueueInv, WaitersInv
<1> QED
  BY <1>1, <1>2 DEF Push

\* push and then close: no waiter is left.
LEMMA PushAndCloseInv ==
  ASSUME QueueInv, NEW n \in Nat, PushAndClose(n)
  PROVE  QueueInv' /\ GivesNext
<1> DEFINE real == IF closed THEN 0 ELSE n
           left == Len(waiters) - real
           some == [k \in 1..left |-> Synthetic]
           es == NewEvents(real) \o some
<1>1. Deliver(es) /\ pushed' = pushed + real /\ closed' = TRUE
  BY DEF PushAndClose
<1>2. real \in Nat /\ Len(waiters) \in Nat /\ left \in Int
  BY QueueTypes
<1> DEFINE l == IF left > 0 THEN left ELSE 0
<1>3. l \in Nat /\ some \in Seq(Nat) /\ Len(some) = l /\ \A k \in 1..l : some[k] = Synthetic
  <2> HIDE DEF left
  <2>1. l \in Nat /\ 1..left = 1..l
    BY <1>2
  <2> HIDE DEF l
  <2>2. some = [k \in 1..l |-> 0]
    BY <2>1 DEF Synthetic
  <2> HIDE DEF some
  <2> QED
    BY <2>1, <2>2 DEF Synthetic
<1>4. /\ NewEvents(real) \in Seq(Nat) /\ Len(NewEvents(real)) = real
      /\ \A k \in 1..real : NewEvents(real)[k] = pushed + k
  BY <1>2, NewEventsBatch DEF NewEvents
<1> DEFINE news == NewEvents(real)
<1> HIDE DEF some, news
<1>5. /\ es \in Seq(Nat) /\ Len(es) = real + l
      /\ \A k \in 1..real : es[k] = pushed + k
      /\ \A k \in 1..l : es[real + k] = Synthetic
  <2>1. /\ news \in Seq(Nat) /\ Len(news) = real /\ es = news \o some
        /\ \A k \in 1..real : news[k] = pushed + k
    BY <1>4 DEF news
  <2> HIDE DEF es, real, left, l
  <2>2. /\ news \o some \in Seq(Nat) /\ Len(news \o some) = Len(news) + Len(some)
        /\ \A k \in 1..Len(news) : (news \o some)[k] = news[k]
        /\ \A k \in 1..Len(some) : (news \o some)[Len(news) + k] = some[k]
    <3>1. news \in Seq(Nat) /\ some \in Seq(Nat)
      BY <1>3, <2>1
    <3> QED
      BY <3>1, Joined
  <2> QED
    BY <1>3, <2>1, <2>2
<1> HIDE DEF es, news
<1>6. (Len(es) = real /\ Len(waiters) <= Len(es)) \/ Len(es) = Len(waiters)
  <2> HIDE DEF real
  <2>1. CASE left > 0
    BY <1>2, <1>5, <2>1
  <2>2. CASE ~(left > 0)
    BY <1>2, <1>5, <2>2
  <2> QED
    BY <2>1, <2>2
<1>7. \A k \in 1..Len(es) : es[k] = IF k <= real THEN pushed + k ELSE Synthetic
  <2> HIDE DEF real, l, left
  <2> SUFFICES ASSUME NEW k \in 1..Len(es)
               PROVE  es[k] = IF k <= real THEN pushed + k ELSE Synthetic
    OBVIOUS
  <2>1. CASE k <= real
    <3>1. k \in 1..real
      BY <1>2, <2>1
    <3> QED
      BY <1>5, <2>1, <3>1
  <2>2. CASE ~(k <= real)
    <3>1. k - real \in 1..l /\ real + (k - real) = k
      BY <1>2, <1>3, <1>5, <2>2
    <3>2. es[real + (k - real)] = Synthetic
      BY <1>5, <3>1
    <3> QED
      BY <2>2, <3>1, <3>2
  <2> QED
    BY <2>1, <2>2
<1>8. Batch(es, real)
  <2> HIDE DEF real, left
  <2>1. real \in 0..Len(es)
    BY <1>2, <1>3, <1>5
  <2> QED
    BY <1>5, <1>6, <1>7, <2>1 DEF Batch
<1>9. Len(waiters) <= Len(es)
  <2> HIDE DEF real, l
  <2> QED
    BY <1>2, <1>6
<1> HIDE DEF real
<1> QED
  BY <1>1, <1>8, <1>9, DeliverStep DEF QueueInv, WaitersInv

\* A step of a consumer that is in its own code.
LEMMA ConsumeInv ==
  ASSUME QueueInv, NEW c \in Consumers, Consume(c)
  PROVE  QueueInv' /\ GivesNext
<1>1. /\ at[c] = "busy" /\ ~Waits(c, waiters)
      /\ TakeFirst(c) \/ End(c) \/ (queue = <<>> /\ ~closed /\ Wait(c))
  BY DEF Consume, Iterate, Next, QueueInv, WaitersInv
<1>2. /\ queue \in Seq(Nat) /\ Len(queue) \in Nat /\ pushed \in Nat /\ Handed \in Nat
      /\ waiters \in Seq(Consumers) /\ Len(waiters) \in Nat /\ last \in [Consumers -> Nat]
      /\ Handed = pushed - Len(queue)
  BY QueueTypes DEF Handed
<1>3. /\ Len(queue) <= pushed /\ \A k \in 1..Len(queue) : queue[k] = Handed + k
      /\ \A b \in Consumers : last[b] <= Handed
  BY DEF QueueInv, EventsInv
<1>4. ASSUME UNCHANGED <<queue, pushed, last>> PROVE GivesNext /\ EventsInv'
  <2>1. Handed' = Handed /\ GivenNow = {}
    BY <1>4 DEF Handed, GivenNow
  <2>2. Cardinality(GivenNow) = 0 /\ {last'[b] : b \in GivenNow} = {}
    BY <2>1, FS_EmptySet
  <2>3. Handed + 1..Handed' = {} /\ Handed' - Handed = 0
    BY <1>2, <2>1
  <2>4. queue = [k \in 1..Len(queue) |-> Handed + k]
    <3>1. queue = [k \in 1..Len(queue) |-> queue[k]]
      BY <1>2
    <3> QED
      BY <1>3, <3>1
  <2> QED
    BY <1>3, <1>4, <2>1, <2>2, <2>3, <2>4 DEF GivesNext, EventsInv
<1>5. CASE End(c)
  <2>1. at' = [at EXCEPT ![c] = "ended"] /\ UNCHANGED <<queue, waiters, closed, pushed, last>>
    BY <1>5 DEF End
  <2>2. QueueTypeOK'
    BY <2>1 DEF QueueInv, QueueTypeOK
  <2>3. WaitersInv'
    BY <1>1, <2>1 DEF QueueInv, QueueTypeOK, WaitersInv, Waits
  <2> QED
    BY <1>4, <2>1, <2>2, <2>3 DEF QueueInv
<1>6. CASE queue = <<>> /\ ~closed /\ Wait(c)
  <2>1. /\ waiters' = Append(waiters, c) /\ at' = [at EXCEPT ![c] = "waiting"]
        /\ UNCHANGED <<queue, closed, pushed, last>>
    BY <1>6 DEF Wait
  <2>2. QueueTypeOK'
    BY <2>1 DEF QueueInv, QueueTypeOK
  <2>3. /\ Len(waiters') = Len(waiters) + 1 /\ waiters'[Len(waiters) + 1] = c
        /\ \A k \in 1..Len(waiters) : waiters'[k] = waiters[k] /\ waiters[k] # c
        /\ \A k \in 1..Len(waiters') : k \in 1..Len(waiters) \/ k = Len(waiters) + 1
        /\ Len(waiters) + 1 \in 1..Len(waiters') /\ 1..Len(waiters) \subseteq 1..Len(waiters')
    BY <1>1, <1>2, <2>1 DEF Waits
  <2>4. \A k, l \in 1..Len(waiters') : waiters'[k] = waiters'[l] => k = l
    BY <2>3 DEF QueueInv, WaitersInv
  <2>5. \A b \in Consumers : Waits(b, waiters') <=> Waits(b, waiters) \/ b = c
    BY <2>3 DEF Waits
  <2>6. \A b \in Consumers : at'[b] = "waiting" <=> Waits(b, waiters')
    BY <2>1, <2>5 DEF QueueInv, QueueTypeOK, WaitersInv
  <2>7. WaitersInv'
    BY <1>6, <2>1, <2>4, <2>6 DEF WaitersInv
  <2> QED
    BY <1>4, <2>1, <2>2, <2>7 DEF QueueInv
<1>7. CASE TakeFirst(c)
  <2>1. /\ queue # <<>> /\ last' = [last EXCEPT ![c] = Head(queue)] /\ queue' = Tail(queue)
        /\ UNCHANGED <<waiters, closed, at, pushed>>
    BY <1>7 DEF TakeFirst
  <2>2. /\ Len(queue) >= 1 /\ Head(queue) = queue[1] /\ queue' \in Seq(Nat)
        /\ Len(queue') = Len(queue) - 1
        /\ \A k \in 1..Len(queue') : queue'[k] = queue[k + 1] /\ k + 1 \in 1..Len(queue)
    BY <1>2, <2>1
  <2>3. Handed' = Handed + 1
    BY <1>2, <2>1, <2>2 DEF Handed
  <2>4. last'[c] = Handed + 1 /\ \A b \in Consumers : b # c => last'[b] = last[b]
    <3>1. 1 \in 1..Len(queue)
      BY <1>2, <2>2
    <3> QED
      BY <1>2, <1>3, <2>1, <2>2, <3>1
  <2>5. \A k \in 1..Len(queue') : queue'[k] = Handed' + k
    BY <1>2, <1>3, <2>2, <2>3
  <2>6. EventsInv'
    <3>1. Len(queue') <= pushed'
      BY <1>2, <1>3, <2>1, <2>2
    <3>2. \A b \in Consumers : last'[b] <= Handed'
      BY <1>2, <1>3, <2>3, <2>4
    <3> QED
      BY <2>5, <3>1, <3>2 DEF EventsInv
  <2>7. QueueTypeOK'
    <3>1. pushed' \in Nat /\ Len(queue') \in Nat
      BY <1>2, <2>1, <2>2
    <3>2. queue' \in Seq(1..pushed')
      <4>1. Len(queue') <= pushed' /\ \A k \in 1..Len(queue') : queue'[k] = (pushed' - Len(queue')) + k
        BY <2>5, <2>6 DEF EventsInv, Handed
      <4> QED
        BY <2>2, <3>1, <4>1, QueueIsTail
    <3>3. Handed + 1 \in 1..pushed'
      BY <1>2, <2>1, <2>2
    <3>4. last' \in [Consumers -> {Synthetic} \cup 1..pushed']
      BY <2>1, <2>4, <3>3 DEF QueueInv, QueueTypeOK
    <3> QED
      BY <2>1, <3>1, <3>2, <3>4 DEF QueueInv, QueueTypeOK
  <2>8. waiters = <<>>
    BY <2>1 DEF QueueInv, WaitersInv
  <2>9. WaitersInv'
    BY <2>1, <2>8 DEF QueueInv, WaitersInv, Waits
  <2>10. GivesNext
    <3>1. queue' = [k \in 1..Len(queue') |-> Handed' + k]
      <4>1. queue' = [k \in 1..Len(queue') |-> queue'[k]]
        BY <2>2
      <4> QED
        BY <2>5, <4>1
    <3>2. GivenNow = {c}
      <4>1. last[c] <= Handed /\ last[c] \in Nat
        BY <1>2, <1>3
      <4>2. last'[c] # last[c] /\ last'[c] # 0
        BY <1>2, <2>4, <4>1
      <4> QED
        BY <2>4, <4>2 DEF GivenNow, Synthetic
    <3>3. {last'[b] : b \in GivenNow} = Handed + 1..Handed'
      <4>1. Handed + 1..Handed' = {Handed + 1}
        BY <1>2, <2>3
      <4> QED
        BY <2>4, <3>2, <4>1
    <3>4. Cardinality(GivenNow) = 1
      BY <3>2, FS_Singleton
    <3>5. Handed' - Handed = 1
      BY <1>2, <2>3
    <3> QED
      BY <3>1, <3>3, <3>4, <3>5 DEF GivesNext
  <2> QED
    BY <2>6, <2>7, <2>9, <2>10 DEF QueueInv
<1> QED
  BY <1>1, <1>5, <1>6, <1>7

----------------------------------------------------------------------------
\* The steps of the client.

\* The invariant holds initially.
LEMMA ClientInitInv == ClientInit => ClientInv
<1> SUFFICES ASSUME ClientInit PROVE ClientInv
  OBVIOUS
<1>1. QueueTypeOK
  <2>1. queue = <<>> /\ waiters = <<>> /\ queue \in Seq(1..pushed) /\ waiters \in Seq(Consumers)
    BY DEF ClientInit, QueueInit
  <2>2. /\ closed \in BOOLEAN /\ at \in [Consumers -> {"busy", "waiting", "ended"}]
        /\ pushed \in Nat /\ last \in [Consumers -> {Synthetic} \cup 1..pushed]
    BY DEF ClientInit, QueueInit
  <2> QED
    BY <2>1, <2>2 DEF QueueTypeOK
<1>2. ClientTypeOK /\ CallsCounted /\ StateMatchesCredentials
  <2>1. /\ state = "disconnected" /\ registered = FALSE /\ loading = 0 /\ connects = 0
        /\ sends = 0 /\ rejected = 0
    BY DEF ClientInit
  <2>2. 0 \in 0..MaxConnects /\ 0 \in 0..MaxSends /\ 0 \in 0..0 /\ 0 + 0 <= 0
    BY ClientBounds
  <2>3. ClientTypeOK
    BY <1>1, <2>1, <2>2 DEF ClientTypeOK
  <2> QED
    BY <2>1, <2>2, <2>3 DEF CallsCounted, StateMatchesCredentials
<1>3. Len(queue) = 0 /\ Len(waiters) = 0 /\ pushed = 0
  BY DEF ClientInit, QueueInit
<1>4. WaitersInv /\ EventsInv
  BY <1>3 DEF ClientInit, QueueInit, WaitersInv, EventsInv, Waits, Handed, Synthetic
<1> QED
  BY <1>1, <1>2, <1>4 DEF ClientInv, QueueInv

\* Every step keeps the invariant and gives the next events.
LEMMA ClientStepInv ==
  ASSUME ClientInv, [ClientNext]_allVars
  PROVE  ClientInv' /\ [GivesNext]_queueVars
<1> USE DEF ClientInv
<1>1. /\ connects \in 0..MaxConnects /\ sends \in 0..MaxSends /\ loading \in 0..connects
      /\ rejected \in 0..connects /\ loading + rejected <= connects
      /\ connects \in Nat /\ sends \in Nat /\ loading \in Nat /\ rejected \in Nat
      /\ registered \in BOOLEAN
      /\ state \in {"disconnected", "connecting", "authenticating", "connected"}
  BY ClientBounds DEF ClientTypeOK, CallsCounted
<1>2. CASE Connect
  <2>1. QueueInv' /\ [GivesNext]_queueVars
    BY <1>2, PushInv DEF Connect
  <2>2. ClientTypeOK' /\ CallsCounted'
    BY <1>1, <1>2, <2>1, ClientBounds DEF Connect, ClientTypeOK, CallsCounted, QueueInv
  <2>3. StateMatchesCredentials'
    BY <1>2 DEF Connect, StateMatchesCredentials
  <2> QED
    BY <2>1, <2>2, <2>3
<1>3. CASE LoadResolves
  <2>1. /\ loading > 0 /\ loading' = loading - 1 /\ registered' \in BOOLEAN
        /\ RunConnectionLifecycle /\ UNCHANGED <<connects, sends, rejected>>
    BY <1>3 DEF LoadResolves
  <2>2. Push(1) \/ Push(2)
    BY <2>1 DEF RunConnectionLifecycle
  <2>3. QueueInv' /\ [GivesNext]_queueVars
    BY <2>2, PushInv
  <2>4. StateMatchesCredentials' /\ state' \in {"authenticating", "connected"}
    BY <2>1 DEF RunConnectionLifecycle, StateMatchesCredentials
  <2>5. loading' \in 0..connects' /\ loading' + rejected' <= connects'
    BY <1>1, <2>1
  <2>6. ClientTypeOK' /\ CallsCounted'
    BY <1>1, <2>1, <2>3, <2>4, <2>5 DEF ClientTypeOK, CallsCounted, QueueInv
  <2> QED
    BY <2>3, <2>4, <2>6
<1>4. CASE LoadRejects
  <2>1. /\ loading > 0 /\ loading' = loading - 1 /\ rejected' = rejected + 1
        /\ UNCHANGED <<queueVars, state, registered, connects, sends>>
    BY <1>4 DEF LoadRejects
  <2>2. QueueInv'
    BY <2>1 DEF queueVars, QueueInv, QueueTypeOK, WaitersInv, EventsInv, Waits, Handed
  <2>3. /\ loading' \in 0..connects' /\ rejected' \in 0..connects'
        /\ loading' + rejected' <= connects'
    BY <1>1, <2>1
  <2>4. ClientTypeOK' /\ CallsCounted' /\ StateMatchesCredentials'
    BY <1>1, <2>1, <2>2, <2>3 DEF ClientTypeOK, CallsCounted, StateMatchesCredentials, QueueInv
  <2> QED
    BY <2>1, <2>2, <2>4
<1>5. CASE Disconnect
  <2>1. QueueInv' /\ [GivesNext]_queueVars
    BY <1>5, PushAndCloseInv DEF Disconnect
  <2>2. ClientTypeOK' /\ CallsCounted' /\ StateMatchesCredentials'
    BY <1>1, <1>5, <2>1 DEF Disconnect, ClientTypeOK, CallsCounted, StateMatchesCredentials,
                            QueueInv
  <2> QED
    BY <2>1, <2>2
<1>6. CASE SendMessage
  <2>1. QueueInv' /\ [GivesNext]_queueVars
    BY <1>6, PushInv DEF SendMessage
  <2>2. ClientTypeOK' /\ CallsCounted' /\ StateMatchesCredentials'
    BY <1>1, <1>6, <2>1, ClientBounds DEF SendMessage, ClientTypeOK, CallsCounted,
                                          StateMatchesCredentials, QueueInv
  <2> QED
    BY <2>1, <2>2
<1>7. ASSUME NEW c \in Consumers, Consume(c), UNCHANGED clientVars
      PROVE  ClientInv' /\ [GivesNext]_queueVars
  <2>1. QueueInv' /\ [GivesNext]_queueVars
    BY <1>7, ConsumeInv
  <2>2. ClientTypeOK' /\ CallsCounted' /\ StateMatchesCredentials'
    BY <1>1, <1>7, <2>1 DEF clientVars, ClientTypeOK, CallsCounted, StateMatchesCredentials,
                            QueueInv
  <2> QED
    BY <2>1, <2>2
<1>8. CASE UNCHANGED allVars
  <2>1. QueueInv' /\ UNCHANGED queueVars
    BY <1>8 DEF allVars, queueVars, QueueInv, QueueTypeOK, WaitersInv, EventsInv, Waits, Handed
  <2>2. ClientTypeOK' /\ CallsCounted' /\ StateMatchesCredentials'
    BY <1>1, <1>8, <2>1 DEF allVars, clientVars, ClientTypeOK, CallsCounted,
                            StateMatchesCredentials, QueueInv
  <2> QED
    BY <2>1, <2>2
<1> QED
  BY <1>2, <1>3, <1>4, <1>5, <1>6, <1>7, <1>8 DEF ClientNext

\* The specification without its fairness.
LEMMA SafetyOfSpec == ClientSpec => ClientInit /\ [][ClientNext]_allVars
BY PTL DEF ClientSpec

\* The variables keep their types and what the theorems below rest on holds.
THEOREM ClientInvariant == ClientSpec => []ClientInv
<1>1. ClientInv /\ [ClientNext]_allVars => ClientInv'
  BY ClientStepInv
<1> QED
  BY <1>1, ClientInitInv, SafetyOfSpec, PTL

\* No consumer waits for an event that is there, or on a queue that is closed,
\* however push, close and next of any consumers interleave.
THEOREM WakeUpsKept == ClientSpec => []NoLostWakeup
<1>1. ClientInv => NoLostWakeup
  <2> SUFFICES ASSUME ClientInv PROVE NoLostWakeup
    OBVIOUS
  <2>1. DOMAIN waiters = 1..Len(waiters)
    BY QueueTypes DEF ClientInv
  <2>2. \A c : c \in Range(waiters) <=> Waits(c, waiters)
    BY <2>1 DEF Range, Waits
  <2> QED
    BY <2>2 DEF ClientInv, QueueInv, WaitersInv, NoLostWakeup
<1> QED
  BY <1>1, ClientInvariant, PTL

\* However calls of connect overlap, a connected client has registered credentials
\* and an authenticating one has not.
THEOREM StateTellsCredentials == ClientSpec => []StateMatchesCredentials
BY ClientInvariant, PTL DEF ClientInv

\* The consumers of one queue share the events: every event is given to one of
\* them, in the order of the pushes, and the queue holds the rest.
THEOREM EventsSharedInOrder == ClientSpec => ExactlyOnceInOrder
<1>1. ClientInv /\ [ClientNext]_allVars => [GivesNext]_queueVars
  BY ClientStepInv
<1> QED
  BY <1>1, ClientInvariant, SafetyOfSpec, PTL DEF ExactlyOnceInOrder, GivesNext
=============================================================================
