-------------------------- MODULE AsyncEventQueue --------------------------
(***************************************************************************)
(* AsyncEventQueue of wazeko/src/events.ts: the queue behind the client's   *)
(* events().  push and close come from the client, in one turn of the event *)
(* loop any number of them; next and the iterator from consumers that run   *)
(* concurrently and share the one queue.                                    *)
(*                                                                         *)
(* An event is the number of its push: what it says is left out.  A        *)
(* definition marked "slip" is a mistake that no specification uses: see    *)
(* MessageQueue.                                                            *)
(***************************************************************************)
EXTENDS Integers, Sequences, FiniteSets, Functions

CONSTANTS
  Consumers,  \* who reads the queue
  Iterators   \* those that use for await, the others call next()

ASSUME IteratorsAssumption == Iterators \subseteq Consumers

VARIABLES
  queue,     \* events nobody has asked for yet
  waiters,   \* consumers whose next() is pending, oldest first
  closed,
  at,        \* where a consumer is: in its own code, awaiting next(), past the last event
  pushed,    \* history: the number of events pushed while the queue was open
  last       \* history: the last event each consumer was given

queueVars == <<queue, waiters, closed, at, pushed, last>>

Synthetic == 0   \* the "queue closed" event close() gives to pending waiters

QueueTypeOK ==
  /\ queue \in Seq(1..pushed)
  /\ waiters \in Seq(Consumers)
  /\ closed \in BOOLEAN
  /\ at \in [Consumers -> {"busy", "waiting", "ended"}]
  /\ pushed \in Nat
  /\ last \in [Consumers -> {Synthetic} \cup 1..pushed]

QueueInit ==
  /\ queue = <<>> /\ waiters = <<>> /\ closed = FALSE
  /\ at = [c \in Consumers |-> "busy"]
  /\ pushed = 0
  /\ last = [c \in Consumers |-> Synthetic]

----------------------------------------------------------------------------
\* push and close

Lower(a, b) == IF a < b THEN a ELSE b
Waited(c, n) == c \in {waiters[k] : k \in 1..n}

\* slip: what is left over goes before the events that are there.
BacklogInFront(es, n) == SubSeq(es, n + 1, Len(es)) \o queue

\* The queue when the first n of the events es went to waiters.
Backlog(es, n) == queue \o SubSeq(es, n + 1, Len(es))

\* The events es go to the pending waiters one each, and what is left over into the queue.
Deliver(es) ==
  LET n == Lower(Len(waiters), Len(es)) IN
  /\ waiters' = SubSeq(waiters, n + 1, Len(waiters))
  /\ queue' = Backlog(es, n)
  /\ at' = [c \in Consumers |-> IF Waited(c, n) THEN "busy" ELSE at[c]]
  /\ last' = [c \in Consumers |->
       IF Waited(c, n) THEN es[CHOOSE k \in 1..n : waiters[k] = c] ELSE last[c]]

NewEvents(n) == [k \in 1..n |-> pushed + k]

\* n calls of push in one turn: a closed queue ignores them.
Push(n) ==
  \/ closed /\ UNCHANGED queueVars
  \/ ~closed /\ Deliver(NewEvents(n)) /\ pushed' = pushed + n /\ UNCHANGED closed

\* slip: close() forgets the waiters.
PushAndCloseOnly(n) ==
  /\ IF closed THEN UNCHANGED <<queue, waiters, at, last, pushed>>
     ELSE Deliver(NewEvents(n)) /\ pushed' = pushed + n
  /\ closed' = TRUE

\* n calls of push and then close(): each waiter that is left gets the synthetic event.
PushAndClose(n) ==
  LET real == IF closed THEN 0 ELSE n
      left == Len(waiters) - real
  IN  /\ Deliver(NewEvents(real) \o [k \in 1..left |-> Synthetic])
      /\ pushed' = pushed + real
      /\ closed' = TRUE

----------------------------------------------------------------------------
\* next and the iterator

\* slip: a closed queue hands out nothing more.
TakeFirstWhileOpen(c) ==
  /\ queue # <<>> /\ ~closed
  /\ last' = [last EXCEPT ![c] = Head(queue)]
  /\ queue' = Tail(queue)
  /\ UNCHANGED <<waiters, closed, at, pushed>>

TakeFirst(c) ==
  /\ queue # <<>>
  /\ last' = [last EXCEPT ![c] = Head(queue)]
  /\ queue' = Tail(queue)
  /\ UNCHANGED <<waiters, closed, at, pushed>>

End(c) ==
  /\ at' = [at EXCEPT ![c] = "ended"]
  /\ UNCHANGED <<queue, waiters, closed, pushed, last>>

Wait(c) ==
  /\ waiters' = Append(waiters, c)
  /\ at' = [at EXCEPT ![c] = "waiting"]
  /\ UNCHANGED <<queue, closed, pushed, last>>

\* slip: next() of a closed queue waits like that of an open one.
NextWaitsForEver(c) == TakeFirst(c) \/ (queue = <<>> /\ Wait(c))

\* next(): the oldest event, null from a closed queue, or a promise.
Next(c) ==
  \/ TakeFirst(c)
  \/ queue = <<>> /\ closed /\ End(c)
  \/ queue = <<>> /\ ~closed /\ Wait(c)

\* One turn of the generator: it ends as soon as the queue is closed, whatever
\* the queue still holds.
Iterate(c) == IF closed THEN End(c) ELSE Next(c)

Consume(c) ==
  /\ at[c] = "busy"
  /\ IF c \in Iterators THEN Iterate(c) ELSE Next(c)

----------------------------------------------------------------------------
\* Properties.

Handed == pushed - Len(queue)
GivenNow == {c \in Consumers : last'[c] # last[c] /\ last'[c] # Synthetic}

\* Consumers share the events: each step gives the next events, in the order in
\* which they were pushed and each to one consumer; the queue holds the rest.
ExactlyOnceInOrder ==
  [][/\ queue' = [k \in 1..Len(queue') |-> Handed' + k]
     /\ {last'[c] : c \in GivenNow} = Handed + 1..Handed'
     /\ Cardinality(GivenNow) = Handed' - Handed]_queueVars

\* No consumer waits for an event that is there, or on a queue that is closed: no
\* order of push, next and close loses a wake-up.
NoLostWakeup ==
  /\ waiters # <<>> => queue = <<>> /\ ~closed
  /\ \A c \in Consumers : at[c] = "waiting" <=> c \in Range(waiters)

\* Once the queue is closed every consumer comes to its end.
ConsumersEnd == \A c \in Consumers : closed ~> at[c] = "ended"

\* A consumer that calls next() until it returns null is given everything that was
\* pushed before the queue was closed.
DrainedAfterClose == Consumers # Iterators => (closed ~> queue = <<>>)
=============================================================================
