---------------------------- MODULE MessageQueue ----------------------------
(***************************************************************************)
(* The priority message queue of wazeko/src/queue/message-queue.ts.        *)
(*                                                                         *)
(* JavaScript runs one callback at a time, so an action is the code between *)
(* two points at which processJob or its caller gives up control: an await, *)
(* the return of a public method, or the .finally callback, which runs in a *)
(* later microtask than the end of processJob.  Between any two of them the *)
(* application may call enqueue, pause, start or clear.                     *)
(*                                                                         *)
(* A job is the number of its enqueue call: the order in which jobs were    *)
(* created.  The fields nothing reads (id, to, content, timeoutMs) are left *)
(* out, and processingCount, which the code changes on the lines next to    *)
(* those that change runningWorkers and by the same amount, is read from    *)
(* that variable.                                                           *)
(*                                                                         *)
(* A definition marked "slip" is a plausible mistake in the definition that *)
(* follows it.  No specification uses it: with it in the place of that      *)
(* definition a property fails, which shows that the property can fail.     *)
(***************************************************************************)
EXTENDS Integers, Sequences, FiniteSets, Functions

CONSTANTS
  MaxJobs,         \* bound: how many times enqueue is called
  maxConcurrency,  \* options.concurrency, 1 by default
  MaxRetryLimit,   \* bound: the largest options.maxRetries a caller passes
  FaultyEvents     \* the events for which the application has a listener that may throw

ASSUME BoundsAssumption == MaxJobs \in Nat /\ MaxRetryLimit \in Nat
ASSUME ConcurrencyAssumption == maxConcurrency \in Nat \ {0}
ASSUME ListenersAssumption == FaultyEvents \subseteq {"job:enqueued", "job:completed"}

Jobs == 1..MaxJobs
Priorities == {"HIGH", "NORMAL", "LOW"}

VARIABLES
  queue,           \* highQueue, normalQueue and lowQueue, by priority
  runningWorkers,  \* slots in use (and processingCount)
  isProcessing,    \* started or paused
  completedCount, failedCount,
  created,         \* number of enqueue calls so far
  priority, maxRetries, retryCount, status, promise,  \* fields of the jobs
  worker,          \* the await at which processJob(job) is suspended
  exiting,         \* calls of processJob that returned, .finally not yet run
  attempts,        \* history: calls of processJob per job
  delivered,       \* history: calls of sendMessage that succeeded per job
  cleared          \* history: jobs that clear() dropped

jobOptions == <<created, priority, maxRetries>>
pool == <<queue, runningWorkers, worker, status, attempts>>
outcome == <<retryCount, promise, completedCount, failedCount, delivered>>
vars == <<pool, isProcessing, jobOptions, outcome, exiting, cleared>>

Queued == UNION {Range(queue[p]) : p \in Priorities}
PendingCount == Len(queue["HIGH"]) + Len(queue["NORMAL"]) + Len(queue["LOW"])
Active == {j \in Jobs : worker[j] # "idle"}

----------------------------------------------------------------------------

TypeOK ==
  /\ queue \in [Priorities -> Seq(Jobs)]
  /\ runningWorkers \in Int
  /\ isProcessing \in BOOLEAN
  /\ completedCount \in Nat /\ failedCount \in Nat
  /\ created \in 0..MaxJobs
  /\ priority \in [Jobs -> Priorities]
  /\ maxRetries \in [Jobs -> 0..MaxRetryLimit]
  /\ retryCount \in [Jobs -> 0..(MaxRetryLimit + 1)]
  /\ status \in [Jobs -> {"unborn", "pending", "processing", "completed", "failed"}]
  /\ promise \in [Jobs -> {"open", "resolved", "rejected"}]
  /\ worker \in [Jobs -> {"idle", "acquiring", "sending", "backoff"}]
  /\ exiting \in Nat
  /\ attempts \in [Jobs -> Nat]
  /\ delivered \in [Jobs -> Nat]
  /\ cleared \subseteq Jobs

Init ==
  /\ queue = [p \in Priorities |-> <<>>]
  /\ runningWorkers = 0
  /\ isProcessing \in BOOLEAN          \* options.autoStart
  /\ completedCount = 0 /\ failedCount = 0
  /\ created = 0
  /\ priority = [j \in Jobs |-> "NORMAL"]
  /\ maxRetries = [j \in Jobs |-> 0]
  /\ retryCount = [j \in Jobs |-> 0]
  /\ status = [j \in Jobs |-> "unborn"]
  /\ promise = [j \in Jobs |-> "open"]
  /\ worker = [j \in Jobs |-> "idle"]
  /\ exiting = 0
  /\ attempts = [j \in Jobs |-> 0]
  /\ delivered = [j \in Jobs |-> 0]
  /\ cleared = {}

----------------------------------------------------------------------------
\* triggerProcessing: the loop over getNextJob, which runs to its end in one turn.

\* Jobs that getNextJob serves before the first one of priority p.
Ahead(q, p) == CASE p = "HIGH"   -> 0
                 [] p = "NORMAL" -> Len(q["HIGH"])
                 [] p = "LOW"    -> Len(q["HIGH"]) + Len(q["NORMAL"])

\* How many jobs of priority p the loop shifts when it has `free' slots.
Taken(q, free, p) ==
  LET left == free - Ahead(q, p)
  IN  IF left <= 0 THEN 0 ELSE IF left < Len(q[p]) THEN left ELSE Len(q[p])

Picked(q, free) == UNION {{q[p][k] : k \in 1..Taken(q, free, p)} : p \in Priorities}

\* slip: the loop runs while runningWorkers <= maxConcurrency.
FreeSlotsOneMore(on, running) == IF on THEN maxConcurrency - running + 1 ELSE 0

\* The slots the loop may fill: none at all while the queue is paused.
FreeSlots(on, running) == IF on THEN maxConcurrency - running ELSE 0

TriggerProcessing(on, q, running, wrk, sts) ==
  LET free == FreeSlots(on, running)
      jobs == Picked(q, free)
  IN  /\ queue' = [p \in Priorities |-> SubSeq(q[p], Taken(q, free, p) + 1, Len(q[p]))]
      /\ runningWorkers' = running + Taken(q, free, "HIGH") + Taken(q, free, "NORMAL")
                                   + Taken(q, free, "LOW")
      /\ worker' = [j \in Jobs |-> IF j \in jobs THEN "acquiring" ELSE wrk[j]]
      /\ status' = [j \in Jobs |-> IF j \in jobs THEN "processing" ELSE sts[j]]
      /\ attempts' = [j \in Jobs |-> IF j \in jobs THEN attempts[j] + 1 ELSE attempts[j]]

----------------------------------------------------------------------------
\* The methods the application calls.

\* A new job at the back of the queue of its priority.
PushJob(p, m) ==
  /\ created < MaxJobs
  /\ created' = created + 1
  /\ priority' = [priority EXCEPT ![created + 1] = p]
  /\ maxRetries' = [maxRetries EXCEPT ![created + 1] = m]

Pushed(p) == [queue EXCEPT ![p] = Append(@, created + 1)]
Pending == [status EXCEPT ![created + 1] = "pending"]

Enqueue(p, m) ==
  /\ PushJob(p, m)
  /\ TriggerProcessing(isProcessing, Pushed(p), runningWorkers, worker, Pending)
  /\ UNCHANGED <<isProcessing, outcome, exiting, cleared>>

\* A throw from emit("job:enqueued") leaves the executor of the promise, which
\* is rejected: the job stays queued and the queue is not triggered.
EnqueuedListenerThrows(p, m) ==
  /\ "job:enqueued" \in FaultyEvents
  /\ PushJob(p, m)
  /\ queue' = Pushed(p)
  /\ status' = Pending
  /\ promise' = [promise EXCEPT ![created + 1] = "rejected"]
  /\ UNCHANGED <<runningWorkers, worker, attempts, isProcessing, retryCount,
                 completedCount, failedCount, delivered, exiting, cleared>>

\* slip: start() only sets the flag.
StartOnly == isProcessing' = TRUE /\ UNCHANGED <<pool, jobOptions, outcome, exiting, cleared>>

Start ==
  /\ isProcessing' = TRUE
  /\ TriggerProcessing(TRUE, queue, runningWorkers, worker, status)
  /\ UNCHANGED <<jobOptions, outcome, exiting, cleared>>

Pause ==
  /\ isProcessing' = FALSE
  /\ UNCHANGED <<pool, jobOptions, outcome, exiting, cleared>>

\* The queued jobs are dropped; their promises are neither resolved nor rejected.
Clear ==
  /\ queue' = [p \in Priorities |-> <<>>]
  /\ cleared' = cleared \cup Queued
  /\ UNCHANGED <<runningWorkers, worker, status, attempts, isProcessing,
                 jobOptions, outcome, exiting>>

----------------------------------------------------------------------------
\* The steps of processJob(j), from one await to the next.

\* rateLimiter.acquire resolves and sendMessage is called.
AcquireDone(j) ==
  /\ worker[j] = "acquiring"
  /\ worker' = [worker EXCEPT ![j] = "sending"]
  /\ UNCHANGED <<queue, runningWorkers, status, attempts, isProcessing,
                 jobOptions, outcome, exiting, cleared>>

\* resolve and reject have no effect on a promise that is settled.
Settle(j, how) == [promise EXCEPT ![j] = IF @ = "open" THEN how ELSE @]

SendOk(j) ==
  /\ worker[j] = "sending"
  /\ delivered' = [delivered EXCEPT ![j] = @ + 1]
  /\ status' = [status EXCEPT ![j] = "completed"]
  /\ completedCount' = completedCount + 1
  /\ promise' = Settle(j, "resolved")
  /\ worker' = [worker EXCEPT ![j] = "idle"]
  /\ exiting' = exiting + 1
  /\ UNCHANGED <<queue, runningWorkers, attempts, isProcessing, jobOptions,
                 retryCount, failedCount, cleared>>

\* The catch block, entered with the statuses sts: sleep before another attempt,
\* or give the job up.
\* slips: one attempt too many, one too few.
CanRetryOnceMore(j) == retryCount[j] <= maxRetries[j]
CanRetryOnceLess(j) == retryCount[j] + 1 < maxRetries[j]
CanRetry(j) == retryCount[j] + 1 <= maxRetries[j]

SleepBeforeRetry(j, sts) ==
  /\ CanRetry(j)
  /\ worker' = [worker EXCEPT ![j] = "backoff"]
  /\ status' = sts
  /\ UNCHANGED <<failedCount, promise, exiting>>

GiveUp(j, sts) ==
  /\ ~CanRetry(j)
  /\ worker' = [worker EXCEPT ![j] = "idle"]
  /\ status' = [sts EXCEPT ![j] = "failed"]
  /\ failedCount' = failedCount + 1
  /\ promise' = Settle(j, "rejected")
  /\ exiting' = exiting + 1

HandleError(j, sts) ==
  /\ retryCount' = [retryCount EXCEPT ![j] = @ + 1]
  /\ SleepBeforeRetry(j, sts) \/ GiveUp(j, sts)
  /\ UNCHANGED <<queue, runningWorkers, attempts, isProcessing, jobOptions, cleared>>

SendFail(j) ==
  /\ worker[j] = "sending"
  /\ HandleError(j, status)
  /\ UNCHANGED <<completedCount, delivered>>

\* emit("job:completed") is inside the try: a listener that throws sends a job
\* that was delivered and counted through the catch block.
CompletedListenerThrows(j) ==
  /\ "job:completed" \in FaultyEvents
  /\ worker[j] = "sending"
  /\ delivered' = [delivered EXCEPT ![j] = @ + 1]
  /\ completedCount' = completedCount + 1
  /\ HandleError(j, [status EXCEPT ![j] = "completed"])

\* slips: the job goes to the back, to normalQueue, nowhere.
RequeuedBack(j) == [queue EXCEPT ![priority[j]] = Append(@, j)]
RequeuedNormal(j) == [queue EXCEPT !["NORMAL"] = <<j>> \o @]
RequeuedNowhere(j) == queue

\* The backoff timer fires: the job goes to the front of its queue and
\* processJob returns.
Requeued(j) == [queue EXCEPT ![priority[j]] = <<j>> \o @]

BackoffDone(j) ==
  /\ worker[j] = "backoff"
  /\ queue' = Requeued(j)
  /\ worker' = [worker EXCEPT ![j] = "idle"]
  /\ exiting' = exiting + 1
  /\ UNCHANGED <<runningWorkers, status, attempts, isProcessing, jobOptions,
                 outcome, cleared>>

\* The .finally callback of a call of processJob that has returned.
Finally ==
  /\ exiting > 0
  /\ exiting' = exiting - 1
  /\ TriggerProcessing(isProcessing, queue, runningWorkers - 1, worker, status)
  /\ UNCHANGED <<isProcessing, jobOptions, outcome, cleared>>

----------------------------------------------------------------------------

Application ==
  \/ \E p \in Priorities, m \in 0..MaxRetryLimit :
       Enqueue(p, m) \/ EnqueuedListenerThrows(p, m)
  \/ Start \/ Pause \/ Clear

ProcessJob(j) ==
  \/ AcquireDone(j) \/ SendOk(j) \/ SendFail(j) \/ CompletedListenerThrows(j)
  \/ BackoffDone(j)

Next == Application \/ Finally \/ \E j \in Jobs : ProcessJob(j)

Spec == Init /\ [][Next]_vars

\* The event loop runs every timer and microtask, and every send settles.
Fairness == WF_vars(Finally) /\ \A j \in Jobs : WF_vars(ProcessJob(j))

FairSpec == Spec /\ Fairness

----------------------------------------------------------------------------
\* Properties.

\* The slots in use are exactly the suspended calls of processJob and those
\* whose .finally is due, and there are never more than concurrency: no path
\* through the code loses a slot, frees one twice or overfills the pool.
WorkerAccounting ==
  /\ runningWorkers = Cardinality(Active) + exiting
  /\ runningWorkers <= maxConcurrency

\* A job is in one place: once in the queue of its priority, or in a worker, or
\* neither.  In particular it is never run by two workers and never queued twice.
OnePlace ==
  /\ \A p \in Priorities : IsInjective(queue[p])
  /\ \A p \in Priorities : \A j \in Range(queue[p]) :
       priority[j] = p /\ worker[j] = "idle" /\ j <= created

\* A job that was enqueued is in the queue, in a worker, or over, unless clear()
\* dropped it: no interleaving of retries, pauses and listeners that throw loses one.
NothingLost ==
  \A j \in 1..created :
    j \in Queued \/ j \in Active \/ j \in cleared \/ status[j] \in {"completed", "failed"}

\* Every job that was enqueued has exactly one place, or is over.
JobsPlaced == OnePlace /\ NothingLost

\* However sends fail and listeners throw, a job is tried at most maxRetries + 1
\* times, counted across its trips through the queue.
RetryBudget == \A j \in Jobs : attempts[j] <= maxRetries[j] + 1 /\ delivered[j] <= attempts[j]

\* The promise enqueue returned tells what happened: resolved means sent exactly
\* once, rejected means never sent and every attempt used.
OutcomeTruthful ==
  \A j \in Jobs :
    /\ delivered[j] = IF promise[j] = "resolved" THEN 1 ELSE 0
    /\ promise[j] = "rejected" => attempts[j] = maxRetries[j] + 1

\* getStats accounts for every job: a job whose processJob has returned and
\* whose .finally has not run is counted twice, and no other one is.
StatsConserve ==
  PendingCount + runningWorkers + completedCount + failedCount
  = created - Cardinality(cleared) + exiting

\* A started queue leaves no slot idle while a job waits, once the .finally
\* callbacks that are due have run: every path that makes work or a slot
\* available is followed by triggerProcessing.
WorkConserving ==
  isProcessing /\ Queued # {} /\ exiting = 0 => runningWorkers = maxConcurrency

\* With one slot, jobs of one priority start in the order of their enqueue
\* calls: none starts before every earlier one is over, its retries included.
SerialFifo ==
  \A i, j \in 1..created :
    i < j /\ priority[i] = priority[j] /\ i \in Queued \cup Active => attempts[j] = 0

Settled(j) == promise[j] # "open"

\* If the application does not leave the queue paused for ever, the promise of
\* every job is settled in the end, unless clear() dropped the job.
EventuallySettled ==
  []<>isProcessing => \A j \in Jobs : (j <= created) ~> (Settled(j) \/ j \in cleared)

=============================================================================
