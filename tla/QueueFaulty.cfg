SPECIFICATION Spec
CONSTANTS
  MaxJobs = 2
  maxConcurrency = 2
  MaxRetryLimit = 2
  FaultyEvents = {"job:enqueued", "job:completed"}
INVARIANTS WorkerAccounting
  RetryBudget

