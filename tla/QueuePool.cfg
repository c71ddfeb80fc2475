SPECIFICATION Spec
CONSTANTS
  MaxJobs = 3
  maxConcurrency = 2
  MaxRetryLimit = 1
  FaultyEvents = {}
INVARIANTS JobsPlaced OutcomeTruthful StatsConserve WorkConserving
