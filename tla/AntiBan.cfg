SPECIFICATION AntiBanSpec
CONSTANTS
  MaxJobs = 2
  maxConcurrency = 1
  MaxRetryLimit = 1
  FaultyEvents = {}
  MaxPerWindow = 2
  Window = 4
  NormalJitter = {2}
  HighJitter = {1}
INVARIANTS SerialFifo SendsWithinQuota SendsSpaced
PROPERTIES EventuallySettled
