SPECIFICATION ConnectionSpec
CONSTANTS
  Consumers = {i1, i2, n1}
  Iterators = {i1, i2}
  MaxConnects = 2
  MaxSends = 1
  MaxSockets = 3
  Intervals = {2, 5}
  Multipliers = {2}
  RetryLimits = {0, 2}
  Unlimited = Unlimited
  MaxDelays = 3
INVARIANTS NoLostWakeup StateMatchesCredentials OutcomeOfOwnSocket FlagTellsTruth BackoffAsConfigured
PROPERTIES ExactlyOnceInOrder ConsumersEnd DrainedAfterClose ConnectingEnds ConnectsSettle
