SPECIFICATION ReconnectSpec
CONSTANTS
  Intervals = {2, 5}
  Multipliers = {2}
  RetryLimits = {0, 2}
  Unlimited = Unlimited
  MaxDelays = 3
INVARIANT DelaysJittered
