SPECIFICATION LimiterSpec
CONSTANTS
  Callers = {c1, c2}
  MaxPerWindow = 2
  Window = 5
  NormalJitter = {2}
  HighJitter = {1}
INVARIANTS QuotaRespected
