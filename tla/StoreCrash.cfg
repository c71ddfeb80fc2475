SPECIFICATION StoreSpec
CONSTANTS
  Calls = {c1}
  Versions = {v1, v2}
  Stamps = {t1}
  None = None
  Idle = Idle
  Refused = Refused
INVARIANTS LoadNeverRefused
