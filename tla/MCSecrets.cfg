SPECIFICATION SecretsSpec
CONSTANTS
  Refs = {r1, r2}
  Procs = {p1, p2}
  Values = {v1, v2}
  MaxVersion = 3
  MaxStores = 4
  None = None
INVARIANTS LabelTrue Recoverable RewrapSucceeds
CHECK_DEADLOCK FALSE
