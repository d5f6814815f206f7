SPECIFICATION EventsSpec
CONSTANTS
  Condition = {k1, k2, d1}
  Detected = {d1}
  Severity = {2, 4}
  Recorder = {r1, r2}
  RowId = {i1, i2}
  NoRow = NoRow
  Idle = Idle
  NoIncident = NoIncident
  MaxNow = 1
  MaxReports = 2
SYMMETRY MCSymmetry
INVARIANTS EventsTypeOK OneOpenPerCondition OccurrencesConserved
PROPERTIES ClosedRowsFrozen ImplementsIncidents
CHECK_DEADLOCK FALSE
