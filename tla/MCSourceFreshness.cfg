SPECIFICATION FairFreshSpec
CONSTANTS
  s1 = s1
  s2 = s2
  Source = {s1, s2}
  Reporting = {s1, s2}
  Threshold <- MCThreshold
  Multiplier = 2
  Never = Never
  Idle = Idle
  MaxNow = 2
  MaxFailures = 2
INVARIANTS FreshTypeOK
PROPERTIES AlarmsExplained WrongStatusExplained ScanRepairs SilentMarkHasEvent StatusRepaired SilenceNoticed
CHECK_DEADLOCK FALSE
