SPECIFICATION FairFreshSpec
CONSTANTS
  s1 = s1
  s2 = s2
  Source = {s1, s2}
  Reporting = {}
  Threshold <- MCThreshold
  Multiplier = 2
  Never = Never
  Idle = Idle
  MaxNow = 3
  MaxFailures = 2
PROPERTY SilenceNoticed
CHECK_DEADLOCK FALSE
