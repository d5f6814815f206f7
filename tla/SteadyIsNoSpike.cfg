SPECIFICATION DetectionSpec
CONSTANTS
  t1 = t1
  t2 = t2
  l1 = l1
  l2 = l2
  q1 = q1
  q2 = q2
  Active = {t1, t2}
  Samples <- SteadySamples
  Earlier <- MCEarlier
  Configured <- MCConfigured
  Lookback = 3
  Windows = {4}
  StateWindow = 4
  Warn = 60
  High = 80
  Critical = 95
  Storm = 3
  EcnSpike = 2
  MinSamples = 3
  MinMean = 5
  HourLength = 10
  Late = 1
  MaxLag = 1
  MaxMinute = 4
  MaxRows = 3
  MaxSnapshots = 1
  FailMinutes = {1}
  NoPass = NoPass
INVARIANTS SteadyIsNoSpike
CHECK_DEADLOCK FALSE
