SPECIFICATION DetectionSpec
CONSTANTS
  t1 = t1
  t2 = t2
  l1 = l1
  l2 = l2
  q1 = q1
  q2 = q2
  Active = {t1, t2}
  Samples <- MCSamples
  Earlier <- MCEarlier
  Configured <- MCConfigured
  Lookback = 3
  Windows = {2, 4}
  StateWindow = 4
  Warn = 60
  High = 80
  Critical = 95
  Storm = 3
  EcnSpike = 2
  MinSamples = 2
  MinMean = 5
  HourLength = 3
  Late = 1
  MaxLag = 1
  MaxMinute = 3
  MaxRows = 2
  MaxSnapshots = 1
  FailMinutes = {1}
  NoPass = NoPass
INVARIANTS DetectionTypeOK BurstReported OwnEvidence RdmaAgrees LoneLoadIsImbalance
CHECK_DEADLOCK FALSE
