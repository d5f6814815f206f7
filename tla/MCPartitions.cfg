SPECIFICATION PartitionsSpec
CONSTANTS
  Tables = {"flow", "util", "queue"}
  First = "flow"
  MonthStart <- MCMonthStart
  Forward = 2
  Cycles = {"sflow", "gnmi"}
  Writes <- MCWrites
  FirstDay = 0
  LastDay = 6
  MaxLate = 1
  MaxRows = 3
  MaxStops = 2
  None = None
INVARIANTS PartTypeOK
  
CHECK_DEADLOCK FALSE
