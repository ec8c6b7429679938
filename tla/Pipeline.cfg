SPECIFICATION Spec
CONSTANTS
  Engines = {1, 2}
  Parts <- MCParts
  Weight <- MCWeight
  RrfK = 2
  Scale = 12
  CollapseAfter = 1
  Requests = {r1, r2}
  Streams = {r1}
  Asks <- MCAsks
  NoPin = NoPin
  Pages <- MCPages
  TTL = 1
  DegradedTTL = 0
  Grace = 1
  ThresholdNum = 1
  ThresholdDen = 3
  RecordHistory = TRUE
  EndOfTime = 1
  MaxFetches = 2
  Failed = Failed
  Uncalled = Uncalled
  None = None
INVARIANTS
  
  MergeIgnoresArrival
  EndsOnce
CHECK_DEADLOCK FALSE
