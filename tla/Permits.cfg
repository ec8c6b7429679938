SPECIFICATION PermitsFairSpec
CONSTANTS
  Flights = {f1, f2, f3}
  Primary = 2
  Deferred = 1
  Id <- DistinctIds
  Capacity = 1
INVARIANTS
  
  NoCircularWait
PROPERTY WaitsEnd
