SPECIFICATION PermitsSpec
CONSTANTS
  Flights = {f1, f2, f3}
  Primary = 2
  Deferred = 0
  Id <- SharedId
  Capacity = 3
INVARIANT NoCircularWait
