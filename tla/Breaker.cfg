SPECIFICATION FairSpec
CONSTANTS
  Requests = {c1, c2}
  Prober = prober
  Policies <- MCPolicies
  AbuseWindow = 6
  TimeoutThreshold = 2
  TimeoutWindow = 3
  MinRest = 3
  StreakCap = 2
  BackoffCap = 2
INVARIANTS
  
  ExclusiveUnlessDisturbed
PROPERTIES
  RestAfterTrip
  Recovery
