SPECIFICATION FairSpec
CONSTANTS
  Engines = {e1, e2}
  Searches = {s1}
  Prober = prober
  MaxChanges = 2
  MaxFailures = 1
  MaxCrashes = 1
INVARIANTS
  NothingLost
PROPERTIES
  Persisted
