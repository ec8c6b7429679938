SPECIFICATION Spec
CONSTANTS
  Engines = {e1, e2}
  Searches = {s1}
  Prober = prober
  MaxChanges = 2
  MaxFailures = 0
  MaxCrashes = 0
INVARIANT QuiescentStoreCurrent
