SPECIFICATION Spec
CONSTANT Engines = {e1, e2, e3, e4}
INVARIANTS
  Accounted
PROPERTIES
  FetchEnds
CHECK_DEADLOCK FALSE
