SPECIFICATION Spec
CONSTANTS
  p1 = p1
  p2 = p2
  p3 = p3
  None = None
  Procs = {p1, p2, p3}
  Mode <- MCMode
  Services <- MCServices
  Sets <- MCSets
  Bare = {"race"}
  Unresolved = {"missing"}
  MaxCrashes = 1
  MaxLosses = 1
INVARIANTS
  TypeOK
  LedgerTrue
  ServesCurrent
PROPERTY
  ComesToAnEnd
CHECK_DEADLOCK FALSE
