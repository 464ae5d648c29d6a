CONSTANTS
  o1 = o1
  o2 = o2
  w1 = w1
  w2 = w2
  Orders = {o2}
  Workers = {w1, w2}
  NoOrder = NoOrder
  MaxSteps = 2
  PlanLen <- MCPlanLen
  Trained = {o2}
  DbMayFail = TRUE
  MaxStaff = 1
  MaxCrashes = 2
SPECIFICATION Spec
SYMMETRY MCSymmetry
INVARIANTS
  TypeOK
  AutomaticAtMostOnce
  NoBlindReplay
  ExclusiveFulfilment
  OutcomesTrue
PROPERTIES
  KeepsLifecycle
CHECK_DEADLOCK FALSE
