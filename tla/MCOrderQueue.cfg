CONSTANTS
  o1 = o1
  o2 = o2
  w1 = w1
  w2 = w2
  Orders = {o1, o2}
  Workers = {w1}
  NoOrder = NoOrder
  MaxSteps = 1
  PlanLen <- MCShortPlan
  Trained = {o2}
  DbMayFail = TRUE
  MaxStaff = 1
  MaxCrashes = 1
SPECIFICATION FairSpec
PROPERTIES
  QueueServed
CHECK_DEADLOCK FALSE
