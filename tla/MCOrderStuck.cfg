CONSTANTS
  o1 = o1
  o2 = o2
  w1 = w1
  w2 = w2
  Orders = {o2}
  Workers = {w1}
  NoOrder = NoOrder
  MaxSteps = 2
  PlanLen <- MCPlanLen
  Trained = {}
  DbMayFail = FALSE
  MaxStaff = 0
  MaxCrashes = 0
SPECIFICATION FairSpec
PROPERTY
  FailureReachesReview
CHECK_DEADLOCK FALSE
