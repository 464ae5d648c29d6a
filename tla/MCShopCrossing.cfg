SPECIFICATION Spec
CONSTANTS
  a1 = a1
  a2 = a2
  p1 = p1
  p2 = p2
  c1 = c1
  b1 = b1
  b2 = b2
  b3 = b3
  NoCoupon = NoCoupon
  Accounts = {a1, a2}
  Products = {p1, p2}
  Coupons = {c1}
  Buys = {b1, b2, b3}
  Request <- MCCrossing
  ProductForms <- MCForms
  Terms <- MCTerms
  Opening <- MCOpening
  Deltas <- MCDeltas
  Grants = {2}
  Conns = 4
  MaxStaff = 1
INVARIANTS
  TypeOK
  Balanced
PROPERTY PurchasesEnd
CHECK_DEADLOCK FALSE
