SPECIFICATION Spec
CONSTANTS
  a1 = a1
  pay1 = pay1
  h1 = h1
  h2 = h2
  Accounts = {a1}
  Payments = {pay1}
  Recipient <- MCRecipient
  Credits <- MCCredits
  Amount <- MCAmount
  Handlers = {h1}
  NoEvent = NoEvent
  Spends = {1}
  MaxEvents = 4
  MaxSpends = 0
  MaxFailures = 0
  MaxRequests = 0
INVARIANT WonRestoresHeld
CHECK_DEADLOCK FALSE
