SPECIFICATION Spec
CONSTANTS
  a1 = a1
  pay1 = pay1
  h1 = h1
  h2 = h2
  Accounts = {a1}
  Payments = {pay1}
  Recipient <- MCRecipient
  Credits <- MCCredits
  Amount <- MCAmount
  Handlers = {h1, h2}
  NoEvent = NoEvent
  Spends = {1}
  MaxEvents = 4
  MaxSpends = 1
  MaxFailures = 1
  MaxRequests = 1
INVARIANTS
  TypeOK
  CreditsAccounted
  AnsweredWasApplied
  SettledInOrder
CHECK_DEADLOCK FALSE
