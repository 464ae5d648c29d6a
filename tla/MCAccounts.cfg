SPECIFICATION Spec
CONSTANTS
  r1 = r1
  r2 = r2
  None = None
  Names = {"first", "second"}
  Linked = {"first", "second"}
  Requests = {r1, r2}
  Sessions = {"s1"}
  Addresses = {"home", "work"}
  Home <- MCHome
  Verified = TRUE
  MaxChanges <- MCMaxChanges
  MaxIssued = 1
  MaxLetters = 2
SYMMETRY Symmetry
INVARIANTS
  TypeOK
  SessionsHonest
  RecoveryCodeOnce
  EmailProven
  SetupOnce
CONSTRAINT Focused
