SPECIFICATION PortalSpec
CONSTANTS
  p1 = p1
  p2 = p2
  w1 = w1
  w2 = w2
  None = None
  Parts = {"events", "identities", "agent", "ingest", "tickets", "requests", "moderation"}
  Players = {p1, p2}
  Handlers = {w1, w2}
  Limits = {0, 1}
  Prizes = {0, 2}
  Names = {p1, p2}
  Sessions = {"s1"}
  Requests = {w1, w2}
  Users = {"u1", "u2"}
  Keys = {"k1"}
  MaxIdentities = 2
  MaxTickets = 2
  MaxCount = 2
  Calls = {w1, w2}
  Settings = {"xp"}
  Lines = {"kill", "quest"}
  KeysOf <- MCKeysOf
  Values = {1, 2}
  Results = {"kill", "pug", "battleground", "flawed"}
  Kind <- MCKind
  Flawed = {"flawed"}
  Nameless = {"pug"}
  Default = {"kill", "pug"}
  Workers = {w1, w2}
  Cases = {"c1"}
  Agents = {w1, w2}
  MaxReplies = 2
  Forms = {p1, p2}
  Subjects = {"transfer", "privacy", "application"}
  KindOf <- MCKindOf
  Clerks = {w1, w2}
  Entries = {p1, p2}
  Targets = {"t1", "t2"}
  Moderators = {w1, w2}
SYMMETRY Symmetry
CONSTRAINT Focused
INVARIANTS
  AllTypesOK
  EventsKept
  IdentitiesKept
  RecordsTrue
PROPERTIES
  StepsKept
CHECK_DEADLOCK FALSE
