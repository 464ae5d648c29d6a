SPECIFICATION Spec
CONSTANTS
  a1 = a1
  a2 = a2
  site = site
  code = code
  mission = mission
  milestone = milestone
  campaign = campaign
  e1 = e1
  e2 = e2
  n1 = n1
  None = None
  r1 = r1
  r2 = r2
  r3 = r3
  Accounts = {a1, a2}
  Targets = {site, code, mission, milestone, campaign}
  Events = {e1, e2}
  Nets = {n1}
  Calls <- MCCalls
  Requests = {r1, r2, r3}
  Cooldown = 2
  MaxUses <- MCMaxUses
  Expires <- MCExpires
  Recruits <- MCMaxUses
  Goal <- MCMaxUses
  Cycle <- MCCycle
  StreakRows = 1
  Starts = 0
  Ends = 2
  MinVotes = 1
  WinnerCount = 1
  Ticket <- MCTicket
  RecruitCredits = 9
  DayLength = 1
  MonthLength = 2
  Conns = 4
  MaxNow = 2
  MaxRecruits = 1
  MaxDisabled = 1
  Switched = {site, code}
INVARIANTS
  TypeOK
  Accounted
  GiftUsesCounted
  CooldownKept
  StreakPaid
  DrawHonest
PROPERTIES
  AnswersStand
  ClaimsEnd
CHECK_DEADLOCK FALSE
