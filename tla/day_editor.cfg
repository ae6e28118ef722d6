SPECIFICATION FairSpec
CONSTANTS
  None = None
  Damaged = Damaged
  Accounts = {a}
  Days = {d1, d2}
  OldDays = {d1}
  a = a
  d1 = d1
  d2 = d2
  MaxActs = 4
  MaxFlight = 3
  RequestsFail = TRUE
  CookieMoves = TRUE
INVARIANTS
  TypeOK
  ShownIsThisDays
  ScreenIsStored
PROPERTIES
  TypedStands
  DaySettles
  DayKeepsSession
CHECK_DEADLOCK FALSE
