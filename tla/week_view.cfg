SPECIFICATION FairWeekSpec
CONSTANTS
  None = None
  Parked = Parked
  Loads = {l1, l2, l3}
  l1 = l1
  l2 = l2
  l3 = l3
  MaxToken = 5
  Accounts = {alice, bob}
  alice = alice
  bob = bob
  Days = {1, 2}
  OldWeeks <- Weeks
  MaxActs = 2
  RequestsFail = TRUE
INVARIANTS
  TotalsAreStored
  LightWeekIsDoubted
PROPERTIES
  OnlyTheNewestPublishes
  WeekSettles
  WeekKeepsSession
  SealedReportIsDormant
CHECK_DEADLOCK FALSE
