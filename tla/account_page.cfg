SPECIFICATION Spec
CONSTANTS
  laptop = laptop
  fob = fob
  None = None
  Creds <- MCCreds
  Capable <- MCCapable
  MaxRowId = 2
  MaxStarted = 3
INVARIANTS
  OneCeremony
  OwedKeyIsUp
  RefusalIsTrue
  OverviewIsCurrent
PROPERTIES
  EnabledKeyWasSaved
