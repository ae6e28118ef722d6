SPECIFICATION Spec
CONSTANTS
  None = None
  Emails = {alice, bob}
  alice = alice
  bob = bob
  Browsers = {b1, b2}
  b1 = b1
  b2 = b2
  Tabs = {t1, t2}
  t1 = t1
  t2 = t2
  Home <- MCHome
  Creds = {c1}
  c1 = c1
  MaxLinks = 2
  MaxRowId = 1
  MaxEpoch = 1
INVARIANTS
  FiledUnderItsMaker
PROPERTIES
  OneSignInPerLink
  OutEverywhereIsEverywhere
  RevokedForGood
  SessionsAreKept
SYMMETRY MCSymmetry
