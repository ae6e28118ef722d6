SPECIFICATION Spec
CONSTANTS
  None = None
  Accounts = {alice, bob}
  alice = alice
  bob = bob
  Tabs = {t1}
  t1 = t1
  PasskeysPerAccount = 2
  MaxKeys = 2
  RequestsGetLost = FALSE
  RequestsLinger = FALSE
  CookieMoves = TRUE
PROPERTIES
  PasskeyWrapsNeverRunOut
