SPECIFICATION Spec
CONSTANTS
  None = None
  Accounts = {alice}
  alice = alice
  Tabs = {t1, t2}
  t1 = t1
  t2 = t2
  PasskeysPerAccount = 2
  MaxKeys = 3
  RequestsGetLost = TRUE
  RequestsLinger = TRUE
  CookieMoves = FALSE
PROPERTIES
  OneDataKeyForEver
SYMMETRY Symmetry
