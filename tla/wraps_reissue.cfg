SPECIFICATION Spec
CONSTANTS
  None = None
  Accounts = {alice}
  alice = alice
  Tabs = {t1}
  t1 = t1
  PasskeysPerAccount = 2
  MaxKeys = 4
  RequestsGetLost = TRUE
  RequestsLinger = FALSE
  CookieMoves = FALSE
INVARIANTS
  HeldKeyOpens
