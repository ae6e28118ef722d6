SPECIFICATION FairSpec
CONSTANTS
  None = None
  Users = {alice, bob}
  alice = alice
  bob = bob
  Pages = {p1}
  p1 = p1
  MaxTasks = 2
  EncryptedAlready = {}
  SignOutCanFail = TRUE
  KeystoreCanFail = TRUE
INVARIANTS
  TypeOK
  LockedMeansEncrypted
  KeyIsOfPageUser
PROPERTIES
  OnlyRefusalStrands
  PagesKeepSession
  UnknownResolves
