SPECIFICATION Spec
CONSTANTS
  None = None
  Users = {alice, bob}
  alice = alice
  bob = bob
  Pages = {p1, p2}
  p1 = p1
  p2 = p2
  MaxTasks = 1
  EncryptedAlready = {alice}
  SignOutCanFail = TRUE
  KeystoreCanFail = TRUE
INVARIANTS
  EncryptedAccountNeverDisabled
SYMMETRY PageSymmetry
