SPECIFICATION Spec
CONSTANTS
  alice = alice
  bob = bob
  None = None
  Users <- MCUsers
  MaxDay = 2
  MaxRuns = 4
  MaxImports = 1
INVARIANTS
  OfferIsForItsUser
  SettledIsSafe
PROPERTIES
  ListedRowsStay
SYMMETRY MCSymmetry
