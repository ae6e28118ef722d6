SPECIFICATION Spec
CONSTANTS
  alice = alice
  bob = bob
  None = None
  Users <- MCUsers
  MaxDay = 2
  MaxRuns = 3
  MaxImports = 1
PROPERTIES
  NoClobber
SYMMETRY MCSymmetry
