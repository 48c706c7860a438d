\* FilterApart does not hold.
CONSTANTS
  BOUNDARY = 10
  Archs <- MCArchs
  Networks <- MCNetworks
  CycleRange = 256
  Indeterminate = {0, 5}
SPECIFICATION Spec
INVARIANTS FilterApart
