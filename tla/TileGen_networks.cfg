\* Pairs and triples of layers on four small cores, products with vectors on a fifth one.
CONSTANTS
  BOUNDARY = 10
  Archs <- MCArchs
  Networks <- MCNetworks
  CycleRange = 256
  Indeterminate = {0, 5}
SPECIFICATION Spec
INVARIANTS GemmTiles OfmapFresh NothingLost TileFits CyclesReadBack
