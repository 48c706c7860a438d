\* Three NPUs with a page each, in every arrangement.
CONSTANTS
  NPUNum = 3
  Share = 1
  PageSize = 2
  Arrangements <- MCArrangements
  Geometries <- MCGeometries
  TLBSets = {1, 2, 3}
  Units = {1, 2}
  Unsigned = 256
SPECIFICATION Spec
INVARIANTS FreeListExact MappedOnce Isolated CallbackAddress ModulePrivate TagExact RequestTranslated
