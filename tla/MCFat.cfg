CONSTANTS
  Volumes <- MCVolumes
  Paths <- MCPaths
  Sizes = {300, 512, 2000}
  MaxU32 = 1073741823
  None = None
SPECIFICATION Spec
INVARIANTS FindsPath ReadsFile ListsDir
PROPERTIES Returns
CHECK_DEADLOCK FALSE
