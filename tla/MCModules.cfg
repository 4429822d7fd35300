CONSTANTS
  Files <- MCFiles
  Archives <- MCArchives
  Exports <- MCExports
  Memory <- MCMemory
  Word = 64
  Short = 32
  MinSize = 5
  null = null
SPECIFICATION Spec
INVARIANTS Linked OnlyModulesHold
CHECK_DEADLOCK FALSE
