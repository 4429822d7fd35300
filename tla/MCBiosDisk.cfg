CONSTANTS
  Lists <- MCLists
  Memory <- MCMemory
  Stale = Stale
  MaxBlocks = 3
  MaxReqs = 2
  DiskBlocks = 9
SPECIFICATION Spec
INVARIANTS BatchFits CallerRequestsKept
PROPERTIES KeepsService AlwaysAnswers
