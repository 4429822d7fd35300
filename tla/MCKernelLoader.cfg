CONSTANTS
  Files <- MCFiles
  Args <- MCArgs
  Blocks = {1, 2, 3, 4, 5, 6, 7}
  IntMax = 5
  MaxUsize = 12
  Meg = 5
  High = High
  null = null
SPECIFICATION LoaderSpec
INVARIANTS BootsTogether NothingLost
CHECK_DEADLOCK FALSE
