CONSTANTS
  Drives <- MCDrives
  Mbr <- MCMbr
  Gpt <- MCGpt
  Fat <- MCFat
  Orders <- MCOrders
  Room = 14
  MaxUsize = 15
  BlockSize = 4
SPECIFICATION Spec
INVARIANTS FindsAll HeapAccounted
PROPERTIES SearchEnds
CHECK_DEADLOCK FALSE
