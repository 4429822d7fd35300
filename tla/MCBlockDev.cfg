CONSTANTS
  Devices = {"disk", "part", "inner"}
  Disk = "disk"
  Parent <- NestedParent
  Offset <- NestedOffset
  Blocks <- NestedBlocks
  Formatted = {"part"}
  BlockSize = 2
  Entries = 3
  Sizes = {1, 4}
  Unset = Unset
  Stale = Stale
  None = None
SPECIFICATION Spec
INVARIANTS CacheCoherent RingWhole ReadsDisk PartitionIsolated
PROPERTIES ImplementsLru
