CONSTANTS
  Arenas <- TwoArenas
  AddrSpace = 32
  Requests = {1, 16, 250}
  ArrayRequests <- SmallArrays
  AlignRequests <- RangeAligned
SPECIFICATION Spec
INVARIANTS NoPanic BoundaryTags NoAdjacentFree FreeListComplete ListsLinked AllFreeRestores
PROPERTIES KeepsPromise AlignedInRange
