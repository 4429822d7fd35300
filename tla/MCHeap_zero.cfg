CONSTANTS
  Arenas <- OneArena
  AddrSpace = 32
  Requests = {0, 16}
  ArrayRequests <- SmallArrays
  AlignRequests <- AnyAligned
SPECIFICATION Spec
INVARIANTS
  MinAllocPerChunk
