-------------------------------- MODULE Heap --------------------------------
(***************************************************************************)
(* The loader's heap (core/mm.c): a list of arenas, each one in the state  *)
(* HeapArena describes, and the calls the rest of the loader makes.        *)
(*                                                                         *)
(* Addresses count granules of 8 bytes, requests count bytes.  A block is  *)
(* named by the granule of its chunk header; the pointer the caller holds  *)
(* is the granule after it.  A failing call changes nothing in the heap:   *)
(* it is a stuttering step.                                                *)
(***************************************************************************)
EXTENDS HeapArena, Sequences

CONSTANTS
  Arenas,          \* the arenas loomHeapAddRegion made, newest first: [lo, hi]
  AddrSpace,       \* granules in the address space; USIZE_MAX is 8*AddrSpace-1
  Requests,        \* the byte counts callers ask loomAlloc and loomRealloc for
  ArrayRequests,   \* the <<count, bytes>> they ask loomArrayAlloc for
  AlignRequests    \* the [size, align, min, max] they ask loomMemAlign* for

ArenaIds == 1..Len(Arenas)
Lo(i) == Arenas[i].lo
Hi(i) == Arenas[i].hi

(* Regions of the memory map do not overlap; the two granules below lo     *)
(* hold the arena_t, and every region lies above the first megabyte.       *)
ASSUME ArenasAssumption ==
  /\ Arenas \in Seq([lo : Nat, hi : Nat])
  /\ AddrSpace \in Nat
  /\ \A i \in ArenaIds : /\ Lo(i) > 2
                         /\ Lo(i) + MIN_ALLOC <= Hi(i)
                         /\ Hi(i) < AddrSpace
  /\ \A i, j \in ArenaIds : i # j => Hi(i) <= Lo(j) - 2 \/ Hi(j) <= Lo(i) - 2

ASSUME RequestsAssumption ==
  /\ Requests \subseteq Nat
  /\ ArrayRequests \subseteq Nat \X Nat
  /\ AlignRequests \subseteq [size : Nat, align : Nat, min : Nat, max : Nat]
  /\ \A r \in AlignRequests : r.min < AddrSpace /\ r.max < AddrSpace

VARIABLES
  heap,   \* the arenas
  live    \* the blocks callers hold: header granule -> bytes asked for

vars == <<heap, live>>

Running(hp) == \A i \in ArenaIds : hp[i].status = "ok"
PanicAll(hp) == [i \in ArenaIds |-> Panic(hp[i])]

----------------------------------------------------------------------------
(* Sizes.  Rounded is the payload in granules, Units the chunk with its    *)
(* header; Overflow is when the additions wrap.                            *)
Rounded_Down(n) == n \div 8
Rounded(n) == (n + 7) \div 8
Units(n) == Rounded(n) + CHUNK_SIZE
UsizeMax == 8 * AddrSpace - 1
Overflow(n) == n + 7 > UsizeMax \/ 8 * Units(n) > UsizeMax

AlignUnits(r) == IF r.align < 8 THEN 1 ELSE r.align \div 8
BadAlign(r) == r.align # 0 /\ \A k \in 0..30 : r.align # 2^k

(* The first chunk on an arena's list that satisfies Fit: no such chunk or *)
(* one.                                                                    *)
FirstListed(h, Fit(_, _)) ==
  {c \in DOMAIN h.next : \E k \in Steps(h) :
      /\ Nth(h)[k] = c
      /\ Fit(h, c)
      /\ \A j \in 0..(k - 1) : ~Fit(h, Nth(h)[j])}

(* The first arena and chunk that satisfy Fit.                             *)
FirstFit(hp, Fit(_, _)) ==
  {p \in {<<i, c>> : i \in ArenaIds, c \in UNION {DOMAIN hp[i].next : i \in ArenaIds}} :
      /\ p[2] \in FirstListed(hp[p[1]], Fit)
      /\ \A j \in 1..(p[1] - 1) : FirstListed(hp[j], Fit) = {}}

(* A chunk in use on the list ends the walk too: splitting it panics.      *)
AllocFit(hp, n) ==
  FirstFit(hp, LAMBDA h, c : h.use[c] = INUSE \/ h.size[c] >= n)

----------------------------------------------------------------------------
(* loomMemAlignRange: the payload addresses the search loop would accept   *)
(* in chunk c.  The first candidate is computed modulo the address space.  *)
AlignUp(x, al) == (((x + al - 1) \div al) * al) % AddrSpace

AlignedStarts(h, c, r) ==
  LET al == AlignUnits(r)
      n  == Units(r.size)
      from == IF c < r.min THEN r.min ELSE c
  IN {s \in c..EndOf(h, c) :
        /\ s >= AlignUp(from, al) /\ s % al = 0
        /\ s > c /\ s # c + 1 + CHUNK_SIZE
        /\ s + n <= r.max /\ s + n <= EndOf(h, c)}

AlignFit(hp, r) ==
  FirstFit(hp, LAMBDA h, c : h.use[c] = INUSE \/ AlignedStarts(h, c, r) # {})

AlignOffsets_AtHeader(h, c, r) ==
  IF h.use[c] = INUSE THEN {0}
  ELSE {s - c : s \in {s \in AlignedStarts(h, c, r) :
                         \A t \in AlignedStarts(h, c, r) : s <= t}}

(* The offset of the lowest; a chunk in use makes the search panic.        *)
AlignOffsets(h, c, r) ==
  IF h.use[c] = INUSE THEN {0}
  ELSE {s - c - CHUNK_SIZE : s \in {s \in AlignedStarts(h, c, r) :
                                      \A t \in AlignedStarts(h, c, r) : s <= t}}

(* loomMemAlignRangeHigh: the header address it computes in chunk c, the   *)
(* candidates of all the listed chunks, and the highest one.               *)
HighStart(h, c, r) ==
  LET top == IF EndOf(h, c) > r.max THEN r.max ELSE EndOf(h, c)
  IN ((top - Rounded(r.size)) \div AlignUnits(r)) * AlignUnits(r) - CHUNK_SIZE

HighCandidates_NoSkip(hp, r) ==
  {p \in {<<i, c>> : i \in ArenaIds, c \in UNION {DOMAIN hp[i].next : i \in ArenaIds}} :
      LET h == hp[p[1]]
          c == p[2]
      IN /\ c \in Listed(h) \cap DOMAIN h.next
         /\ HighStart(h, c, r) >= (IF c < r.min THEN r.min ELSE c)}

HighCandidates(hp, r) ==
  {p \in {<<i, c>> : i \in ArenaIds, c \in UNION {DOMAIN hp[i].next : i \in ArenaIds}} :
      LET h == hp[p[1]]
          c == p[2]
      IN /\ c \in Listed(h) \cap DOMAIN h.next
         /\ HighStart(h, c, r) >= (IF c < r.min THEN r.min ELSE c)
         /\ HighStart(h, c, r) # c + CHUNK_SIZE}

HighFit(hp, r) ==
  {p \in HighCandidates(hp, r) :
     \A q \in HighCandidates(hp, r) :
       HighStart(hp[q[1]], q[2], r) <= HighStart(hp[p[1]], p[2], r)}

ListedInUse(h) == \E c \in Listed(h) \cap DOMAIN h.next : h.use[c] = INUSE

(* The range checks of the two searches.                                   *)
BadRange(r) == r.min > r.max \/ Units(r.size) > r.max - r.min
BadRangeHigh(r) == r.min > r.max \/ r.size + 7 > 8 * (r.max - r.min)

----------------------------------------------------------------------------
(* Take n granules at offset off of chunk p[2] in arena p[1].              *)
Carve(hp, p, off, n) ==
  [hp EXCEPT ![p[1]] = Split(@, Hi(p[1]), p[2], off, n)]

(* loomFree: the first arena whose chunks may hold this one, or a panic.   *)
Holds(i, c) == Lo(i) <= c /\ c + MIN_ALLOC <= Hi(i)

Release(hp, c) ==
  IF \A i \in ArenaIds : ~Holds(i, c) THEN PanicAll(hp)
  ELSE LET i == CHOOSE i \in ArenaIds :
                  Holds(i, c) /\ \A j \in 1..(i - 1) : ~Holds(j, c)
       IN [hp EXCEPT ![i] = FreeChunk(@, Lo(i), Hi(i), c)]

Init ==
  /\ heap = [i \in ArenaIds |-> NewArena(Lo(i), Hi(i))]
  /\ live = [c \in {} |-> 0]

LoomAlloc(n) ==
  /\ Running(heap)
  /\ ~Overflow(n)
  /\ \E p \in AllocFit(heap, Units(n)) :
       /\ heap' = Carve(heap, p, 0, Units(n))
       /\ live' = Put(live, p[2], n)

(* loomArrayAlloc: nothing for empty elements or a product that overflows, *)
(* otherwise loomZeroAlloc of the product.                                 *)
LoomArrayAlloc(a) ==
  /\ a[2] # 0
  /\ a[1] * a[2] <= UsizeMax
  /\ LoomAlloc(a[1] * a[2])

(* loomRealloc of a block that exists: the new block is taken before the   *)
(* old one is given back, and a failure leaves the old one.                *)
LoomRealloc(c, n) ==
  /\ Running(heap)
  /\ ~Overflow(n)
  /\ \E p \in AllocFit(heap, Units(n)) :
       /\ heap' = Release(Carve(heap, p, 0, Units(n)), c)
       /\ live' = Put(Drop(live, c), p[2], n)

LoomMemAlignRange(r) ==
  /\ Running(heap)
  /\ ~Overflow(r.size) /\ ~BadRange(r) /\ ~BadAlign(r)
  /\ \E p \in AlignFit(heap, r) :
       \E off \in AlignOffsets(heap[p[1]], p[2], r) :
         /\ heap' = Carve(heap, p, off, Units(r.size))
         /\ live' = Put(live, p[2] + off, r.size)

LoomMemAlignRangeHigh(r) ==
  /\ Running(heap)
  /\ ~Overflow(r.size) /\ ~BadRangeHigh(r) /\ ~BadAlign(r)
  /\ IF \E i \in ArenaIds : ListedInUse(heap[i])
     THEN heap' = PanicAll(heap) /\ UNCHANGED live
     ELSE \E p \in HighFit(heap, r) :
            LET at == HighStart(heap[p[1]], p[2], r)
            IN /\ heap' = Carve(heap, p, at - p[2], Units(r.size))
               /\ live' = Put(live, at, r.size)

LoomFree(c) ==
  /\ Running(heap)
  /\ heap' = Release(heap, c)
  /\ live' = Drop(live, c)

(* Walk every arena and panic on a chunk that does not add up.             *)
LoomHeapIterate ==
  /\ Running(heap)
  /\ heap' = [i \in ArenaIds |-> Iterate(heap[i], Lo(i), Hi(i))]
  /\ UNCHANGED live

Next ==
  \/ \E n \in Requests : LoomAlloc(n)
  \/ \E a \in ArrayRequests : LoomArrayAlloc(a)
  \/ \E c \in DOMAIN live, n \in Requests : LoomRealloc(c, n)
  \/ \E r \in AlignRequests : LoomMemAlignRange(r)
  \/ \E r \in AlignRequests : LoomMemAlignRangeHigh(r)
  \/ \E c \in DOMAIN live : LoomFree(c)
  \/ LoomHeapIterate

Spec == Init /\ [][Next]_vars
----------------------------------------------------------------------------
(* Shape of the state: every arena in form, every live block a chunk.      *)
TypeOK ==
  /\ DOMAIN heap = ArenaIds
  /\ \A i \in ArenaIds : ArenaType(Lo(i), Hi(i), heap[i])
  /\ live \in [DOMAIN live -> Nat]

(* The consistency checks scattered over mm.c (heapPanic, the panics of    *)
(* freeChunkSplit and loomFree) never fire, no operation writes over the   *)
(* header of a neighbour, and no merging loop needs a second turn.         *)
NoPanic == Running(heap)

(* Every arena is tiled by chunks of at least MIN_ALLOC whose boundary     *)
(* tags agree in both directions, after any sequence of calls.             *)
BoundaryTags == \A i \in ArenaIds :
  Running(heap) => Tiled(Lo(i), Hi(i), heap[i]) /\ TiledBack(Lo(i), heap[i])

(* loomFree merges with both neighbours, so two free chunks never touch.   *)
NoAdjacentFree == \A i \in ArenaIds : Running(heap) => Coalesced(heap[i])

(* Walking a free list meets every free chunk of the arena: a chunk lost   *)
(* from the list, or a cycle, would be memory no loomAlloc can find.       *)
FreeListComplete == \A i \in ArenaIds :
  Running(heap) => Listed(heap[i]) = Free(heap[i])

(* A chunk is in use exactly while some caller holds it, and holds at      *)
(* least the bytes that caller asked for.                                  *)
LiveBlocksInUse ==
  Running(heap) =>
    /\ DOMAIN live = UNION {Chunks(heap[i]) \ Free(heap[i]) : i \in ArenaIds}
    /\ \A i \in ArenaIds : \A c \in Chunks(heap[i]) \cap DOMAIN live :
         live[c] <= 8 * (heap[i].size[c] - CHUNK_SIZE)

(* The links of a free list agree in both directions whatever the order in *)
(* which loomFree merges, splits and relinks its chunks.                   *)
ListsLinked == \A i \in ArenaIds : Running(heap) => Linked(heap[i])

(* When the last block is given back every arena is one free chunk again:  *)
(* no sequence of calls leaks or fragments memory for good.                *)
AllFreeRestores ==
  live = [c \in {} |-> 0] =>
    \A i \in ArenaIds : heap[i] = NewArena(Lo(i), Hi(i))

(* mm.c:146, "Minimum MIN_ALLOC per free_chunk_t or allocation.  If we     *)
(* have less than that, something went wrong."                             *)
MinAllocPerChunk == \A i \in ArenaIds : \A c \in Chunks(heap[i]) :
  heap[i].size[c] >= MIN_ALLOC

(* A block from loomMemAlignRange or loomMemAlignRangeHigh lies aligned    *)
(* inside the range asked for, whatever chunk it was carved from.          *)
AlignedInRange ==
  [][\A r \in AlignRequests :
       LoomMemAlignRange(r) \/ LoomMemAlignRangeHigh(r) =>
         \A c \in DOMAIN live' \ DOMAIN live :
           /\ (c + CHUNK_SIZE) % AlignUnits(r) = 0
           /\ r.min <= c + CHUNK_SIZE
           /\ c + CHUNK_SIZE + Rounded(r.size) <= r.max]_vars

(* The requests for which the heap keeps its promises: one byte or more.   *)
PositiveRequests ==
  /\ 0 \notin Requests
  /\ \A a \in ArrayRequests : a[1] > 0
  /\ \A r \in AlignRequests : r.size > 0

(* The ranges whose lower bound does not wrap when it is rounded up, as    *)
(* loomMemAlign's 0: past the wrap the search takes blocks below min.      *)
MinsFit == \A r \in AlignRequests : r.min <= AlignUp(r.min, AlignUnits(r))
----------------------------------------------------------------------------
(* The heap as its callers see it: payload granule -> request and room.    *)
ArenaOf(c) == CHOOSE i \in ArenaIds : c \in Chunks(heap[i])

Owned == [p \in {c + CHUNK_SIZE : c \in DOMAIN live} |->
            LET c == p - CHUNK_SIZE
            IN [bytes |-> live[c],
                length |-> heap[ArenaOf(c)].size[c] - CHUNK_SIZE]]

Promise == INSTANCE Allocator WITH
  Memory <- UNION {Lo(i)..(Hi(i) - 1) : i \in ArenaIds},
  Sizes  <- Requests \cup {a[1] * a[2] : a \in ArrayRequests}
              \cup {r.size : r \in AlignRequests},
  owned  <- Owned

(* The heap keeps the promise: each call grants a block disjoint from all  *)
(* others, exchanges one, gives one back, or changes nothing callers see.  *)
KeepsPromise == Promise!Spec
============================================================================
