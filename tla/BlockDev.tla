------------------------------ MODULE BlockDev ------------------------------
(***************************************************************************)
(* Block devices (core/block_dev.c) and partitions (core/partition.c): a   *)
(* read of bytes becomes at most three requests of blocks; a partition     *)
(* moves requests into its parent and so on down to the disk; reads inside *)
(* one block go through a cache of the last blocks used.                   *)
(*                                                                         *)
(* The loader never writes, so a byte is named by its place on the disk    *)
(* and a block by its number there.  The disk's readv is BlockService.     *)
(***************************************************************************)
EXTENDS Integers, Sequences, FiniteSets, FiniteSetsExt

CONSTANTS
  Devices,      \* the disk and its partitions
  Disk,         \* the device without a parent
  Parent,       \* partition -> device
  Offset,       \* partition -> its first block in the parent
  Blocks,       \* device -> number of blocks
  Formatted,    \* the devices on which probing finds a file system
  BlockSize,
  Entries,      \* entries of a cache, 8 in loomBlockDevProbe
  Sizes,        \* sizes of the reads
  Unset, Stale, None

Partitions == Devices \ {Disk}
Entry == 1..Entries

ASSUME DevicesAssumption ==
  /\ Disk \in Devices
  /\ Parent \in [Partitions -> Devices] /\ Offset \in [Partitions -> Nat]
  /\ Blocks \in [Devices -> Nat]
  /\ BlockSize \in Nat \ {0} /\ Entries \in Nat \ {0}
  /\ Sizes \subseteq Nat /\ Formatted \subseteq Devices
  /\ Unset \notin Nat /\ Stale \notin Nat

VARIABLES
  cache,        \* device -> its loom_block_dev_cache, or None
  last          \* the last read: what was asked, sent to the disk, answered

vars == <<cache, last>>

Least(a, b) == IF a < b THEN a ELSE b
----------------------------------------------------------------------------
(* Partitions.                                                             *)

(* The partitions a request to d goes through, and where d starts on the   *)
(* disk: the sum of the offsets on the way.                                *)
Through[d \in Devices] == IF d = Disk THEN {} ELSE {d} \cup Through[Parent[d]]
Start[d \in Devices] == IF d = Disk THEN 0 ELSE Offset[d] + Start[Parent[d]]

ASSUME StartAssumption ==
  /\ Start \in [Devices -> Nat] /\ Start[Disk] = 0
  /\ Through[Disk] = {}
  /\ \A d \in Partitions :
       /\ d \in Through[d]
       /\ \A p \in Through[d] : p \in Partitions /\ Start[p] <= Start[d]

Shift_OneLevel(d, b) == b + (IF d = Disk THEN 0 ELSE Offset[d])
Shift(d, b) == b + Start[d]

(* loomPartitionRead, all levels: a request is refused that ends past the  *)
(* partition or, moved, past its parent.  Every request of the list is     *)
(* looked at before any is sent.                                           *)
InRange_StartOnly(d, r) ==
  \A p \in Through[d] : Shift(d, r.block) - Start[p] < Blocks[p]

InRange(d, r) ==
  \A p \in Through[d] :
    LET end == Shift(d, r.block) + r.count - 1 - Start[p]
    IN end < Blocks[p] /\ end + Offset[p] < Blocks[Parent[p]]

(* The ways readv may answer the requests: what error, and which requests  *)
(* have arrived in their buffers.                                          *)
OnDisk(d, r) == Shift(d, r.block) + r.count <= Blocks[Disk]

ReadV(d, reqs) ==
  IF \A r \in reqs : InRange(d, r)
  THEN [error : {"IO"}, arrived : SUBSET reqs]
         \cup [error : {e \in {"NONE"} : \A r \in reqs : OnDisk(d, r)}, arrived : {reqs}]
  ELSE {[error |-> "RANGE", arrived |-> {}]}

Sent(d, reqs, error) ==
  IF error = "RANGE" THEN {}
  ELSE UNION {Shift(d, r.block)..(Shift(d, r.block) + r.count - 1) : r \in reqs}
----------------------------------------------------------------------------
(* loomBlockDevRead.  A request is [block, count, area, at]: it fills the  *)
(* bytes from at on of the scratch blocks or of the caller's buffer.       *)

BlockOf(off) == off \div BlockSize

First(off, size) ==
  IF off % BlockSize = 0 THEN 0 ELSE Least(BlockSize - (off % BlockSize), size)

Whole(off, size) == (size - First(off, size)) \div BlockSize
Last(off, size) == (size - First(off, size)) % BlockSize

Requests(off, size) ==
  LET block == BlockOf(off)
      next == block + (IF off % BlockSize = 0 THEN 0 ELSE 1)
      head == [block |-> block, count |-> 1, area |-> "scratch", at |-> 0]
      body == [block |-> next, count |-> Whole(off, size), area |-> "buf",
               at |-> First(off, size)]
      tail == [block |-> next + Whole(off, size), count |-> 1, area |-> "scratch",
               at |-> BlockSize]
  IN (IF off % BlockSize = 0 THEN {} ELSE {head})
     \cup (IF Whole(off, size) = 0 THEN {} ELSE {body})
     \cup (IF Last(off, size) = 0 THEN {} ELSE {tail})

(* What byte k of an area holds once some requests have arrived.           *)
Covers(r, area, k) == r.area = area /\ k - r.at \in 0..(r.count * BlockSize - 1)

Content(d, arrived, area, k) ==
  LET over == {r \in arrived : Covers(r, area, k)}
  IN IF over = {} THEN Stale
     ELSE LET r == CHOOSE r \in over : TRUE
          IN Shift(d, r.block) * BlockSize + k - r.at

(* The caller's buffer at the end: the scratch blocks' parts are copied to *)
(* its front and to its end.                                               *)
Bytes(d, arrived, off, size) ==
  [i \in 0..(size - 1) |->
     IF i < First(off, size) THEN Content(d, arrived, "scratch", (off % BlockSize) + i)
     ELSE IF i >= size - Last(off, size)
     THEN Content(d, arrived, "scratch", BlockSize + i - (size - Last(off, size)))
     ELSE Content(d, arrived, "buf", i)]

Answer(via, d, off, size, error, bytes, sent) ==
  [via |-> via, dev |-> d, off |-> off, size |-> size,
   error |-> error, bytes |-> bytes, sent |-> sent]

Read(d, off, size) ==
  /\ \E o \in ReadV(d, Requests(off, size)) :
       last' = Answer("disk", d, off, size, o.error,
                      IF o.error = "NONE" THEN Bytes(d, o.arrived, off, size) ELSE <<>>,
                      Sent(d, Requests(off, size), o.error))
  /\ UNCHANGED cache
----------------------------------------------------------------------------
(* Caches: entries in a ring, the most recently used at mru.               *)

LinkMruHead(c, e) ==
  LET before == c.prev[c.mru]
  IN [c EXCEPT !.next = [@ EXCEPT ![e] = c.mru, ![before] = e],
               !.prev = [@ EXCEPT ![e] = before, ![c.mru] = e],
               !.mru = e]

Unlink(c, e) ==
  [c EXCEPT !.next = [@ EXCEPT ![c.prev[e]] = c.next[e]],
            !.prev = [@ EXCEPT ![c.next[e]] = c.prev[e]]]

(* loomBlockDevCacheInit: linking the entries one by one leaves the last   *)
(* at the head.                                                            *)
CacheInit ==
  [mru |-> Entries,
   next |-> [e \in Entry |-> IF e = 1 THEN Entries ELSE e - 1],
   prev |-> [e \in Entry |-> IF e = Entries THEN 1 ELSE e + 1],
   block |-> [e \in Entry |-> Unset],
   data |-> [e \in Entry |-> Stale]]

(* The ring from mru on.                                                   *)
Ring(c) ==
  LET nth[n \in 0..(Entries - 1)] == IF n = 0 THEN c.mru ELSE c.next[nth[n - 1]]
  IN nth

Hits(c, b) == {n \in DOMAIN Ring(c) : c.block[Ring(c)[n]] = b}
Found(c, b) == Ring(c)[Min(Hits(c, b))]

(* loomBlockDevCacheLookup on a hit.                                       *)
Touch_NoUnlink(c, e) == IF e = c.mru THEN c ELSE LinkMruHead(c, e)
Touch_NoMove(c, e) == c
Touch(c, e) == IF e = c.mru THEN c ELSE LinkMruHead(Unlink(c, e), e)

(* A miss reads the block over the least recently used entry, which is     *)
(* then the first; after an error it holds nothing that can be found.      *)
Fill(c, b, from) ==
  LET lru == c.prev[c.mru]
  IN [c EXCEPT !.block[lru] = b, !.data[lru] = from, !.mru = lru]

Fail_KeepsBlock(c, from) == [c EXCEPT !.data[c.prev[c.mru]] = from]
Fail(c, from) ==
  LET lru == c.prev[c.mru]
  IN [c EXCEPT !.block[lru] = Unset, !.data[lru] = from]

OneBlock(off, size) == size > 0 /\ BlockOf(off) = BlockOf(off + size - 1)

(* What is copied out of an entry: no more than is left of its block.      *)
Part(block, off, size) ==
  LET at == off % BlockSize
  IN [i \in 0..(size - 1) |->
        IF i < Least(BlockSize - at, size) THEN block * BlockSize + at + i ELSE Stale]

(* loomBlockDevCachedRead: past the cache, from it, or through it.         *)
ReadPast(d, off, size) ==
  /\ cache[d] = None \/ ~OneBlock(off, size)
  /\ Read(d, off, size)

ReadHit(d, off, size) ==
  /\ cache[d] # None /\ OneBlock(off, size)
  /\ LET b == BlockOf(off)
         e == Found(cache[d], b)
     IN /\ Hits(cache[d], b) # {}
        /\ cache' = [cache EXCEPT ![d] = Touch(@, e)]
        /\ last' = Answer("cache", d, off, size, "NONE",
                           Part(cache[d].data[e], off, size), {})

ReadMiss(d, off, size) ==
  /\ cache[d] # None /\ OneBlock(off, size)
  /\ LET b == BlockOf(off)
         r == [block |-> b, count |-> 1, area |-> "entry", at |-> 0]
         lru == cache[d].prev[cache[d].mru]
     IN /\ Hits(cache[d], b) = {}
        /\ \E o \in ReadV(d, {r}) :
             LET from == IF r \in o.arrived THEN Shift(d, b) ELSE cache[d].data[lru]
             IN /\ cache' = [cache EXCEPT ![d] = IF o.error = "NONE" THEN Fill(@, b, from)
                                                                   ELSE Fail(@, from)]
                /\ last' = Answer("cache", d, off, size, o.error,
                                  IF o.error = "NONE" THEN Part(from, off, size) ELSE <<>>,
                                  Sent(d, {r}, o.error))

CachedRead(d, off, size) ==
  ReadPast(d, off, size) \/ ReadHit(d, off, size) \/ ReadMiss(d, off, size)

(* loomBlockDevProbe gives a device with a file system a cache, unless     *)
(* memory is short.                                                        *)
AttachCache(d) ==
  /\ d \in Formatted /\ cache[d] = None
  /\ cache' = [cache EXCEPT ![d] = CacheInit]
  /\ UNCHANGED last
----------------------------------------------------------------------------
Init ==
  /\ cache = [d \in Devices |-> None]
  /\ last = Answer("disk", Disk, 0, 0, "NONE", <<>>, {})

(* Reads may begin up to the device's end.                                 *)
Offsets(d) == 0..(Blocks[d] * BlockSize)

Next ==
  \E d \in Devices :
    \/ AttachCache(d)
    \/ \E off \in Offsets(d), size \in Sizes : Read(d, off, size) \/ CachedRead(d, off, size)

Spec == Init /\ [][Next]_vars
----------------------------------------------------------------------------
CacheType ==
  [mru : Entry, next : [Entry -> Entry], prev : [Entry -> Entry],
   block : [Entry -> Nat \cup {Unset}], data : [Entry -> Nat \cup {Stale}]]

ASSUME NoneAssumption == None \notin CacheType

TypeOK ==
  /\ cache \in [Devices -> CacheType \cup {None}]
  /\ last.via \in {"disk", "cache"} /\ last.dev \in Devices /\ last.off \in Nat /\ last.size \in Nat
  /\ last.error \in {"NONE", "IO", "RANGE"}
  /\ last.sent \subseteq Nat

(* An entry that can be found holds the block it is found by, whatever     *)
(* reads failed before, and no block has two entries.                      *)
CacheCoherent ==
  \A d \in Devices : cache[d] # None =>
    \A e \in Entry : cache[d].block[e] # Unset =>
      /\ cache[d].data[e] = Start[d] + cache[d].block[e]
      /\ \A f \in Entry : cache[d].block[f] = cache[d].block[e] => f = e

(* The ring goes once through all entries, and back the same way: the      *)
(* look-up ends and the entry taken is the oldest.                         *)
RingWhole ==
  \A d \in Devices : cache[d] # None =>
    LET c == cache[d]
    IN /\ {Ring(c)[n] : n \in DOMAIN Ring(c)} = Entry
       /\ \A e \in Entry : c.prev[c.next[e]] = e /\ c.next[c.prev[e]] = e

(* A read that reports no error returned the device's own bytes, all of    *)
(* them inside the device, cached or not, aligned or not.                  *)
ReadsDisk ==
  last.error = "NONE" =>
    /\ last.size > 0 => last.off + last.size <= Blocks[last.dev] * BlockSize
    /\ \A i \in 0..(last.size - 1) :
         last.bytes[i] = Start[last.dev] * BlockSize + last.off + i

(* Whatever is asked of a partition, the disk is only asked for blocks of  *)
(* that partition, and of those around it.                                 *)
PartitionIsolated ==
  \A p \in Through[last.dev] : last.sent \subseteq Start[p]..(Start[p] + Blocks[p] - 1)

(* The caches remember what was used last and forget in that order.  The   *)
(* entries in use are the first of the ring, so this is a sequence.        *)
Recent(c) ==
  IF c = None THEN <<>>
  ELSE LET ring == Ring(c)
       IN [n \in {n \in Entry : c.block[ring[n - 1]] # Unset} |-> c.block[ring[n - 1]]]

Lru == INSTANCE LruCache WITH
  Caches <- Devices, Keys <- UNION {0..Blocks[d] : d \in Devices}, Capacity <- Entries,
  recent <- [d \in Devices |-> Recent(cache[d])],
  used <- IF last.via = "cache" /\ last.error = "NONE"
          THEN <<last.dev, BlockOf(last.off)>> ELSE None

ImplementsLru == Lru!Spec
=============================================================================
