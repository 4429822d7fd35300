------------------------------- MODULE Probe -------------------------------
(***************************************************************************)
(* From drives to file systems: the BIOS is asked for disks as the loader  *)
(* starts, and the search command probes every device, those it finds      *)
(* included, for a partition table or a file system.                       *)
(*                                                                         *)
(* A block has one name, its drive and its number there.  Devices are      *)
(* numbered as they are registered; loomBlockDevRegister puts each in      *)
(* front, so the list runs from the last number down to 1.  The heap is a  *)
(* number of blocks that are free.                                         *)
(***************************************************************************)
EXTENDS Integers, Sequences, SequencesExt, FiniteSets

CONSTANTS
  Drives,       \* the numbers of sectors of the drives the BIOS may know
  Mbr,          \* block with an MBR signature -> its entries
  Gpt,          \* block with a GPT header -> where its entries are, and these
  Fat,          \* blocks in which a FAT volume begins
  Orders,       \* orders in which the partition schemes may be registered
  Room,         \* blocks the heap has room for
  MaxUsize,     \* 2^32 - 1
  BlockSize     \* bytes of a block

Kinds == {"mbr", "gpt"}
MbrEntries ==
  [bad_status : BOOLEAN, type : {"empty", "extended", "gpt", "data"}, start : Nat, sectors : Nat]
GptEntries == [used : BOOLEAN, start : Nat, end : Nat]

ASSUME ProbeAssumption ==
  /\ Drives \in Seq(Nat) /\ Room \in Nat /\ MaxUsize \in Nat
  /\ BlockSize \in Nat \ {0} /\ Orders \subseteq Seq(Kinds)
  /\ \A b \in DOMAIN Mbr : Mbr[b] \in [1..4 -> MbrEntries]
  /\ \A b \in DOMAIN Gpt : Gpt[b].loc \in Nat /\ Gpt[b].entries \in Seq(GptEntries)

VARIABLES
  pc,           \* "start", "shell", "panic", "astray" or where searchTask is
  drive,        \* drives asked so far
  devs,         \* loom_block_devs
  fsList,       \* loom_fs_list, as numbers of devices
  prefix,       \* loom_prefix_fs, or 0
  schemes,      \* loom_partition_schemes
  fat,          \* the FAT module is loaded
  room,         \* blocks of the heap that are free
  at,           \* the device searchTask has come to
  retry,
  scheme,       \* place in schemes of the one being tried
  entry,        \* place in its table
  count         \* ctx.count of loomBlockDevProbe

vars == <<pc, drive, devs, fsList, prefix, schemes, fat, room, at, retry, scheme, entry, count>>

found == <<drive, devs>>
mounts == <<fsList, prefix>>
loaded == <<schemes, fat>>
cursor == <<scheme, entry, count>>
----------------------------------------------------------------------------
(* loomBiosDisksProbe.                                                     *)

(* A device has as many blocks as it says; from limit on none can be read. *)
Device(disk, parent, by, offset, blocks, limit) ==
  [disk |-> disk, parent |-> parent, by |-> by, offset |-> offset, blocks |-> blocks,
   limit |-> limit, probed |-> FALSE, failed |-> FALSE, tried |-> <<>>, fat |-> FALSE, cached |-> FALSE]

(* biosDiskRead does not look at the number of blocks, which is cut to 32  *)
(* bits: the BIOS refuses what the drive does not have.                    *)
Truncated(sectors) == sectors % (MaxUsize + 1)
BiosDisk(n) == Device(n, 0, "bios", 0, Truncated(Drives[n]), Drives[n])

(* A drive that does not answer, or for which there is no memory, is       *)
(* passed over; no memory for its scratch blocks is a panic.               *)
FindDisk ==
  /\ pc = "start" /\ drive < Len(Drives)
  /\ drive' = drive + 1
  /\ \/ UNCHANGED <<pc, devs, room>>
     \/ room >= 1 /\ pc' = "panic" /\ UNCHANGED <<devs, room>>
     \/ room >= 2 /\ devs' = Append(devs, BiosDisk(drive + 1)) /\ room' = room - 2 /\ UNCHANGED pc
  /\ UNCHANGED <<mounts, loaded, at, retry, cursor>>

Started ==
  /\ pc = "start" /\ drive = Len(Drives) /\ pc' = "shell"
  /\ UNCHANGED <<found, mounts, loaded, room, at, retry, cursor>>
----------------------------------------------------------------------------
(* searchTask.                                                             *)

Searches == {"walk", "scheme", "entries", "types"}

RmmodScheme ==
  /\ pc = "shell"
  /\ \E i \in DOMAIN schemes : schemes' = RemoveAt(schemes, i)
  /\ UNCHANGED <<pc, found, mounts, fat, room, at, retry, cursor>>
RmmodFat ==
  /\ pc = "shell" /\ fat /\ fat' = FALSE
  /\ UNCHANGED <<pc, found, mounts, schemes, room, at, retry, cursor>>

Search ==
  /\ pc = "shell" /\ pc' = "walk" /\ at' = Len(devs) /\ retry' = FALSE
  /\ UNCHANGED <<found, mounts, loaded, room, cursor>>

(* Devices registered on the way are in front, and left to the next turn.  *)
Passed ==
  /\ pc = "walk" /\ at > 0 /\ devs[at].probed /\ at' = at - 1
  /\ UNCHANGED <<pc, found, mounts, loaded, room, retry, cursor>>

(* loomBlockDevProbe, up to the first scheme.                              *)
ProbeStart_NotMarked ==
  /\ pc = "walk" /\ at > 0 /\ ~devs[at].probed
  /\ devs' = [devs EXCEPT ![at].tried = schemes, ![at].fat = fat]
  /\ retry' = TRUE /\ pc' = "scheme" /\ scheme' = 1 /\ entry' = 1 /\ count' = 0
  /\ UNCHANGED <<drive, mounts, loaded, room, at>>
ProbeStart ==
  /\ pc = "walk" /\ at > 0 /\ ~devs[at].probed
  /\ devs' = [devs EXCEPT ![at].probed = TRUE, ![at].tried = schemes, ![at].fat = fat]
  /\ retry' = TRUE /\ pc' = "scheme" /\ scheme' = 1 /\ entry' = 1 /\ count' = 0
  /\ UNCHANGED <<drive, mounts, loaded, room, at>>

WalkEnds_Once ==
  /\ pc = "walk" /\ at = 0
  /\ pc' = "shell" /\ retry' = FALSE
  /\ prefix' = IF fsList = <<>> THEN prefix ELSE Head(fsList)
  /\ UNCHANGED <<found, fsList, loaded, room, at, cursor>>
WalkEnds ==
  /\ pc = "walk" /\ at = 0
  /\ IF retry THEN at' = Len(devs) /\ retry' = FALSE /\ UNCHANGED <<pc, prefix>>
     ELSE /\ pc' = "shell" /\ UNCHANGED <<at, retry>>
          /\ prefix' = IF fsList = <<>> THEN prefix ELSE Head(fsList)
  /\ UNCHANGED <<found, fsList, loaded, room, cursor>>
----------------------------------------------------------------------------
(* Partition tables.                                                       *)

Block(d, b) == <<devs[d].disk, devs[d].offset + b>>
Readable(d, b) == b < devs[d].limit

Part(offset, blocks) == [kind |-> "part", offset |-> offset, blocks |-> blocks]
Skip == [kind |-> "skip", offset |-> 0, blocks |-> 0]
Stop == [kind |-> "stop", offset |-> 0, blocks |-> 0]

MbrEntry(e) ==
  CASE e.bad_status \/ (e.type = "gpt") -> Stop
    [] ~e.bad_status /\ e.type \in {"empty", "extended"} -> Skip
    [] OTHER -> Part(e.start, e.sectors)

(* Neither the start nor the number of blocks may exceed an address.       *)
GptEntry(e) ==
  CASE ~e.used -> Skip
    [] e.used /\ e.start > e.end -> Stop
    [] e.used /\ e.start <= e.end /\ (e.start > MaxUsize \/ e.end - e.start + 1 > MaxUsize) -> Skip
    [] OTHER -> Part(e.start, e.end - e.start + 1)

(* What iterate finds to go through on a device; the buffers it needs.     *)
HasTable(s, d) ==
  IF s = "mbr" THEN Readable(d, 0) /\ Block(d, 0) \in DOMAIN Mbr
  ELSE /\ Readable(d, 1) /\ Block(d, 1) \in DOMAIN Gpt
       /\ LET loc == Gpt[Block(d, 1)].loc IN loc * BlockSize <= MaxUsize /\ Readable(d, loc)
Table(s, d) ==
  IF s = "mbr" THEN [i \in 1..4 |-> MbrEntry(Mbr[Block(d, 0)][i])]
  ELSE LET es == Gpt[Block(d, 1)].entries IN [i \in DOMAIN es |-> GptEntry(es[i])]
Buffers(s) == IF s = "mbr" THEN 1 ELSE 2

(* Any allocation and any read may fail.                                   *)
Failed(d) == devs' = [devs EXCEPT ![d].failed = TRUE]

(* iterate has returned with n partitions; what it reported is cleared.    *)
Iterated(n) ==
  /\ IF n > 0 THEN pc' = "walk" /\ at' = at - 1 /\ UNCHANGED scheme
     ELSE pc' = "scheme" /\ scheme' = scheme + 1 /\ UNCHANGED at
  /\ entry' = 1 /\ count' = n

Iterate ==
  /\ pc = "scheme" /\ scheme <= Len(schemes)
  /\ LET s == schemes[scheme]
     IN \/ Iterated(0) /\ Failed(at) /\ UNCHANGED room
        \/ ~HasTable(s, at) /\ Iterated(0) /\ UNCHANGED <<devs, room>>
        \/ /\ HasTable(s, at) /\ room >= Buffers(s) /\ room' = room - Buffers(s)
           /\ pc' = "entries" /\ UNCHANGED <<devs, at, cursor>>
  /\ UNCHANGED <<drive, mounts, loaded, retry>>

NoScheme ==
  /\ pc = "scheme" /\ scheme > Len(schemes) /\ pc' = "types"
  /\ UNCHANGED <<found, mounts, loaded, room, at, retry, cursor>>

Verdict == LET t == Table(schemes[scheme], at) IN IF entry > Len(t) THEN Stop ELSE t[entry]

(* The end of iterate, which frees its buffers.                            *)
TableEnds_KeepsBuffers ==
  /\ pc = "entries" /\ Verdict.kind = "stop"
  /\ Iterated(count)
  /\ room' = IF entry > 4 THEN room + Buffers(schemes[scheme]) ELSE room
  /\ UNCHANGED <<found, mounts, loaded, retry>>
TableEnds ==
  /\ pc = "entries" /\ Verdict.kind = "stop"
  /\ Iterated(count) /\ room' = room + Buffers(schemes[scheme])
  /\ UNCHANGED <<found, mounts, loaded, retry>>

Skipped ==
  /\ pc = "entries" /\ Verdict.kind = "skip"
  /\ entry' = entry + 1
  /\ UNCHANGED <<pc, found, mounts, loaded, room, at, retry, scheme, count>>

(* loomPartitionInit of an entry, and partitionHook, which makes a copy on *)
(* the heap.  loomPartitionRead compares a block with the blocks of the    *)
(* partition and of its parent, which then reads it.                       *)
Partition(v) ==
  LET end == Min({devs[at].blocks, devs[at].limit})
  IN Device(devs[at].disk, at, schemes[scheme], devs[at].offset + v.offset, v.blocks,
            IF v.offset >= end THEN 0 ELSE Min({v.blocks, end - v.offset}))

(* No memory for the scratch blocks: mbr.c gives up, gpt.c goes on.        *)
NoScratch ==
  /\ Failed(at)
  /\ IF schemes[scheme] = "mbr" THEN Iterated(count) /\ room' = room + Buffers("mbr")
     ELSE entry' = entry + 1 /\ UNCHANGED <<pc, room, at, scheme, count>>
(* No memory for the copy: the partition counts, its scratch blocks stay.  *)
NoCopy ==
  /\ room >= 1 /\ Failed(at)
  /\ Iterated(count + 1) /\ room' = room - 1 + Buffers(schemes[scheme])
(* The first child of a partition is linked to where the partition was     *)
(* before it was copied, on the stack.  For the scheme that found it that  *)
(* is its own variable again; for another one it may be anything.          *)
Astray ==
  /\ room >= 1 /\ room' = room - 1 /\ pc' = "astray"
  /\ devs[at].parent # 0 /\ devs[at].by # schemes[scheme] /\ count = 0
  /\ UNCHANGED <<devs, at, cursor>>
Registers ==
  /\ room >= 2 /\ room' = room - 2
  /\ devs' = Append(devs, Partition(Verdict))
  /\ entry' = entry + 1 /\ count' = count + 1 /\ UNCHANGED <<pc, at, scheme>>

PartitionFound ==
  /\ pc = "entries" /\ Verdict.kind = "part"
  /\ NoScratch \/ NoCopy \/ Astray \/ Registers
  /\ UNCHANGED <<drive, mounts, loaded, retry>>
----------------------------------------------------------------------------
(* File systems.  Only a device without partitions comes here.             *)

IsFat(d) == fat /\ Readable(d, 0) /\ Block(d, 0) \in Fat

NotMounted ==
  /\ pc = "types" /\ pc' = "walk" /\ at' = at - 1
  /\ (~IsFat(at) /\ UNCHANGED devs) \/ (fat /\ Failed(at))
  /\ UNCHANGED <<drive, mounts, loaded, room, retry, cursor>>

(* The file system gets a cache if there is memory; loomBlockDevCacheInit  *)
(* does not free its data when the last of its allocations fails.          *)
Mounted ==
  /\ pc = "types" /\ IsFat(at) /\ pc' = "walk" /\ at' = at - 1
  /\ fsList' = <<at>> \o fsList
  /\ \/ room >= 1 /\ room' = room - 1 /\ Failed(at)
     \/ room >= 4 /\ room' = room - 2 /\ Failed(at)
     \/ room >= 5 /\ room' = room - 5 /\ devs' = [devs EXCEPT ![at].cached = TRUE]
  /\ UNCHANGED <<drive, prefix, loaded, retry, cursor>>
----------------------------------------------------------------------------
Init ==
  /\ pc = "start" /\ drive = 0 /\ devs = <<>> /\ fsList = <<>> /\ prefix = 0
  /\ schemes \in Orders /\ fat = TRUE /\ room = Room
  /\ at = 0 /\ retry = FALSE /\ scheme = 1 /\ entry = 1 /\ count = 0

Step ==
  \/ Passed \/ ProbeStart \/ WalkEnds \/ Iterate \/ NoScheme
  \/ TableEnds \/ Skipped \/ PartitionFound \/ NotMounted \/ Mounted

Next == FindDisk \/ Started \/ RmmodScheme \/ RmmodFat \/ Search \/ Step

Spec == Init /\ [][Next]_vars /\ WF_vars(Step)
----------------------------------------------------------------------------
(* The k-th of a set of numbers.                                           *)
Nth(S, k) == CHOOSE i \in S : Cardinality({j \in S : j <= i}) = k

(* What is on a device, read from its blocks: the partitions of the first  *)
(* scheme whose table has any, an MBR only as far as the first entry it    *)
(* does not understand; a file system only without partitions.             *)
MbrUsed(es) ==
  LET good == {i \in 1..4 : \A j \in 1..i : ~es[j].bad_status /\ es[j].type # "gpt"}
  IN {i \in good : es[i].type = "data"}
MbrParts(es) ==
  [k \in 1..Cardinality(MbrUsed(es)) |->
    LET e == es[Nth(MbrUsed(es), k)] IN <<e.start, e.sectors>>]
GptUsed(es) ==
  LET good == {i \in DOMAIN es : \A j \in 1..i : es[j].used => es[j].start <= es[j].end}
  IN {i \in good : es[i].used /\ es[i].end < es[i].start + MaxUsize /\ es[i].start <= MaxUsize}
GptParts(es) ==
  [k \in 1..Cardinality(GptUsed(es)) |->
    LET e == es[Nth(GptUsed(es), k)] IN <<e.start, e.end - e.start + 1>>]

(* A drive has the blocks it has; a partition those that it, the ones it   *)
(* is in and the disk have among their blocks.                             *)
Exists(d, b) ==
  LET place == devs[d].offset + b
  IN IF devs[d].parent = 0 THEN b < Drives[devs[d].disk]
     ELSE \E around \in SUBSET DOMAIN devs :
            /\ d \in around
            /\ \A a \in around :
                 /\ place \in devs[a].offset..(devs[a].offset + devs[a].blocks - 1)
                 /\ devs[a].parent \in around \cup {0}
TableAt(s, d) ==
  IF s = "mbr" THEN Exists(d, 0) /\ Block(d, 0) \in DOMAIN Mbr
  ELSE /\ Exists(d, 1) /\ Block(d, 1) \in DOMAIN Gpt
       /\ LET loc == Gpt[Block(d, 1)].loc IN loc * BlockSize <= MaxUsize /\ Exists(d, loc)
Parts(s, d) ==
  CASE ~TableAt(s, d) -> <<>>
    [] TableAt(s, d) /\ s = "mbr" -> MbrParts(Mbr[Block(d, 0)])
    [] OTHER -> GptParts(Gpt[Block(d, 1)].entries)
Expected(d) ==
  LET with == {i \in DOMAIN devs[d].tried : Parts(devs[d].tried[i], d) # <<>>}
  IN IF with = {} THEN <<>>
     ELSE Parts(devs[d].tried[CHOOSE i \in with : \A j \in with : i <= j], d)

(* The partitions registered of a device, in the order of their numbers.   *)
Of(d) == {c \in DOMAIN devs : devs[c].parent = d}
Children(d) ==
  [k \in 1..Cardinality(Of(d)) |->
    LET c == devs[Nth(Of(d), k)] IN <<c.offset - devs[d].offset, c.blocks>>]
HasFs(d) == \E k \in DOMAIN fsList : fsList[k] = d

(* After a search no device is left unprobed, however deep it lies, and    *)
(* each whose probe did not fail has the partitions of its table, once     *)
(* each, or else its file system.  A probe that fails is not repeated.     *)
FindsAll ==
  pc = "shell" /\ (\E d \in DOMAIN devs : devs[d].probed) =>
    \A d \in DOMAIN devs :
      /\ devs[d].probed
      /\ ~devs[d].failed =>
           /\ Children(d) = Expected(d)
           /\ HasFs(d) <=> (devs[d].fat /\ Expected(d) = <<>> /\ Exists(d, 0) /\ Block(d, 0) \in Fat)
      /\ \A k, l \in DOMAIN fsList : fsList[k] = fsList[l] => k = l

(* Between commands every block of the heap is free or belongs to a        *)
(* device, a file system or a cache, but for one that a probe which ran    *)
(* out of memory may lose.                                                 *)
Owned ==
  2 * Len(devs) + Len(fsList) + 4 * Cardinality({d \in DOMAIN devs : devs[d].cached})
HeapAccounted ==
  pc = "shell" =>
    Room - room - Owned \in 0..Cardinality({d \in DOMAIN devs : devs[d].failed})

(* A search comes to an end, even of a partition that contains itself:     *)
(* the heap is what bounds it.                                             *)
SearchEnds == pc \in Searches ~> pc \in {"shell", "astray"}
=============================================================================
