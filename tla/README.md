# A TLA+ model of the Loom boot loader

Loom is a BIOS boot loader for x86: a 32-bit, single-threaded C program with
interrupts, loaded by a boot sector, that finds disks and file systems, runs a
shell and boots Linux.  This directory holds specifications of its core, the
TLC configurations that check them and TLAPS proofs about them.  Source paths
are those of the repository.

## 1. Inventory

| Component | State it keeps | Operations | Made correct by |
|---|---|---|---|
| Heap, `core/mm.c` | list of arenas; chunk headers with boundary tags; a doubly linked free list per arena | `loomAlloc`, `loomArrayAlloc`, `loomRealloc`, `loomMemAlign*`, `loomFree`, `loomHeapIterate`, `loomHeapAddRegion` | blocks never overlap, hold what was asked for, all memory comes back |
| Memory map, `core/mmap.c`, `bios/platform.c` | E820 cursor | iterate, count, fill | the usable ranges reach the heap and Linux, reserved ones never |
| Block devices, `core/block_dev.c` | registry; per device a cache (ring of entries in MRU order) and two scratch blocks | read, cached read, probe, register | a read returns the disk's bytes or an error; a search finds what the disks hold |
| Partitions, `core/partition.c`, `mods/mbr.c`, `mods/gpt.c` | offset into a parent device | read, iterate | a partition never reaches outside its range |
| BIOS disks, `bios/bios.c` | the bounce buffer, `bios_io_reqs` | `biosDiskRead` | scattered requests are cut into BIOS calls and put together again |
| FAT, `mods/fat` | per file: cluster, offset; per directory: iterator | probe, open, read, read directory | reads follow the chain, whatever the sizes of the reads |
| Modules, `core/module.c`, `core/elf.c`, `core/symbol.c` | loaded modules, symbol table | load the core archive, relocate, rmmod | a module is linked as its file says; failures and removals give back what they took, but for one exit |
| Kernel loader, `core/kernel_loader.c`, `mods/x86/linux` | the loader slot, kernel, initrd, command line | linux, initrd, boot, rmmod | what is booted belongs together; what fails is freed |
| Shell, `core/shell.c`, `core/commands` | line buffer, cursor | key, parse, run | the line shown is the line run; no overrun |
| Input, `core/input.c`, `mods/x86/ps2.c`, `x86/pic.c`, `bios/int.c` | ring of scan codes; key state; interrupt masks | interrupt, poll, mask, BIOS call | no scan code lost or reordered; interrupts come back after a BIOS call |
| Console, serial, print, string, crypto | screen position; none | output | wrapping at the last row under a line being typed (section 8); otherwise text only |
| Boot sector, stage 1.5, host tools | none that lasts | run once | not modelled |

Components interact by calls.  The shell's read loop polls the input sources;
a command opens a file; the file system reads through `loomBlockDevCachedRead`,
which calls the `readv` of a partition, which calls that of its parent, which
calls the BIOS, around which interrupts are masked and vectors switched.  Every
component allocates from the heap, and modules register commands, file systems,
partition schemes, input sources and kernel loaders in lists of the core.  The
only concurrency is between interrupt handlers and the main loop.

Hard to test here: long sequences of heap calls; error paths half way through
an operation; requests that cross block, batch or cluster boundaries;
interrupts between two steps of the poller; registrations that outlive a
module.  `PROJECT.json` lists each hazard at its line.

## 2. Plan

In order, the most important first.  Each line is a module with its MC module.

1. `HeapArena`, `Heap` refining `Allocator`, proofs in `HeapProofs` (done).
2. `BiosDisk` (batching) implementing `BlockService`, proofs in
   `BiosDiskProofs`; `BlockDev` (cache, bounce reads, partitions) implementing
   `LruCache`, proofs in `BlockDevProofs` (done).
3. `ShellLine` refining `LineEditor`, and `GetOpts`, the options of commands;
   proofs of both in `ShellProofs` (done).
4. `Ps2` with `Pic` and BIOS calls, interleavings and liveness of input, proofs
   in `Ps2Proofs` (done).
5. `Fat`: mounting, path search, directories and files; proofs in `BootProofs`
   (done).
6. `KernelLoader`, the commands that read files, the linux, initrd and boot
   commands, proofs in `BootProofs` too; `Modules`, loading, linking and
   removal, proofs in `ModulesProofs` (done).
7. `Probe`: drives, partition tables, search, proofs in `ProbeProofs` (done).
8. Left: the memory map and `loomHeapAddRegion`, `head` and `hexdump`, serial.

Theorems worth proving: the heap's invariants and its refinement of `Allocator`
(done); coherence of the block cache and the partition's isolation (done); the
batches of the BIOS driver and its refinement of `BlockService` (done); the line
editor's refinement (done); the order of the PS/2 ring (done); the loader slot's
ownership and what boots together (done); that modules are linked and failures
undone (done); that the words of a line are run as typed and the screen shows it
(done); that `GetOpts` permutes its arguments and gives their options and files
(done); that `BlockDev` implements `LruCache` (done); that the events are those of
the keys (done); that a search finds what the drives hold and accounts for the heap
(done); that reads return a file's bytes, that paths are found and directories
listed (done).  No safety property of a run is left without a theorem.

## 3. The heap

`HeapArena` is one arena and the functions of `mm.c` that work inside it, as
operators on a record; `Heap` is the list of arenas and the calls of `mm.h` as
actions; `Allocator` is what callers rely on.

*Correspondence.*  Addresses and sizes count granules of `CHUNK_SIZE`, 8 bytes:
every address and size in the code is a multiple of it.  A header's two words
are four functions, `size` and `use` for `size`, `psize` and `puse` for
`prev_size`.  `prev` and `next` have the free chunks as their domain, because
the links lie in memory that belongs to the caller otherwise.  A panic is a
status of the arena after which nothing happens.  `status = "beyond"` marks
places where the model stops following the code (links written over a
neighbour's header; a second turn of a merging loop): `NoPanic` shows they are
never reached.  The arena's magic words are left out.  `Arenas` lists the arenas
in the order of the code, newest first; they are made at start-up and do not
change afterwards.  A call that fails leaves the heap as it was: it is a
stuttering step.  Byte counts are those of the callers, rounded as the code
does it, with `USIZE_MAX = 8 * AddrSpace - 1` for the overflow checks.

*Operators with an underscore* (`Split_...`, `Link_DropsRest`) are an operation
with one plausible bug, each of which breaks a checked property.

| Run | Instance | Question |
|---|---|---|
| `heap` | two arenas of 11 and 3 granules with a gap; requests of 1, 16 and 250 bytes, arrays, alignments and ranges that cut both | is the structure intact after any sequence of calls, does all memory come back, is the promise of `Allocator` kept, is every block aligned and in its range |
| `heap_zero` | requests of 0 and 16 bytes | violated: a zero request makes a chunk below `MIN_ALLOC` |

The violation is a bug that the program meets: an empty file read by `md5sum`
or `linux`, or a GPT that claims no entries (`gpt.c:121`), asks for 0 bytes.
`AlignedInRange` does not say that `loomMemAlignRangeHigh` finds the highest
address of its range, as its comment does (`mm.h:19`): a candidate 8 bytes above
the start of a chunk is given up with the chunk (`mm.c:534`), lower ones
included.

*Bounds.*  Eleven granules hold up to five chunks, so a freed chunk can have
free and used neighbours on both sides, a list has up to three members to
unlink from either end or the middle, and blocks of 2 and 3 granules leave
remainders of 0, 1 and more granules: the three cases of `freeChunkSplit`.  The
proofs below lift the structural invariants to any size.

*Proved* (`HeapProofs`), for all arenas and all requests of at least one byte
(`PositiveRequests`; `heap_zero` shows why it is needed): every property of the
run `heap`.  The inductive invariant `HeapInv` says that each arena satisfies
`ArenaInv` (type, tiling, tags in both directions, coalescing, links) and that
the blocks callers hold are exactly the chunks in use.  Each conjunct is about a
chunk and its neighbours, so a split or a merge disturbs it in a few places only.
The first half shows that `freeChunkLink`, `freeChunkUnlink`, `chunkUpdateNext`,
`freeChunkSplit`, `loomFree` and `loomHeapIterate` keep `ArenaInv`, treating the
list (`IsList`) and the headers (`IsTiling`) apart; the second carries that to the
list of arenas and to each call.

Three of the results need more than neighbours.  That following `next` from the
head meets every free chunk (`FreeListComplete`) needs an argument along the
list: `Rooted` says that no set of free chunks is closed under `prev`, hence no
circle beside the list, and `Nth` is the walk from the head.  That
all comes back (`AllFreeRestores`) follows from coalescing: behind the lowest
chunk, whose `prev_size` is 0, a second one would be free too.  `KeepsPromise`
maps each call to the call of `Allocator`, by the blocks of `HeapInv`.

`AlignedInRange` is proved from `MinsFit`: rounding a lower bound up to the
alignment does not wrap the address space.  Where it does, `loomMemAlignRange`
starts from the wrapped value (`mm.c:426`) and may return a block below the bound.
Its only caller, `loomMemAlign` (`mm.c:374`), passes 0 and never meets that.  The other assumptions are `ArenasAssumption` (arenas do
not overlap, lie above zero and hold a chunk) and `RequestsAssumption` (requests
are numbers).

## 4. Reading disks

Three layers turn "these bytes of this device" into BIOS calls.
`loomBlockDevCachedRead` answers reads inside one block from a cache and passes
the others on to `loomBlockDevRead`, which makes up to three requests of whole
blocks; `loomPartitionRead` moves requests into the parent, as often as there
are parents; `biosDiskRead` cuts them into calls of the BIOS.

`BlockDev` is the first two layers, for a tree of devices.  A byte is named by
its place on the disk and a block by its number there: nothing writes to disks,
so a buffer is right when it holds the names asked for.  `cache` and `last`
(what the last call asked, sent to the disk and answered) are the state; each
way through `loomBlockDevCachedRead` is an action.  The recursion of
`loomPartitionRead` is one step, `InRange` its checks on all levels and `Shift`
the sum of its offsets.  A disk error leaves any subset of the requests
delivered, into the entry too.  The ring of a cache is kept as `next`, `prev` and
`mru`, with the updates of `linkMruHead` and of the unlinking in
`loomBlockDevCacheLookup`; `MCBlockDev` checks that `CacheInit` is what linking
entry by entry gives.  The scratch memory is taken to be two blocks, as meant:
whether it is depends on what `loomBlockDevInit` finds in `block_size`
(see the hazards).  32-bit wrap of `offset + size - 1` is left out, and reads
begin at most one block behind the device's end.  `Formatted` says which devices
get a cache; it stands for what probing finds.

`BiosDisk` is the third layer, one action per turn of a loop: fill a batch, one
BIOS call per request (external: it reads or fails), copy out, continue what was
served in part from the private copy.  Requests are linked objects as in the code,
so that "the caller's list is not changed" can be said.  `BlockService` is what
the callers of `readv` rely on, and what `BlockDev` assumes in `ReadV`.

| Run | Instance | Question |
|---|---|---|
| `block` | a disk of 5 blocks of 2 bytes, a partition with a cache of three entries, and one inside it that claims more than there is; sizes 1 and 4 at every offset | right bytes or an error; no block outside the partition is asked for; is the ring whole and coherent after any hits, misses and errors, and the order least recently used |
| `bios_disk` | lists of one to four requests, batches of 2 requests and 3 blocks, a disk of 9 blocks | is every block in its place, no other memory written, the caller's list kept, every read answered |

*Bounds.*  With two bytes a block, four bytes are whole blocks or a head, a
block and a tail, and one byte is a head or a tail; `ReadsDisk` is proved for
all sizes.  With three entries an entry can be the first, the last and neither,
and four blocks force evictions.  Requests of up to seven
blocks take three batches, and lists of three and four requests end a batch for
either reason.  *Fairness:* `WF_vars(Read)` in `BiosDisk`: nothing else runs
while `biosDiskRead` loops, and a BIOS call returns.

*Proved* (`BlockDevProofs`), for every tree of partitions, every block size and
every size of the cache: `TypeOK`, `CacheCoherent`, `RingWhole`, `ReadsDisk` and
`PartitionIsolated`.  The inductive invariant `BlockInv` strengthens coherence in
two ways: blocks in a cache lie inside the device (so a hit needs no range
check), and no proper part of the ring is closed under `next` (`Cyclic`), which
says without induction that there is one ring; `RingCovers` turns it into "the
look-up meets every entry" by the pigeon-hole principle.  The bytes of a read
follow from `Parts`, which says how offset and size split into head, whole blocks
and tail, and from the fact that each byte of an area belongs to one request.
`LeastElement` is the induction these need, as the search for a least
counterexample.  Assumptions: `DevicesAssumption` (types) and `StartAssumption`,
what the recursive definitions `Start` and `Through` give on a tree (TLC
evaluates both).

`ImplementsLru` maps a cache to the sequence of its blocks, latest first (`Held`).
The entries in use come first in the ring (`Placed`), so the filter in `Held` only
cuts off its end.  A hit on the k-th entry of the ring moves that entry to the
front, which in `LruCache` is taking out the k-th block and putting it first; a miss
overwrites the last entry and starts the ring there, and an error leaves that entry
empty.  `NoneAssumption` says that an empty entry's mark is no block.

*Proved* (`BiosDiskProofs`), for every disk, every list of requests and every size
of a batch: `TypeOK`, `BatchFits`, `CallerRequestsKept` and `KeepsService`, the
refinement of `BlockService`.  The inductive invariant `IInv` has five parts:
`Sorts`, types; `BatchFits`; `Asked`, the requests are those of the caller, and
the private copy is the rest of one of them; `Progress`, everything before the
place where the loop stands has arrived; `Batching`, the batch is the one that this
place calls for, and the bounce buffer holds what the calls so far have read.  `Before`, the blocks that
the requests ahead take, is a running sum, and the lemmas about it (`SumExists` and
those after it) are what the arithmetic of a batch rests on.  `PlacesAssumption`
says that the buffers of a list lie in memory and apart, as those of
`loomBlockDevRead` do.

*Only model-checked:* the liveness of `BiosDisk`, `AlwaysAnswers`.

## 5. Finding disks and file systems

`Probe` goes from the BIOS's drives to mounted volumes: `loomBiosDisksProbe`, one
action per drive; the loop of `searchTask`, one per device; `loomBlockDevProbe`,
one for the start, one per scheme, per entry of its table and for the file
system.  A partition is the outcome of `loomPartitionInit` and `partitionHook`
together, which may run out of memory at either.  The list of devices needs no
links: each is put in front, so it runs from the last number down, and the cursor
of a search never meets what is registered behind its back.  The heap is a number
of free blocks, of whatever size; any allocation and any read may fail, which
marks the device (`failed`) and is otherwise cleared, as the code clears it.  What
lies on the drives is a constant: which blocks have an MBR signature, a GPT
header, a FAT volume; a table of entries lies in one block.  `FindsAll` compares
what is registered with `Expected`, which reads the tables with quantifiers where
the code goes through them, and takes a block to be there (`Exists`) when the drive
has it and every partition around it does.

Nothing compares a read of a BIOS disk with the number of its blocks: the count is
cut to 32 bits (`bios.c:195`, `Truncated`) and `biosDiskRead` does not look at it,
so the drive itself is the bound (`limit`).  `loomPartitionRead` does look, at the
partition's own count and its parent's.  So a drive of 2^32 sectors is read, and
has its volume mounted or its partitions registered; but it counts 0 blocks, and no
block of those partitions can be read.  The place of a GPT's entries is in bytes,
which must fit 32 bits (`gpt.c:114`).

| Run | Instance | Question |
|---|---|---|
| `probe` | any of four drives: an MBR with an extended, an empty and two used entries; a protective MBR and a GPT with entries unused, too large, inverted, and a table inside a partition; a drive of `MaxUsize + 1` blocks, a volume with an MBR and a GPT whose entries lie beyond `MaxUsize` bytes; boot code that passes for a table, of a partition that contains itself; a partition whose table starts with an invalid entry; both orders of the schemes; a heap of 14 blocks | is everything found, once, however deep, is the memory given back, does the search end |

*Bounds.*  Fourteen blocks hold seven devices, or fewer with file systems, caches
and the buffers of the tables; the drives together need more, so that memory ends
at every place.  *Fairness:* `WF_vars(Step)`: a command runs until it returns.

Four things the properties leave room for.  A partition that contains itself is
registered again inside itself until the heap is spent: `SearchEnds` holds for
that reason only.  `loomBlockDevCacheInit` does not free its data when the last
allocation fails, and a partition whose copy cannot be made keeps its scratch
blocks: `HeapAccounted` grants one block to a probe that failed.  The copy's list
of children points at the stack (`partition.h:37`, `block_dev.c:413`); linking the
first partition found inside it writes there.  If the same scheme found both, the
place is the same variable again; otherwise it can be anything, and the model
stops (`Astray`).  And the scratch blocks of a partition have the size that the
stack held by chance (`block_dev.h:83`); `BlockDev` takes the size its reads use.

*Proved* (`ProbeProofs`), for all drives, tables, orders of the schemes and heaps:
`HeapAccounted` and `FindsAll`.  The only assumption, `ProbeAssumption`, gives the
types of what lies on the drives.  For the first, `HeapInv` says that free blocks,
blocks of devices and blocks the running probe holds add up (`Balance`) and which
devices the marks may name (`Marked`).  For the second, `FindInv` says where the
search stands: a device lies in its parent behind it (`Tree`), mounts are of volumes
(`Mounts`), every device the cursor has passed is finished (`Turns`, `Finished`),
and of the one being probed the entries before the cursor of its table are there,
in order, and no others (`Progress`).  The entries used are counted by `Rank`, so
that "in order" needs no sequences.  That what the code can read is what `Exists`
says takes the invariant `Limits`, which relates each device to its parent, and the
device registered first among those whose limit would be too low (`ExistsIs`).  *Only model-checked:* `SearchEnds`, liveness.

## 6. FAT

`Fat` is `mods/fat`: the checks of the boot sector, the FAT, path search, opening,
reading and closing of files and directories.  A step is a turn of a loop that
reads the device, so that a read can fail between any two (`DeviceFails`).
`call` holds the variables of the loop that runs, `file` and `dir` what lasts from
call to call.  A byte of a file is named by its place on the volume, a directory
entry is a record, a name a sequence of characters; offsets are numbers of the
real volume, and FAT12 entries are put together from their bytes, since the code
does.  The reference (`Chain`, `Slot`, `Outcome`, `Pieces`) is the FAT format,
written without reference to the driver's loops: a directory is its slots, and
`Slot(c, i)` is where slot `i` lies by the links from cluster `c`, looked up rather
than walked to.  `Trim` cuts the spaces behind a name, none inside it.  `ReadDir` is
not called after the end: `ls` stops there (`core/commands/core.c:438`).

| Run | Instance | Question |
|---|---|---|
| `fat` | the same tree on a FAT12, FAT16 and FAT32 volume, with labels, deleted entries, long names, the E5 escape, directories that fill a cluster or end in a second one, files with scattered and with adjacent clusters; a directory whose clusters form a circle; a boot sector that is refused; ten paths; reads of 300, 512 and 2000 bytes | is what a path names found and nothing else, do reads return the file however it is cut, is each name listed once and found again, does every call return |

*Fairness:* `WF_vars(Step)`, the turns of a call that runs.  Failures are not
fair.  *Excluded, as the code is wrong there:* links of FAT12 whose low byte is
taken for a negative number (`char` at `cluster.c:25`), `SignLost`; paths with `..`,
which `fatFilenameCmp` takes for `.` followed by a tolerated dot (`dirent.c:46`), so
that `a/..` is `a`, or with `...`, taken for `..` (`Dots`); volumes with byte offsets
from 2^32 on, which wrap (`Addressable`), and in a damaged chain links so far outside
that the offset does (`Wraps`).  *Weaker than one might wish:* `Returns` and
`ListsDir` exempt volumes with a chain that never leaves the directories
(`Circular`), which is listed for ever (`dirent.c:160`); `FindsPath` does not, since
a search that ends on one has found what is there.  A chain shorter than the file
gives a read that returns less without an error.  `fatOpen` never sets the name of
the file, which `head` prints.

*Proved* (`BootProofs`, which holds the proofs for the kernel loader as well): on
every volume, `ReadsFile`, `FindsPath` and `ListsDir`. Four facts carry the first.
`NextIs`: on a mounted volume `NextCluster` is the link the table holds, for entries
of 12, 16 and 32 bits, wherever an entry crosses a byte or a sector; with it the
variables hold numbers (`FatTypes`). `RunIs`: a run ends at the first cluster that
is enough or is not followed by its neighbour. `StaysOnChain`: the clusters of a run
that lies on the device are on the chain, none of them the mark that ends it, since
a volume of a type has fewer clusters than the type's mark (`Inside`). `RunGrows`:
what such a run adds to the pieces read are the next bytes of the file. So `ReadInv`
is inductive: what has been read are the first `position` bytes, `pos` is the
cluster of the next, and `position` is at most what the size and the chain give.
Assumed of a volume (`VolumesAssumption`): the fields are numbers, and on one that
is mounted the entries of the table fit their width and lie inside it; a device
reads the rest as 0.

The other two rest on what an iterator is: it stands before slot `s` of a directory
(`Standing`), and a turn that does not fail gives that slot, as an entry, one to
skip or the end, and leaves it before the next (`TurnIs`), in the root area and
along a chain alike.  The comparison of names, which walks a name with its dot and
its E5 escape, says that the name is the entry's (`CmpNamed`).

For `FindsPath` the invariant (`SearchInv`) is that the components before the
current one have led to the directory the iterator is in, and that no slot passed
matches the current one (`Misses`).  So the first hit is the least match
(`FirstMatch`), and at the end there is none (`NoMatch`).  `Outcome` looks at as
many clusters as the volume has directories, and the driver at as many as the chain
has: that this is the same is the pigeonhole principle (`MeetsAgain`, `InSlots`).  A
walk that is longer has been in a cluster before, at a slot that missed then too.

For `ListsDir` the invariant (`ListInv`) is that the names listed are those of the
entries in use before the iterator, each at its rank (`ListsOn`), and at the end of
all (`ListsAll`).  Assumed of a volume that is mounted, besides
(`TreesAssumption`): the clusters of directories are finitely many and in the data
area, each is full or holds an entry that ends it, and leads to another or to the
end; entries of directories lead to them, but for `..`, which has cluster 0 for the
root; names are of 8 and 3 characters.  `PathsAssumption`: a path is a sequence of
names.  `mkfs.fat` makes such volumes; on another, the driver would take the bytes
of files for entries, which the model does not hold.

*Only model-checked:* `Returns`, which is liveness.

## 7. Modules and the kernel

`Modules` is the loading of the core archive at start-up and `rmmod`: the
archive's header and table, then for each file its ELF header, one action per
section placed, per symbol resolved and per relocation applied, and `ErrorBut`,
the common exit, with what it loses.  A cell of memory holds what one relocation rewrites; addresses are
numbers below `Word`, so a displacement can be too large.  Blocks of the heap are
named by what they are for (`held`), so that `OnlyModulesHold` can say which are
left: those of the modules, and what `Lost` names.  The build is the default one,
`Debug`, which defines `LOOM_DEBUG` (`CMakeLists.txt`): a section that is kept has
its name copied, and one whose name lies outside the table ends the load at
`module.c:117-122`, where `section` has been allocated (107) and is not yet the
module's.  Nothing frees it.  Whatever else fails, nothing is lost; of such a file,
the first such section is (`Nameless`, `Lost`).  Without `LOOM_DEBUG` there is no
such check, and a file with no table of section names has none either.  `Link` is the reference: what the ELF format asks of a linked module.

`KernelLoader` is what happens at the shell afterwards: `search` (its outcome; how
it gets there is `Probe`), `linux`, `initrd`, `boot`, the commands that show files,
`ls` and `rmmod`.  (Its `Init`, `Next` and `Spec` begin with `Loader`, so that one
module holds its proofs and those of `Fat`.)  A command is one action with all its exits.  The heap is the
set of its blocks with what each holds; `Lost` is a block the code has dropped
without freeing it.  `asked` remembers the files and arguments that were given.

| Run | Instance | Question |
|---|---|---|
| `modules` | archives of two modules, of which one is as it should be, has 16-bit relocations, or has any of sixteen defects (two sections with names outside the table among them); every placement in memory on both sides of 2^31 (scaled to 32 of 64), every failed allocation; archives with a bad header or table | is a module on the list linked and entered as its file says, and is nothing held for a module that failed or was removed, but for the section the debug build loses |
| `kernel_loader` | two kernels with different bounds, an image, a file too large; three command lines; seven blocks | is what is booted one kernel with its own initrd and command line, and is every block the loader's or freed |

*Bounds.*  Seven blocks hold a loader with its three, a file being opened, an
image that replaces the one before, and what two of the leaks leave.  The archives
are short, but a module's relocations meet every section, symbol and type the code
tells apart.

*Proved* (`BootProofs`), for all files, arguments and heaps: `NothingLost`
and `BootsTogether`.  The inductive invariant `LoaderInv` adds to the first that
the loader's blocks are different, which is why removing it frees each once, and
that a loader which is not set has neither image nor command line: they would
belong to nobody, and the next `linux` would take them over.  `Kept` is the blocks
in use that are not `Lost`; each operator of the heap has a lemma that says what it
does to `Kept`, and each command adds them up.  `BootInv` adds what the loader's
blocks hold while it is set: the kernel, image and arguments that were asked for
last (`HeldFor`); it needs `LoaderInv`, since a block freed twice or shared could
change under the loader.  Assumed: `null` is no block and no file
(`BlocksAssumption`, `FilesAssumption`).

*Proved* (`ModulesProofs`), for all archives, files, exports and placements:
`Linked` and `OnlyModulesHold`.  The inductive invariant `IInv` has four parts.
`Core` says how far the table has been read, that each module comes from an entry
of its own before the one that is next, that the blocks of the modules and of the
file being loaded are held (`InUse`) and that any other one is `Lost`.
`PlacedInv`: sections lie inside their own memory, apart from each other and from
those of every other module, which is why loading or removing one leaves the cells
of the others alone.  `LoadInv` is about
the file being loaded: among the sections, none passed had a name outside the table
(so one at most is lost); symbols up to the cursor have their addresses and the
three special ones are known if they have been met; a cell whose relocation is applied
holds what it should, and one that none has rewritten what the file has there.
`LinkInv` says that the modules are linked.  `Link` states a cell's value as
S + A - P modulo its width, where the code computes with signed halves and checks
for overflow: `FixupIs` shows that they agree.

Assumed: files are as a linker writes them, whatever is wrong with them
(`WellFormed`: the empty first section and symbol, a special name is one symbol's,
`loom_mod_name` has a size, a cell is relocated once); the table of an archive
ends, by an entry of size 0 or where the files begin, and its entries are files of
their own (`ArchivesAssumption`; blocks are named by their file); widths are even
and addresses are words (`WordAssumption`).  A symbol `loom_mod_name` of size 0 at
the end of its section passes the checks of the code, and the name would be read
behind the section; the model leaves it out.

What the code does and a reader may not expect.  `linux` removes the loader there
was before it looks at its arguments; it leaves the kernel's file open when it
succeeds; a failed allocation of the command line leaves its size behind
(`linux.c:210`), which is added to the next one's: `BootsTogether` allows for that
(`excess`).  `initrd` replaces an image without freeing it (`core.c:735`), `cat`
drops a file larger than `INT_MAX` (`core.c:407`), `ls` a directory it could not
read (`core.c:444`).  The comment at `linux.c:183`, that the command line leaks when
the loader is removed, is out of date: `loomKernelLoaderRemove` frees it.
`rmmod linux` and `rmmod fat` are not refused while the loader or the prefix point
into them; the models stop there.  A module whose list of sections cannot be
allocated is unloaded with an uninitialised pointer (`module.c:275`): `Begin` ends
in `"undefined"`.  Addresses beyond 2^31 are refused by `R_386_32` ("truncated to
fit"), so a module loads in the lower half only.  Symbol values are rewritten in
the image, which therefore loads once.

## 8. The shell

`ShellLine` is `core/shell.c`: one action per key, on the buffer, the length and
the cursor.  What a key prints is put on the text screen of `vga.c` (`Put`, its
loop over characters), which shows the line before the key, from the cell behind
the prompt (`home`) on; `shown` says whether it shows the line after it, blanks
where the line was longer, and every other cell untouched.  A screen that went
astray is followed again from the next prompt, which may end in any cell.  `Enter` splits the line as
`shellExecCommand` does; the command itself is external and has returned when
the next key comes.  `Garbage` is what the buffer held before: `loomAlloc` does
not clear it.  `LineEditor` is the prompt as its user sees it, a sequence and a
cursor.

`GetOpts` is `loomGetOpts`, one action per turn of its loop, with the calls of a
command that goes on until -1, as `head` and `hexdump` do.  An argument is a
sequence of characters; `argv` is `args`, and the names of the specification begin
with `Opt`, so that one module can hold the proofs of both.  `Meaning` is the
reference, a reading of the arguments from left to right.

| Run | Instance | Question |
|---|---|---|
| `shell_line` | a buffer of 7, lines of up to 5 of three characters, buffers of terminators, letters or spaces; a screen of two rows of three, the prompt ending in any of its cells | is the line what the keys say, does the screen follow, does the command get its words |
| `shell_short` | the same, a buffer of 5 | violated: a line of one character is run with the character behind it |
| `get_opts` | up to four arguments of nine kinds | are flags, their arguments and the files what a reader takes them for |

The violation is a bug.  At the end of the line the terminator is written
one place too far (`shell.c:187`), which shows when the byte before it was not
cleared earlier: a first character, or characters appended after an insertion.
`LineEnds` bounds the damage to one character, and `KeysKeepScreen` is about
lines that end where they should: a character that is not part of the line is
printed when one before it is deleted.  It is also about lines that leave the last
cell of the screen free (`Fits`).  Behind that cell the cursor goes to the start of
the last row (`vga.c:187`) and `loomVgaScroll` is empty, so a line that is too long
for what is left of the last row continues over its own row, prompt included;
backspaces then do not lead back to where it is shown, and screen and line stay
apart until the next prompt.  Once the screen is full every prompt is on the last
row, where it has room for 73 characters.  Without `Fits` the run finds this with
a single key, at the last cell.  `FilesRight` excludes lists with a
separate argument behind a positional (`late`), and no others: in `head x -n 5`
the option is moved before `x` but its argument is not (`util.c:116`, `124`), and
`5` is taken for a file.

*Bounds.*  Five characters let the cursor be at either end, next to it and in
the middle, and hold two words with spaces around them.  Four arguments hold two
positionals before an option with an argument.

*Proved* (`ShellProofs`), for every buffer size, alphabet and previous content:
`TypeOK` (the line leaves the two bytes that are written behind it), `LineEnds`,
and `KeepsLine`, that the prompt implements `LineEditor`.  The inductive
invariant `LineInv` adds to the types that no terminator is inside the line and
one is at its end or right behind (`Ended`); without it the words read could end
early.  The refinement needs no more: each key is compared with `InsertAt` and
`RemoveAt` index by index.  `RunsLine` follows from where the text ends
(`TextIsLine`) and from the loop of `shellExecCommand`: its position only grows, so
the recursive definition of `Args` has a value at every position (`LoopExists`), and
going back from the end each turn adds the one word that starts between a break and
the next (`StartsBehind`, `WordThere`, `OneWordMore`).  For `KeysKeepScreen`, what a
key prints is cut into parts, text, spaces and backspaces, each of which has a lemma
that says what the screen holds after it (`PrintChars`, `PrintBacks`) and where the
cursor is; `PrintBoth` puts them together.

`OptionsRight`, `KeepsArgs` and `FilesRight` are proved in the same module, for all
lists of arguments.  The inductive invariant `OptInv` says that what has been
returned, followed by what the words from `optind` on mean, is what the whole list
means (`OptionsSoFar`), that the positionals passed are the first of the files
(`FilesSoFar`, unless `late`), and where an option inside a word is (`InOption`).
Moving an option before the positionals is a bijection of places, hence `KeepsArgs`.

## 9. The keyboard

`Pic` is the interrupt controller for IRQ 1 with the variables of
`x86/pic.c`; `Ps2` extends it with the keyboard, the ring of `mods/x86/ps2.c`, the
modifiers of `core/input.c` and the frame of a BIOS call in `bios/int.c`.

The program has one processor and switches interrupts off where it shares
state, so a step is what runs with interrupts off or shares nothing: `ps2Isr`;
`loomIrqSave` of `ps2Poll` (`IrqSave`) and the rest of it (`Poll`, `PollNothing`),
between which a byte can arrive but its interrupt is not served; entering and
leaving a BIOS call.  A byte is named by its place in `Stream`, what the keyboard
sends for the keys typed.  The keyboard controller holds one byte, raises the
line when it takes one, and gives the last byte again when it has none; a
request that is latched may or may not survive a read of the byte by the
fall-back; initialising the interrupt controller forgets it.  The BIOS serves the
line during its calls if it likes.  Loading and removing the module happen between
polls.  Tables are cut to keys that differ in what the code does with
them.

| Run | Instance | Question |
|---|---|---|
| `ps2` | two actions on alt and caps lock, plain or prefixed, a ring of 4, a fall-back every 2 polls | are bytes kept in order, is the handler called only while its module is loaded, are the events those of the keys with the right modifiers, is every byte taken in the end |

`KeysHeard` speaks of runs in which no byte was lost or came twice (`spoiled`):
the ring was never full, the BIOS took nothing, the module was not removed with
bytes pending, no interrupt found the controller empty.  `InOrder` holds without
that condition.  A lost or repeated byte can put a prefix behind a prefix, and
`ps2.c:155` then indexes `sc1_e0_to_kc` (`ps2.c:76`) with 0xE0, beyond its 128
entries: `Keycodes` answers "beyond" for what is found there.  `ps2` lets
`loomAlloc` fail (`MayFail`), and does not check for deadlock: a module without
its ring is loaded but not registered (`ps2.c:187`), and removing it, as `rmmod`
does all the same, panics in `loomListRemove`, whose node was never linked.

*Fairness.*  BIOS calls return (`WF` of `BiosLeave`), a request that can be served
is (`WF` of `Isr`), the end of `ps2Poll` follows its beginning, and the shell polls
again and again although commands make BIOS calls in between (`SF` of `IrqSave`):
`loomShellExec` does nothing else, and commands end.  `BytesTaken` needs the
fall-back: without it a byte that came during a BIOS call stays for ever.

*Bounds.*  A ring of four holds three bytes; four overflow it and wrap it, and
every action is enabled before, between and after them.

*Proved* (`Ps2Proofs`), for all rings and keys.  `HandlerThere`: `LineInv` says that
the vectors are the BIOS's exactly during its calls, that between calls the mask in
the controller is the one saved, and that an open mask means a loaded module.
`InOrder`: `PipeInv` follows a byte through the pipe, from the keyboard to the
controller, into the ring and out of it; whatever is taken is not older than what
was taken before it (`Ordered`), a step between neighbours that is not the next
byte needs a loss or a repetition (`InTurn`), and the ring is empty while no module
is loaded (`Unused`).  Hence `BytesInTurn`: while nothing is spoiled the bytes the
decoder gets are the first bytes of `Stream`, one for one (`ByteForByte`).
`KeysHeard`: `HearInv` says that events, modifiers and the prefix are those of the
first keys of the stream, as many as have been read (`HeardFirst`).  *Only
model-checked:* `BytesTaken`, which is liveness.

## 10. Not modelled

The memory map and `loomHeapAddRegion` (start-up, before anything is allocated;
`Heap` begins with the arenas), `head` and `hexdump` beyond their options, the
serial driver, the map handed to Linux and its relocator.  Formatting, drawing,
digests and string helpers are pure output or pure functions; the boot sector and
the real-mode switch are straight-line assembly; the host tools keep no state.
The notes in `PROJECT.json` say what is left out of each component and why.

*Only model-checked*, in sum: liveness (`AlwaysAnswers`, `BytesTaken`, `SearchEnds`,
`Returns`), which the prover does not do.  All other properties of the runs that pass
are theorems; the two that a run refutes are the findings.
