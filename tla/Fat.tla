--------------------------------- MODULE Fat ---------------------------------
(***************************************************************************)
(* The FAT driver (mods/fat): mounting, path search, directories and       *)
(* files.  A step is one turn of a loop that reads the device: a directory *)
(* entry looked at, a run of adjacent clusters read.                       *)
(*                                                                         *)
(* Nothing writes to the volume.  A byte of a file is named by its place   *)
(* on the volume, an entry of a directory is a record.                     *)
(***************************************************************************)
EXTENDS Integers, Sequences, SequencesExt, FiniteSets

CONSTANTS
  Volumes,      \* name -> [bpb, next, dir]: the fields of the boot sector,
                \*   cluster -> its FAT entry, cluster (0: root area) -> entries
  Paths,        \* records [names, slash]: components, is the last followed by /
  Sizes,        \* sizes of the reads
  MaxU32,       \* 2^32 - 1
  None

END == "00"
FREE == "E5"
E5 == "05"
Space == " "
Upcase == [a |-> "A", b |-> "B"]        \* the letters in use

Idle == [op |-> "idle"]

VARIABLES
  name,         \* of the volume
  fs,           \* fat_fs, or None
  call,         \* the call that runs: its loop's variables
  file,         \* loom_file with its fat_file_ctx, or None
  dir,          \* loom_dir with its fat_dir_ctx, or None
  answer,       \* what the last call returned
  got,          \* the bytes read from the file: stretches [off, len]
  listed        \* the names read from the directory

vars == <<name, fs, call, file, dir, answer, got, listed>>

vol == Volumes[name]

Least(a, b) == IF a < b THEN a ELSE b
CeilDiv(a, b) == (a + b - 1) \div b
----------------------------------------------------------------------------
(* fatFsProbe.                                                             *)

FatSects(b) == IF b.fatsz16 # 0 THEN b.fatsz16 ELSE b.fatsz32
Sects(b) == IF b.sects16 # 0 THEN b.sects16 ELSE b.sects32
RootDirSects(b) == CeilDiv(32 * b.root_entry_count, b.bytes_per_sect)
MetaSects(b) == b.fats * FatSects(b) + b.reserved_sects + RootDirSects(b)
ClusterCount(b) == (Sects(b) - MetaSects(b)) \div b.sects_per_cluster

TypeOf(n) == IF n < 4085 THEN 12 ELSE IF n < 65525 THEN 16 ELSE 32

Valid(b) ==
  /\ b.signature
  /\ b.bytes_per_sect \in {512, 1024, 2048, 4096}
  /\ b.sects_per_cluster \in {1, 2, 4, 8, 16, 32, 64, 128}
  /\ b.bytes_per_sect * b.sects_per_cluster <= 32768
  /\ b.reserved_sects # 0 /\ b.fats # 0
  /\ FatSects(b) # 0 /\ Sects(b) # 0
  /\ FatSects(b) <= (MaxU32 - b.reserved_sects - RootDirSects(b)) \div b.fats
  /\ MetaSects(b) <= Sects(b) /\ Sects(b) - MetaSects(b) >= 2
  /\ ClusterCount(b) # 0
  /\ IF TypeOf(ClusterCount(b)) = 32
     THEN b.root_entry_count = 0 /\ b.sects16 = 0 /\ b.fatsz16 = 0
     ELSE /\ b.reserved_sects = 1
          /\ b.root_entry_count # 0 /\ (32 * b.root_entry_count) % b.bytes_per_sect = 0

FileSystem(b) ==
  [type |-> TypeOf(ClusterCount(b)),
   reserved_sects |-> b.reserved_sects, bytes_per_sect |-> b.bytes_per_sect,
   sects_per_cluster |-> b.sects_per_cluster,
   fat_count |-> b.fats, fat_sects |-> FatSects(b),
   data_off |-> MetaSects(b) * b.bytes_per_sect,
   root_cluster |-> b.root_cluster, root_entry_count |-> b.root_entry_count]

(* The read or the allocation may fail.                                    *)
Mount ==
  /\ fs = None /\ answer.op # "mount"
  /\ \E error \in {"NONE", "FAIL"} :
       LET good == error = "NONE" /\ Valid(vol.bpb)
       IN /\ fs' = IF good THEN FileSystem(vol.bpb) ELSE None
          /\ answer' = [op |-> "mount", error |-> IF good THEN "NONE" ELSE "FAIL"]
  /\ UNCHANGED <<name, call, file, dir, got, listed>>
----------------------------------------------------------------------------
(* The volume as the FAT format lays it out, whatever the driver makes of  *)
(* it: this is what the device returns for a read at an offset.            *)

Bytes(b, sect) == sect * b.bytes_per_sect
FatStart(b) == Bytes(b, b.reserved_sects)
RootStart(b) == Bytes(b, b.reserved_sects + b.fats * FatSects(b))
DataStart(b) == RootStart(b) + Bytes(b, RootDirSects(b))
ClusterBytes(b) == Bytes(b, b.sects_per_cluster)
ClusterStart(b, c) == DataStart(b) + (c - 2) * ClusterBytes(b)
InFat(b, off) == off \in FatStart(b)..(FatStart(b) + Bytes(b, FatSects(b)) - 1)
InDevice(off, n) == off + n <= Bytes(vol.bpb, Sects(vol.bpb))

FatEntry(v, n) == IF n \in DOMAIN v.next THEN v.next[n] ELSE 0

FileType == [size : Nat, position : Nat, cluster : Nat, pos : Nat]
ASSUME NoneAssumption == None \notin FileType

(* The fields are numbers, and what the FAT holds has its place in it.     *)
Bounds(t) == CASE t = 12 -> 4096 [] t = 16 -> 65536 [] t = 32 -> MaxU32 + 1
Numbers(v) ==
  /\ {v.bpb.bytes_per_sect, v.bpb.sects_per_cluster, v.bpb.reserved_sects, v.bpb.fats,
      v.bpb.root_entry_count, v.bpb.root_cluster,
      v.bpb.fatsz16, v.bpb.fatsz32, v.bpb.sects16, v.bpb.sects32} \subseteq Nat
  /\ \A c \in DOMAIN v.dir :
       /\ Len(v.dir[c]) \in Nat
       /\ \A i \in 1..Len(v.dir[c]) : {v.dir[c][i].cluster, v.dir[c][i].size} \subseteq Nat
  /\ \A c \in DOMAIN v.next : c \in Nat /\ v.next[c] \in Nat
InPlace(v) ==
  LET t == TypeOf(ClusterCount(v.bpb))
  IN \A c \in DOMAIN v.next :
       v.next[c] < Bounds(t) /\ (c + 1) * t <= 8 * Bytes(v.bpb, FatSects(v.bpb))

ASSUME VolumesAssumption ==
  /\ MaxU32 \in Nat /\ MaxU32 \div 16 < 268435456
  /\ Sizes \subseteq Nat
  /\ \A n \in DOMAIN Volumes : Numbers(Volumes[n]) /\ (Valid(Volumes[n].bpb) => InPlace(Volumes[n]))

(* Entries of 12 bits, two in three bytes; of 16 and of 32 bits.           *)
FatByte(v, off) ==
  LET k == off - FatStart(v.bpb)
      even == FatEntry(v, 2 * (k \div 3))
      odd == FatEntry(v, 2 * (k \div 3) + 1)
  IN IF ~InFat(v.bpb, off) THEN 0
     ELSE CASE k % 3 = 0 -> even % 256
            [] k % 3 = 1 -> even \div 256 + 16 * (odd % 16)
            [] k % 3 = 2 -> odd \div 16
FatWord(v, off, size) ==
  IF InFat(v.bpb, off) THEN FatEntry(v, (off - FatStart(v.bpb)) \div size) ELSE 0

Blank(first) == [base |-> <<first>> \o [i \in 1..7 |-> Space],
                 ext |-> [i \in 1..3 |-> Space], attr |-> {}, cluster |-> 0, size |-> 0]

EntryAt(v, off) ==
  LET b == v.bpb
      data == off >= DataStart(b)
      c == IF data THEN 2 + (off - DataStart(b)) \div ClusterBytes(b) ELSE 0
      k == (IF data THEN (off - DataStart(b)) % ClusterBytes(b) ELSE off - RootStart(b)) \div 32
  IN IF off < RootStart(b) \/ c \notin DOMAIN v.dir THEN Blank("?")
     ELSE IF k < Len(v.dir[c]) THEN v.dir[c][k + 1] ELSE Blank(END)
----------------------------------------------------------------------------
(* Clusters.                                                               *)

Mask28 == 268435456
Limit == CASE fs.type = 32 -> 268435448 [] fs.type = 16 -> 65528 [] fs.type = 12 -> 4088
ClusterSize == fs.bytes_per_sect * fs.sects_per_cluster
ClusterOffset(c) == (fs.data_off + (c - 2) * ClusterSize) % (MaxU32 + 1)
RootEntriesOffset == (fs.reserved_sects + fs.fat_count * fs.fat_sects) * fs.bytes_per_sect

(* char is signed: a low byte from 0x80 on sets the whole high byte.       *)
Word(low, high) == (IF low >= 128 THEN 255 ELSE high) * 256 + low
NextCluster12(c) ==
  LET offset == (c * 12) \div 8
      sect == fs.reserved_sects + offset \div fs.bytes_per_sect
      at == sect * fs.bytes_per_sect + (offset % fs.bytes_per_sect)
  IN (Word(FatByte(vol, at), FatByte(vol, at + 1)) \div (IF c % 2 = 1 THEN 16 ELSE 1)) % 4096

NextCluster(c) ==
  LET size == IF fs.type = 32 THEN 4 ELSE 2
      entry == c % (fs.bytes_per_sect \div size)
      sect == fs.reserved_sects + (size * c) \div fs.bytes_per_sect
      word == FatWord(vol, sect * fs.bytes_per_sect + entry * size, size)
  IN CASE fs.type = 12 -> NextCluster12(c) [] fs.type = 16 -> word [] fs.type = 32 -> word % Mask28
----------------------------------------------------------------------------
(* Names of eight and three characters.                                    *)

Conv(ch) == IF ch \in DOMAIN Upcase THEN Upcase[ch] ELSE ch
SameText(s, t) == Len(s) = Len(t) /\ \A i \in DOMAIN s : Conv(s[i]) = Conv(t[i])
Trim(s) == SubSeq(s, 1, Max({0} \cup {i \in DOMAIN s : s[i] # Space}))
First(base) == IF base[1] = E5 THEN [base EXCEPT ![1] = "E5"] ELSE base

FilenameCmp(w, e) ==
  LET base == First(Trim(e.base))
      ext == Trim(e.ext)
      rest == SubSeq(w, Len(base) + 1, Len(w))
      dot == rest # <<>> /\ rest[1] = "."
  IN /\ Len(w) \in 1..12
     /\ e.base[1] \notin {END, FREE, Space}
     /\ Len(w) >= Len(base) /\ SameText(SubSeq(w, 1, Len(base)), base)
     /\ ext # <<>> => dot
     /\ SameText(IF dot THEN Tail(rest) ELSE rest, ext)

AllocSFN_KeepsE5(e) == Trim(e.base) \o (IF Trim(e.ext) = <<>> THEN <<>> ELSE <<".">> \o Trim(e.ext))
AllocSFN(e) ==
  First(Trim(e.base)) \o (IF Trim(e.ext) = <<>> THEN <<>> ELSE <<".">> \o Trim(e.ext))

IsVolumeId(e) == "VOLUME_ID" \in e.attr
IsLfn(e) == e.attr = {"VOLUME_ID", "RHS"}
IsFile(e) == e.attr \cap {"VOLUME_ID", "DIR"} = {}
IsDirectory(e) == "DIR" \in e.attr /\ ~IsVolumeId(e)
----------------------------------------------------------------------------
(* Directory iterators.                                                    *)

(* fatIteratorReset: to the root, or to the directory of an entry.         *)
AtRoot ==
  [root16_12 |-> fs.type # 32, cluster |-> fs.root_cluster, offset |-> 0,
   r_entry |-> 0, count |-> fs.root_entry_count, has_next |-> FALSE, entry |-> Blank(END)]
Reset(it, e) == [it EXCEPT !.root16_12 = FALSE, !.cluster = e.cluster, !.offset = 0]

Turn(what, it) == [what |-> what, it |-> it]
End(it) == Turn("end", [it EXCEPT !.has_next = FALSE])
Fail(it) == Turn("fail", it)

HandleDirEntry_FreeStays(it, e) ==
  LET read == [it EXCEPT !.entry = e]
  IN CASE e.base[1] = END -> End(read)
       [] e.base[1] = FREE -> Turn("skip", read)
       [] OTHER -> Turn("entry", [read EXCEPT !.offset = @ + 32, !.has_next = TRUE])
HandleDirEntry(it, e) ==
  LET read == [it EXCEPT !.entry = e]
      next == [read EXCEPT !.offset = @ + 32, !.has_next = TRUE]
  IN CASE e.base[1] = END -> End(read)
       [] e.base[1] = FREE \/ (e.base[1] # END /\ IsLfn(e)) -> Turn("skip", next)
       [] OTHER -> Turn("entry", next)

ReadEntry(it, off) ==
  IF InDevice(off, 32) THEN HandleDirEntry(it, EntryAt(vol, off)) ELSE Fail(it)

(* A turn of fatIterateDirEntriesRoot16_12.                                *)
TurnRoot(it) ==
  LET t == ReadEntry(it, RootEntriesOffset + it.offset)
  IN IF it.r_entry >= it.count THEN End(it)
     ELSE [t EXCEPT !.it.r_entry = IF t.it.has_next THEN @ + 1 ELSE @]

(* A turn of fatIterateDirEntriesCluster.                                  *)
EnterCluster_NoRewind(it, c) ==
  IF c >= Limit THEN End([it EXCEPT !.cluster = c])
  ELSE ReadEntry([it EXCEPT !.cluster = c], ClusterOffset(c) + it.offset)
EnterCluster(it, c) ==
  IF c >= Limit THEN End([it EXCEPT !.cluster = c])
  ELSE ReadEntry([it EXCEPT !.cluster = c, !.offset = 0], ClusterOffset(c))
TurnCluster(it) ==
  IF it.offset < ClusterSize THEN ReadEntry(it, ClusterOffset(it.cluster) + it.offset)
  ELSE EnterCluster(it, NextCluster(it.cluster))

NextTurn(it) == IF it.root16_12 THEN TurnRoot(it) ELSE TurnCluster(it)
Reads(it) == it.root16_12 => it.r_entry < it.count
----------------------------------------------------------------------------
(* fatOpen and fatOpenDir: fatSearchPath, then what is opened.  A command  *)
(* has one file or directory open at a time.                               *)

Ready == fs # None /\ call = Idle
Return(record) == answer' = record /\ call' = Idle

Start(op, path) ==
  /\ Ready /\ file = None /\ dir = None
  /\ call' = [op |-> op, path |-> path, k |-> 1, it |-> AtRoot]
  /\ UNCHANGED <<name, fs, file, dir, answer, got, listed>>

Searching == call.op \in {"open", "opendir"} /\ call.k <= Len(call.path.names)
Refuse(error) == Return([op |-> call.op, path |-> call.path, error |-> error])

Search ==
  /\ Searching
  /\ \E t \in {NextTurn(call.it)} :
       LET e == t.it.entry
           more == call.k < Len(call.path.names) \/ call.path.slash
           hit == t.what = "entry" /\ ~IsVolumeId(e) /\ FilenameCmp(call.path.names[call.k], e)
       IN \/ t.what = "fail" /\ Refuse("IO")
          \/ t.what = "end" /\ Refuse("NOENT")
          \/ hit /\ more /\ ~IsDirectory(e) /\ Refuse("NOTDIR")
          \/ /\ hit /\ (more => IsDirectory(e))
             /\ call' = [call EXCEPT !.k = @ + 1, !.it = IF more THEN Reset(t.it, e) ELSE t.it]
             /\ UNCHANGED answer
          \/ /\ t.what \in {"skip", "entry"} /\ ~hit
             /\ call' = [call EXCEPT !.it = t.it] /\ UNCHANGED answer
  /\ UNCHANGED <<name, fs, file, dir, got, listed>>

IsRoot == call.path.names = <<>>
Target == call.it.entry

Open ==
  /\ call.op = "open" /\ ~Searching
  /\ \/ (IsRoot \/ ~IsFile(Target)) /\ Refuse("ISDIR") /\ UNCHANGED <<file, got>>
     \/ ~IsRoot /\ IsFile(Target) /\ Refuse("NOMEM") /\ UNCHANGED <<file, got>>
     \/ /\ ~IsRoot /\ IsFile(Target)
        /\ file' = [size |-> Target.size, position |-> 0, cluster |-> Target.cluster,
                    pos |-> Target.cluster]
        /\ got' = <<>>
        /\ Refuse("NONE")
  /\ UNCHANGED <<name, fs, dir, listed>>

OpenDir ==
  /\ call.op = "opendir" /\ ~Searching
  /\ LET good == IsRoot \/ IsDirectory(Target)
     IN \/ ~good /\ Refuse("NOTDIR") /\ UNCHANGED <<dir, listed>>
        \/ good /\ Refuse("NOMEM") /\ UNCHANGED <<dir, listed>>
        \/ /\ good
           /\ dir' = [path |-> call.path,
                      it |-> IF IsRoot THEN AtRoot ELSE Reset(AtRoot, Target)]
           /\ listed' = <<>>
           /\ Refuse("NONE")
  /\ UNCHANGED <<name, fs, file, got>>

Close ==
  /\ Ready /\ file # None
  /\ file' = None /\ got' = <<>> /\ answer' = Idle
  /\ UNCHANGED <<name, fs, call, dir, listed>>

CloseDir ==
  /\ Ready /\ dir # None
  /\ dir' = None /\ listed' = <<>> /\ answer' = Idle
  /\ UNCHANGED <<name, fs, call, file, got>>
----------------------------------------------------------------------------
(* fatRead.                                                                *)

Read(n) ==
  /\ Ready /\ file # None
  /\ call' = [op |-> "read", asked |-> n, left |-> n]
  /\ UNCHANGED <<name, fs, file, dir, answer, got, listed>>

(* Clusters that follow each other are read at once: from cluster c and    *)
(* byte o of it, how much of max this is, and the cluster behind.          *)
Stops(c, o, max) ==                     \* clusters after which the run may end
  {k \in 1..CeilDiv(o + max, ClusterSize) :
     k * ClusterSize - o >= max \/ NextCluster(c + k - 1) # c + k}
Run(c, o, max) ==
  LET k == Min(Stops(c, o, max))
      end == k * ClusterSize - o
  IN IF end > max THEN [read |-> max, next |-> c + k - 1]
     ELSE [read |-> end, next |-> NextCluster(c + k - 1)]

Extend(pieces, off, len) ==
  IF pieces # <<>> /\ Last(pieces).off + Last(pieces).len = off
  THEN [pieces EXCEPT ![Len(pieces)].len = @ + len]
  ELSE Append(pieces, [off |-> off, len |-> len])

InCluster == file.position % ClusterSize
FileOffset == ClusterOffset(file.pos) + InCluster
ReadDone == call.left = 0 \/ file.position >= file.size \/ file.pos >= Limit
Returned(error) == Return([op |-> "read", error |-> error, asked |-> call.asked,
                           nread |-> call.asked - call.left])

FileAfter_KeepsPos(r) == [file EXCEPT !.position = @ + r.read]
FileAfter(r) == [file EXCEPT !.position = @ + r.read, !.pos = r.next]

ReadRun ==
  /\ call.op = "read"
  /\ \/ ReadDone /\ Returned("NONE") /\ UNCHANGED <<file, got>>
     \/ /\ ~ReadDone
        /\ \E r \in {Run(file.pos, InCluster, Least(file.size - file.position, call.left))} :
             \/ /\ InDevice(FileOffset, r.read)
                /\ file' = FileAfter(r)
                /\ got' = Extend(got, FileOffset, r.read)
                /\ call' = [call EXCEPT !.left = @ - r.read]
                /\ UNCHANGED answer
             \/ ~InDevice(FileOffset, r.read) /\ Returned("IO") /\ UNCHANGED <<file, got>>
  /\ UNCHANGED <<name, fs, dir, listed>>
----------------------------------------------------------------------------
(* fatReadDir, a turn of its iterator at a time.  ls stops at the end and  *)
(* at an error, and then does not close the directory.                     *)
ReadDir ==
  /\ Ready /\ dir # None /\ ~(answer.op = "readdir" /\ answer.error = "END")
  /\ call' = [op |-> "readdir"]
  /\ UNCHANGED <<name, fs, file, dir, answer, got, listed>>

Listed(error) == Return([op |-> "readdir", error |-> error])

ReadDirTurn ==
  /\ call.op = "readdir"
  /\ \E t \in {NextTurn(dir.it)} :
       LET e == t.it.entry
           named == t.what = "entry" /\ ~IsVolumeId(e)
       IN \/ t.what = "fail" /\ Listed("IO") /\ dir' = None /\ listed' = <<>>
          \/ named /\ Listed("NOMEM") /\ dir' = None /\ listed' = <<>>
          \/ /\ t.what = "end" /\ Listed("END")
             /\ dir' = [dir EXCEPT !.it = t.it] /\ UNCHANGED listed
          \/ /\ named /\ Listed("NONE")
             /\ dir' = [dir EXCEPT !.it = t.it] /\ listed' = Append(listed, AllocSFN(e))
          \/ /\ t.what \in {"skip", "entry"} /\ ~named
             /\ dir' = [dir EXCEPT !.it = t.it] /\ UNCHANGED <<call, answer, listed>>
  /\ UNCHANGED <<name, fs, file, got>>

(* The device fails a read, of whichever call.                             *)
DeviceFails ==
  /\ \/ /\ Searching /\ Reads(call.it) /\ Refuse("IO")
        /\ UNCHANGED <<dir, listed>>
     \/ /\ call.op = "read" /\ ~ReadDone /\ Returned("IO")
        /\ UNCHANGED <<dir, listed>>
     \/ /\ call.op = "readdir" /\ Reads(dir.it) /\ Listed("IO")
        /\ dir' = None /\ listed' = <<>>
  /\ UNCHANGED <<name, fs, file, got>>
----------------------------------------------------------------------------
Init ==
  /\ name \in DOMAIN Volumes
  /\ fs = None /\ call = Idle /\ file = None /\ dir = None
  /\ answer = Idle /\ got = <<>> /\ listed = <<>>

Step == Search \/ Open \/ OpenDir \/ ReadRun \/ ReadDirTurn

Next ==
  \/ Mount
  \/ \E path \in Paths : Start("open", path) \/ Start("opendir", path)
  \/ \E n \in Sizes : Read(n)
  \/ ReadDir \/ Close \/ CloseDir
  \/ Step
  \/ DeviceFails

Spec == Init /\ [][Next]_vars /\ WF_vars(Step)
----------------------------------------------------------------------------
(* What a volume means, by the FAT format.                                 *)

Type == TypeOf(ClusterCount(vol.bpb))
EndOf(t) == CASE t = 32 -> 268435448 [] t = 16 -> 65528 [] t = 12 -> 4088
EndMark == EndOf(Type)

(* Where the links lead from a cluster, and the first n clusters of its    *)
(* chain, or all if these are fewer.                                       *)
Follow(c) ==
  LET at[i \in Nat] == IF i = 0 THEN c ELSE FatEntry(vol, at[i - 1]) % Mask28
  IN at
Chain(c, n) ==
  [i \in 1..Min({k \in 0..n : k = n \/ Follow(c)[k] >= EndMark}) |-> Follow(c)[i - 1]]

(* The clusters of a directory lie in the data area, each is full or has   *)
(* an entry that ends it, and they lead to one another or to the end.      *)
(* Entries of directories lead there too, but "..", which has cluster 0    *)
(* for the root.                                                           *)
ShortName(e) ==
  e.base \in [1..8 -> STRING] /\ e.ext \in [1..3 -> STRING] /\ e.base[1] # Space
Trees(v) ==
  LET type == TypeOf(ClusterCount(v.bpb))
      data == DOMAIN v.dir \ {0}
  IN /\ IsFiniteSet(data)
     /\ IF type = 32 THEN v.bpb.root_cluster \in data
        ELSE 0 \in DOMAIN v.dir /\ Len(v.dir[0]) <= v.bpb.root_entry_count
     /\ \A c \in data :
          /\ c \in 2..(EndOf(type) - 1) /\ 32 * Len(v.dir[c]) <= ClusterBytes(v.bpb)
          /\ FatEntry(v, c) % Mask28 \in data \/ FatEntry(v, c) % Mask28 >= EndOf(type)
     /\ \A c \in DOMAIN v.dir : \A i \in 1..Len(v.dir[c]) :
          LET e == v.dir[c][i]
          IN ShortName(e) /\ (IsDirectory(e) => e.cluster \in data \/ AllocSFN(e) = <<".", ".">>)

ASSUME TreesAssumption ==
  \A n \in DOMAIN Volumes : Valid(Volumes[n].bpb) => Trees(Volumes[n])
ASSUME PathsAssumption == \A path \in Paths : path.names \in Seq(Seq(STRING))

(* The entries of the directory that starts at a cluster (0: the root      *)
(* area), from the first on.                                               *)
Room == ClusterBytes(vol.bpb) \div 32
Nth(c, i) ==
  IF c \in DOMAIN vol.dir /\ i < Len(vol.dir[c]) THEN vol.dir[c][i + 1] ELSE Blank(END)
Slot(c, i) == IF c = 0 THEN Nth(0, i) ELSE Nth(Follow(c)[i \div Room], i % Room)

(* Those in use, up to the end.                                            *)
Slots(c) == IF c = 0 THEN Len(vol.dir[0]) ELSE Room * Cardinality(DOMAIN vol.dir)
Stop(c) == Min({i \in 0..Slots(c) : i = Slots(c) \/ Slot(c, i).base[1] = END})
Live(e) == e.base[1] # FREE /\ ~IsVolumeId(e)
InUse(c) == {i \in 0..(Stop(c) - 1) : Live(Slot(c, i))}

(* A name without extension may be followed by a dot.                      *)
Named(e, w) ==
  \/ SameText(w, AllocSFN(e))
  \/ Trim(e.ext) = <<>> /\ SameText(w, Append(AllocSFN(e), "."))
Matches(c, w) == {i \in InUse(c) : Named(Slot(c, i), w)}

(* What the first components of a path lead to, or why they do not.        *)
Found(entry, error) == [entry |-> entry, error |-> error]
RootEntry ==
  [Blank("?") EXCEPT !.attr = {"DIR"}, !.cluster = IF Type = 32 THEN vol.bpb.root_cluster ELSE 0]
Below(r, w) ==
  IF r.error # "NONE" THEN r
  ELSE IF ~IsDirectory(r.entry) THEN Found(r.entry, "NOTDIR")
  ELSE LET c == r.entry.cluster
       IN IF Matches(c, w) = {} THEN Found(r.entry, "NOENT")
          ELSE Found(Slot(c, Min(Matches(c, w))), "NONE")
Reached(path) ==
  LET at[k \in Nat] == IF k = 0 THEN Found(RootEntry, "NONE") ELSE Below(at[k - 1], path.names[k])
  IN at
Outcome(op, path) ==
  LET r == Reached(path)[Len(path.names)]
      wanted == IF op = "open" /\ ~path.slash THEN "NONE" ELSE "NOTDIR"
  IN IF r.error # "NONE" THEN r
     ELSE Found(r.entry, IF ~IsDirectory(r.entry) THEN wanted
                         ELSE IF op = "open" THEN "ISDIR" ELSE "NONE")

(* What the properties exclude.  A volume larger than the 32-bit offsets   *)
(* reach.  In FAT12, links whose low byte NextCluster12 takes for a        *)
(* negative number, and links so far outside that the offset wraps.  "..", *)
(* which FilenameCmp takes for "." and a dot, and "...", which it takes    *)
(* for ".." and a dot: cluster 0 is then read as one of the data area.     *)
Addressable == Bytes(vol.bpb, Sects(vol.bpb)) <= MaxU32
SignLost(c) ==
  /\ Type = 12
  /\ IF c % 2 = 1 THEN FatEntry(vol, c) % 16 >= 8 /\ FatEntry(vol, c) < 4080
     ELSE FatEntry(vol, c) % 256 >= 128 /\ FatEntry(vol, c) < 3840
Wraps(c) == ClusterStart(vol.bpb, c) \notin 0..MaxU32
Safe(clusters) == fs # None /\ Addressable /\ \A c \in clusters : ~SignLost(c) /\ ~Wraps(c)
Dots == {<<".", ".">>, <<".", ".", ".">>}

(* The pieces of the volume that the first n bytes of a file are.          *)
Whole(c) ==
  LET size == ClusterBytes(vol.bpb)
      first[i \in Nat] ==          \* its first i clusters
        IF i = 0 THEN <<>>
        ELSE Extend(first[i - 1], ClusterStart(vol.bpb, Follow(c)[i - 1]), size)
  IN first
Pieces(c, n) ==
  LET size == ClusterBytes(vol.bpb)
      k == n \div size
  IN IF n % size = 0 THEN Whole(c)[k]
     ELSE Extend(Whole(c)[k], ClusterStart(vol.bpb, Follow(c)[k]), n % size)
----------------------------------------------------------------------------
TypeOK ==
  /\ name \in DOMAIN Volumes
  /\ fs # None => fs.type \in {12, 16, 32}
  /\ file # None => file.position \in 0..file.size
  /\ call.op \in {"idle", "open", "opendir", "read", "readdir"}

(* Opening finds what the path names and nothing else, in the root, below  *)
(* it, and behind the end of a cluster; what it refuses is not there.      *)
FindsPath ==
  /\ answer.op \in {"open", "opendir"} /\ answer.error \notin {"IO", "NOMEM"}
  /\ Safe(DOMAIN vol.dir \ {0}) /\ ToSet(answer.path.names) \cap Dots = {}
  => \E right \in {Outcome(answer.op, answer.path)} :
       /\ answer.error = right.error
       /\ answer.op = "open" /\ answer.error = "NONE" /\ file # None =>
            file.size = right.entry.size /\ file.cluster = right.entry.cluster

(* However a file is cut into reads, they return its bytes one after the   *)
(* other, to the end of the file or of its chain.                          *)
ReadsFile ==
  file # None =>
    LET size == ClusterBytes(vol.bpb)
        chain == Chain(file.cluster, CeilDiv(file.size, size))
        whole == Least(file.size, size * Len(chain))
    IN Safe(ToSet(chain)) =>
         /\ file.position <= whole
         /\ got = Pieces(file.cluster, file.position)
         /\ call = Idle /\ answer.op = "read" /\ answer.error = "NONE" =>
              answer.nread = Least(answer.asked, whole - (file.position - answer.nread))

(* Every call returns, unless the clusters of a directory form a circle.   *)
Circular ==
  \E c \in DOMAIN vol.dir \ {0} :
    \A k \in 0..Cardinality(DOMAIN vol.dir) : Follow(c)[k] \in DOMAIN vol.dir
Returns == (call # Idle /\ ~Circular) ~> (call = Idle)

(* What is listed are the entries in use, in order, all of them when the   *)
(* end is reached, and by a name under which path search finds each.       *)
ListsDir ==
  dir # None /\ ~Circular /\ Safe(DOMAIN vol.dir \ {0}) /\ ToSet(dir.path.names) \cap Dots = {} =>
    \E c \in {Outcome("opendir", dir.path).entry.cluster} : \E used \in {InUse(c)} :
      /\ Len(listed) <= Cardinality(used)
      /\ \A i \in used : \E rank \in {Cardinality({j \in used : j <= i})} :
           rank <= Len(listed) => FilenameCmp(listed[rank], Slot(c, i))
      /\ answer.op = "readdir" /\ answer.error = "END" => Len(listed) = Cardinality(used)
=============================================================================
