----------------------------- MODULE BootProofs ------------------------------
(***************************************************************************)
(* The way to a kernel: the loader that holds it, and the files it is      *)
(* read from.                                                              *)
(*                                                                         *)
(* The loader: whatever fails, no block is lost but those the code never   *)
(* frees (NothingLost), for all files, arguments and heaps.  The invariant *)
(* says which blocks are the loader's, that these are different, and what  *)
(* a loader that is not set has left: no initrd and no command line.       *)
(* Without that the next linux would take them over.                       *)
(*                                                                         *)
(* The files, on every volume and for all paths.  Reads return a file's    *)
(* bytes in order (ReadsFile): the driver follows the links of the table,  *)
(* a run of adjacent clusters is the next pieces of the file, and what     *)
(* lies on the device is far from the mark that ends a chain.  Opening     *)
(* finds what the path names (FindsPath) and ls lists what is there        *)
(* (ListsDir): an iterator stands before an entry of its directory, a turn *)
(* gives that entry and no other, and what has been passed has been        *)
(* missed, or listed.  The first match comes before the end of as many     *)
(* clusters as there are, since a chain that is longer repeats itself.     *)
(***************************************************************************)
EXTENDS KernelLoader, Fat, FiniteSetTheorems, SequenceTheorems, FunctionTheorems, WellFoundedInduction, TLAPS

Kept(h) == {b \in DOMAIN h : h[b] # Lost}
Owned(l, a) == IF a THEN {l.kernel.data, l.initrd.data, l.cmdline.data} \ {null} ELSE {}

(* The fields of linux_loader, of whatever values.                         *)
IsRecord(r, fields) == r = [x \in fields |-> r[x]]
IsBuffer(b) == IsRecord(b, {"size", "data"})
IsLoader(l) ==
  /\ IsRecord(l, {"flags", "kernel", "initrd", "cmdline", "initrd_min_addr", "initrd_max_addr"})
  /\ IsBuffer(l.kernel) /\ IsBuffer(l.initrd) /\ IsBuffer(l.cmdline)

Apart(l) ==
  /\ l.kernel.data # null
  /\ l.kernel.data # l.initrd.data /\ l.kernel.data # l.cmdline.data
  /\ l.initrd.data # null => l.initrd.data # l.cmdline.data
Empty(l) == l.initrd.data = null /\ l.cmdline.data = null

Sound(h, l, a) ==
  /\ a \in BOOLEAN
  /\ DOMAIN h \subseteq Blocks
  /\ Kept(h) = Owned(l, a)
  /\ IsLoader(l)
  /\ IF a THEN Apart(l) ELSE Empty(l)

LoaderInv == Sound(heap, linux, active)
----------------------------------------------------------------------------
(* The heap's operators, seen through Kept.                                *)

LEMMA FreshIsFree ==
  ASSUME NEW h, NEW b \in Fresh(h)
  PROVE  b \in Blocks /\ b \notin DOMAIN h /\ b # null
  BY BlocksAssumption DEF Fresh

LEMMA WithKept ==
  ASSUME NEW h, DOMAIN h \subseteq Blocks, NEW b \in Fresh(h), NEW what, what # Lost
  PROVE  /\ DOMAIN With(h, b, what) = DOMAIN h \cup {b}
         /\ DOMAIN With(h, b, what) \subseteq Blocks
         /\ Kept(With(h, b, what)) = Kept(h) \cup {b}
         /\ b \notin Kept(h)
<1>1. b \in Blocks /\ b \notin DOMAIN h
  BY FreshIsFree
<1>2. DOMAIN With(h, b, what) = DOMAIN h \cup {b}
  BY DEF With
<1>3. \A x \in DOMAIN h \cup {b} : With(h, b, what)[x] = IF x = b THEN what ELSE h[x]
  BY DEF With
<1> QED
  BY <1>1, <1>2, <1>3 DEF Kept

LEMMA FreedKept ==
  ASSUME NEW h, DOMAIN h \subseteq Blocks, NEW bs
  PROVE  /\ DOMAIN Freed(h, bs) \subseteq Blocks
         /\ Kept(Freed(h, bs)) = Kept(h) \ bs
  BY DEF Freed, Kept

LEMMA DropKept ==
  ASSUME NEW h, DOMAIN h \subseteq Blocks, NEW b \in DOMAIN h
  PROVE  /\ DOMAIN [h EXCEPT ![b] = Lost] \subseteq Blocks
         /\ Kept([h EXCEPT ![b] = Lost]) = Kept(h) \ {b}
  BY DEF Kept

LEMMA NotLost ==
  /\ FileCtx # Lost
  /\ \A x : [file |-> x] # Lost /\ [args |-> x] # Lost
  /\ \A x, y, z : [file |-> x, min |-> y, max |-> z] # Lost
<1>1. DOMAIN Lost = {"lost"} /\ DOMAIN FileCtx = {"open"}
  BY DEF Lost, FileCtx
<1>2. \A x : DOMAIN [file |-> x] = {"file"} /\ DOMAIN [args |-> x] = {"args"}
  OBVIOUS
<1>3. \A x, y, z : DOMAIN [file |-> x, min |-> y, max |-> z] = {"file", "min", "max"}
  OBVIOUS
<1> QED
  BY <1>1, <1>2, <1>3

(* A file that is opened takes one block.                                  *)
LEMMA OpenedKept ==
  ASSUME NEW h, DOMAIN h \subseteq Blocks, NEW o \in Opened(h)
  PROVE  /\ o.file \in DOMAIN o.heap /\ o.file \notin Kept(h)
         /\ DOMAIN o.heap \subseteq Blocks
         /\ Kept(o.heap) = Kept(h) \cup {o.file}
<1>1. PICK f \in Fresh(h) : o = [heap |-> With(h, f, FileCtx), file |-> f]
  BY DEF Opened
<1>2. o.heap = With(h, f, FileCtx) /\ o.file = f
  BY <1>1
<1>3. FileCtx # Lost
  BY NotLost
<1>4. /\ DOMAIN With(h, f, FileCtx) = DOMAIN h \cup {f}
      /\ DOMAIN With(h, f, FileCtx) \subseteq Blocks
      /\ Kept(With(h, f, FileCtx)) = Kept(h) \cup {f}
      /\ f \notin Kept(h)
  BY <1>3, WithKept
<1> HIDE DEF Kept
<1> QED
  BY <1>2, <1>4
----------------------------------------------------------------------------
(* After loomKernelLoaderRemove nothing is owned.                          *)
LEMMA RemoveKept ==
  ASSUME LoaderInv
  PROVE  /\ DOMAIN LoaderRemove.heap \subseteq Blocks
         /\ Kept(LoaderRemove.heap) = {}
         /\ IsLoader(LoaderRemove.linux) /\ Empty(LoaderRemove.linux)
<1> DEFINE freed == Freed(heap, {linux.kernel.data, linux.initrd.data, linux.cmdline.data})
           l == [linux EXCEPT !.kernel = NoBuffer, !.initrd = Cleared(@), !.cmdline = Cleared(@)]
<1>1. CASE ~active
  BY <1>1 DEF LoaderInv, Sound, LoaderRemove, Owned
<1>2. CASE active
  <2>1. LoaderRemove = [heap |-> freed, linux |-> l]
    BY <1>2 DEF LoaderRemove
  <2>2. DOMAIN freed \subseteq Blocks /\ Kept(freed) = {}
    BY <1>2, FreedKept DEF LoaderInv, Sound, Owned
  <2>3. IsBuffer(NoBuffer) /\ NoBuffer.data = null
    BY DEF IsBuffer, IsRecord, NoBuffer
  <2>4. \A b : IsBuffer(b) => IsBuffer(Cleared(b)) /\ Cleared(b).data = null
    BY <2>3 DEF Cleared
  <2>5. IsLoader(l) /\ Empty(l)
    <3>1. /\ IsRecord(l, {"flags", "kernel", "initrd", "cmdline", "initrd_min_addr", "initrd_max_addr"})
          /\ l.kernel = NoBuffer
          /\ l.initrd = Cleared(linux.initrd) /\ l.cmdline = Cleared(linux.cmdline)
      BY DEF LoaderInv, Sound, IsLoader, IsRecord
    <3> HIDE DEF l
    <3> QED
      BY <3>1, <2>3, <2>4 DEF LoaderInv, Sound, IsLoader, Empty
  <2> QED
    BY <2>1, <2>2, <2>5
<1> QED
  BY <1>1, <1>2

(* linux removes the loader, and sets it up again or frees what it took.   *)
LEMMA LinuxKeeps ==
  ASSUME LoaderInv, NEW path, NEW args, Linux(path, args)
  PROVE  LoaderInv'
<1> DEFINE r == LoaderRemove
<1>1. /\ DOMAIN r.heap \subseteq Blocks /\ Kept(r.heap) = {}
      /\ IsLoader(r.linux) /\ Empty(r.linux)
  BY RemoveKept
<1>2. CASE Removed(r.heap, r.linux)
  BY <1>1, <1>2 DEF Removed, LoaderInv, Sound, Owned
<1>3. ASSUME NEW o \in Opened(r.heap), NEW kbuf \in Fresh(o.heap),
             LET loaded == [heap |-> With(o.heap, kbuf, [file |-> path]), file |-> o.file]
                 l == Prepared(r.linux, path, kbuf)
             IN CmdlineFails(loaded, l, args) \/ CmdlineSet(loaded, l, path, args)
      PROVE  LoaderInv'
  <2> DEFINE h == With(o.heap, kbuf, [file |-> path])
             loaded == [heap |-> h, file |-> o.file]
             l == Prepared(r.linux, path, kbuf)
  <2>1. /\ o.file \in DOMAIN o.heap /\ DOMAIN o.heap \subseteq Blocks
        /\ Kept(o.heap) = {o.file}
    BY <1>1, OpenedKept
  <2>2. /\ o.file \in DOMAIN h /\ DOMAIN h \subseteq Blocks
        /\ Kept(h) = {o.file, kbuf} /\ kbuf # o.file /\ kbuf # null
    <3>1. [file |-> path] # Lost
      BY NotLost
    <3>2. /\ DOMAIN h = DOMAIN o.heap \cup {kbuf} /\ DOMAIN h \subseteq Blocks
          /\ Kept(h) = Kept(o.heap) \cup {kbuf} /\ kbuf \notin Kept(o.heap)
      BY <2>1, <3>1, WithKept
    <3>3. kbuf # null
      BY FreshIsFree
    <3> HIDE DEF h
    <3> QED
      BY <2>1, <3>2, <3>3
  <2>3. loaded.heap = h /\ loaded.file = o.file
    OBVIOUS
  <2>4. IsLoader(l) /\ Empty(l) /\ l.kernel.data = kbuf
    <3> DEFINE k == Files[path]
    <3> HIDE DEF r
    <3>1. /\ IsRecord(l, {"flags", "kernel", "initrd", "cmdline", "initrd_min_addr", "initrd_max_addr"})
          /\ l.kernel = [size |-> k.size, data |-> kbuf]
          /\ l.initrd = r.linux.initrd /\ l.cmdline = r.linux.cmdline
      BY <1>1 DEF Prepared, IsLoader, IsRecord
    <3>2. IsBuffer(l.kernel) /\ l.kernel.data = kbuf
      BY <3>1 DEF IsBuffer, IsRecord
    <3> QED
      BY <3>1, <3>2, <1>1 DEF IsLoader, Empty
  <2> HIDE DEF r, h, l
  <2>5. CASE CmdlineFails(loaded, l, args)
    <3> DEFINE size == l.cmdline.size + Text(args)
               n == IF size > MaxUsize THEN 0 ELSE size
               l2 == [l EXCEPT !.cmdline.size = n]
    <3>1. heap' = Freed(h, {o.file, l.kernel.data}) /\ linux' = l2 /\ active' = FALSE
      BY <2>5, <2>3 DEF CmdlineFails, Removed
    <3>2. DOMAIN heap' \subseteq Blocks /\ Kept(heap') = {}
      BY <3>1, <2>2, <2>4, FreedKept
    <3> HIDE DEF n
    <3>3. IsRecord(l.cmdline, {"size", "data"})
      BY <2>4 DEF IsLoader, IsBuffer
    <3>4. IsLoader(l2) /\ Empty(l2)
      BY <3>3, <2>4 DEF IsLoader, IsBuffer, IsRecord, Empty
    <3> QED
      BY <3>1, <3>2, <3>4 DEF LoaderInv, Sound, Owned
  <2>6. CASE CmdlineSet(loaded, l, path, args)
    <3> DEFINE d == [h EXCEPT ![o.file] = Lost]
    <3>1. DOMAIN d \subseteq Blocks /\ Kept(d) = {kbuf}
      BY <2>2, DropKept
    <3>2. CASE args = <<>> /\ heap' = d /\ linux' = l
      BY <3>1, <3>2, <2>2, <2>4, <2>6 DEF CmdlineSet, LoaderInv, Sound, Owned, Apart, Empty
    <3>3. ASSUME NEW c \in Fresh(d), NEW size, heap' = With(d, c, [args |-> args]),
                 linux' = [l EXCEPT !.cmdline = [size |-> size, data |-> c]]
          PROVE  LoaderInv'
      <4> HIDE DEF d
      <4>1. /\ DOMAIN heap' \subseteq Blocks /\ Kept(heap') = {kbuf, c}
            /\ c # kbuf /\ c # null
        <5>1. [args |-> args] # Lost
          BY NotLost
        <5>2. /\ DOMAIN With(d, c, [args |-> args]) \subseteq Blocks
              /\ Kept(With(d, c, [args |-> args])) = Kept(d) \cup {c} /\ c \notin Kept(d)
          BY <3>1, <3>3, <5>1, WithKept
        <5>3. c # null
          BY <3>3, FreshIsFree
        <5> QED
          BY <3>1, <3>3, <5>2, <5>3
      <4>2. /\ IsRecord(linux', {"flags", "kernel", "initrd", "cmdline", "initrd_min_addr", "initrd_max_addr"})
            /\ linux'.kernel = l.kernel /\ linux'.initrd = l.initrd
            /\ linux'.cmdline = [size |-> size, data |-> c]
        BY <3>3, <2>4 DEF IsLoader, IsRecord
      <4>3. active' = TRUE
        BY <2>6 DEF CmdlineSet
      <4>4. IsLoader(linux') /\ Apart(linux') /\ Owned(linux', TRUE) = {kbuf, c}
        BY <4>1, <4>2, <2>2, <2>4 DEF IsLoader, IsBuffer, IsRecord, Apart, Empty, Owned
      <4> QED
        BY <4>1, <4>3, <4>4 DEF LoaderInv, Sound
    <3> QED
      BY <3>2, <3>3, <2>3, <2>6 DEF CmdlineSet
  <2> QED
    BY <1>3, <2>5, <2>6 DEF r, h, l
<1> QED
  BY <1>2, <1>3 DEF Linux

(* initrd puts its image in place of the one before, which it loses.       *)
LEMMA InitrdKeeps ==
  ASSUME LoaderInv, NEW path, Initrd(path)
  PROVE  LoaderInv'
<1>1. CASE UNCHANGED <<heap, linux, asked>>
  BY <1>1 DEF Initrd, LoaderInv, Sound, Kept, Owned
<1>2. ASSUME active, NEW o \in Opened(heap), NEW p \in Fresh(o.heap), NEW what, what # Lost,
             heap' = Freed(Replaced(With(o.heap, p, what), linux.initrd.data), {o.file}),
             linux' = [linux EXCEPT !.initrd = [size |-> Files[path].size, data |-> p]],
             active' = active
      PROVE  LoaderInv'
  <2> DEFINE old == linux.initrd.data
             h == With(o.heap, p, what)
             k == linux.kernel.data
             c == linux.cmdline.data
  <2>1. /\ DOMAIN heap \subseteq Blocks /\ Kept(heap) = {k, old, c} \ {null}
        /\ Apart(linux) /\ IsLoader(linux)
    BY <1>2 DEF LoaderInv, Sound, Owned
  <2>2. /\ o.file \notin Kept(heap) /\ DOMAIN o.heap \subseteq Blocks
        /\ Kept(o.heap) = Kept(heap) \cup {o.file}
    BY <2>1, OpenedKept
  <2>3. /\ DOMAIN h \subseteq Blocks /\ Kept(h) = Kept(heap) \cup {o.file, p}
        /\ p # o.file /\ p \notin Kept(heap) /\ p # null
    <3>1. DOMAIN h \subseteq Blocks /\ Kept(h) = Kept(o.heap) \cup {p} /\ p \notin Kept(o.heap)
      BY <1>2, <2>2, WithKept
    <3> QED
      BY <2>2, <3>1, FreshIsFree
  <2>4. /\ DOMAIN Replaced(h, old) \subseteq Blocks
        /\ Kept(Replaced(h, old)) = Kept(h) \ {old}
    <3>1. CASE old = null
      BY <3>1, <2>1, <2>2, <2>3, BlocksAssumption DEF Replaced, Kept
    <3>2. CASE old # null
      <4>1. old \in DOMAIN h
        BY <3>2, <2>1, <2>3 DEF Kept
      <4> QED
        BY <3>2, <4>1, <2>3, DropKept DEF Replaced
    <3> QED
      BY <3>1, <3>2
  <2>5. DOMAIN heap' \subseteq Blocks /\ Kept(heap') = {k, p, c} \ {null}
    <3>1. /\ DOMAIN heap' \subseteq Blocks
          /\ Kept(heap') = (Kept(h) \ {old}) \ {o.file}
      BY <1>2, <2>4, FreedKept
    <3> QED
      BY <3>1, <2>1, <2>2, <2>3 DEF Apart
  <2>6. /\ IsRecord(linux', {"flags", "kernel", "initrd", "cmdline", "initrd_min_addr", "initrd_max_addr"})
        /\ linux'.kernel = linux.kernel /\ linux'.cmdline = linux.cmdline
        /\ linux'.initrd = [size |-> Files[path].size, data |-> p]
    BY <1>2, <2>1 DEF IsLoader, IsRecord
  <2>7. IsLoader(linux') /\ Apart(linux') /\ Owned(linux', TRUE) = {k, p, c} \ {null}
    BY <2>1, <2>3, <2>6 DEF IsLoader, IsBuffer, IsRecord, Apart, Owned
  <2> QED
    BY <1>2, <2>5, <2>7 DEF LoaderInv, Sound
<1>3. \/ UNCHANGED <<heap, linux, asked>>
      \/ /\ active
         /\ \E o \in Opened(heap) : \E p \in Fresh(o.heap) : \E what :
              /\ what # Lost
              /\ heap' = Freed(Replaced(With(o.heap, p, what), linux.initrd.data), {o.file})
              /\ linux' = [linux EXCEPT !.initrd = [size |-> Files[path].size, data |-> p]]
  BY NotLost DEF Initrd
<1>4. active' = active
  BY DEF Initrd
<1> QED
  BY <1>1, <1>2, <1>3, <1>4

(* What the other commands take they give back or drop.                    *)
LEMMA ReadFileKept ==
  ASSUME DOMAIN heap \subseteq Blocks, NEW path, NEW r \in ReadFile(path)
  PROVE  /\ DOMAIN r.heap \subseteq Blocks
         /\ r.buf = null => r.heap = heap
         /\ r.buf # null => /\ r.buf \in DOMAIN r.heap /\ r.buf \notin Kept(heap)
                            /\ Kept(r.heap) = Kept(heap) \cup {r.buf}
<1>1. CASE r = [heap |-> heap, buf |-> null]
  BY <1>1
<1>2. ASSUME NEW o \in Opened(heap), NEW b \in Fresh(o.heap),
             r = [heap |-> Freed(With(o.heap, b, [file |-> path]), {o.file}), buf |-> b]
      PROVE  /\ DOMAIN r.heap \subseteq Blocks /\ r.buf # null
             /\ r.buf \in DOMAIN r.heap /\ r.buf \notin Kept(heap)
             /\ Kept(r.heap) = Kept(heap) \cup {r.buf}
  <2> DEFINE h == With(o.heap, b, [file |-> path])
  <2>1. /\ o.file \notin Kept(heap) /\ DOMAIN o.heap \subseteq Blocks
        /\ o.file \in DOMAIN o.heap /\ Kept(o.heap) = Kept(heap) \cup {o.file}
    BY OpenedKept
  <2>2. /\ DOMAIN h \subseteq Blocks /\ Kept(h) = Kept(heap) \cup {o.file, b}
        /\ b # o.file /\ b \notin Kept(heap) /\ b # null
    <3>1. [file |-> path] # Lost
      BY NotLost
    <3>2. DOMAIN h \subseteq Blocks /\ Kept(h) = Kept(o.heap) \cup {b} /\ b \notin Kept(o.heap)
      BY <2>1, <3>1, WithKept
    <3> QED
      BY <2>1, <3>2, FreshIsFree
  <2>3. DOMAIN r.heap \subseteq Blocks /\ Kept(r.heap) = Kept(h) \ {o.file}
    BY <1>2, <2>2, FreedKept
  <2>4. Kept(r.heap) = Kept(heap) \cup {b}
    BY <2>1, <2>2, <2>3
  <2>5. b \in DOMAIN r.heap
    BY <2>4 DEF Kept
  <2> QED
    BY <1>2, <2>2, <2>3, <2>4, <2>5
<1> QED
  BY <1>1, <1>2 DEF ReadFile

LEMMA ShowKeeps ==
  ASSUME LoaderInv, NEW command, NEW path, Show(command, path)
  PROVE  LoaderInv'
<1>1. PICK r \in ReadFile(path) :
        heap' = CASE r.buf = null -> r.heap
                  [] r.buf # null /\ command = "cat" /\ Files[path].size > IntMax ->
                       [r.heap EXCEPT ![r.buf] = Lost]
                  [] OTHER -> Freed(r.heap, {r.buf})
  BY DEF Show
<1>2. DOMAIN heap \subseteq Blocks
  BY DEF LoaderInv, Sound
<1>3. DOMAIN heap' \subseteq Blocks /\ Kept(heap') = Kept(heap)
  <2>1. /\ DOMAIN r.heap \subseteq Blocks
        /\ r.buf = null => r.heap = heap
        /\ r.buf # null => /\ r.buf \in DOMAIN r.heap /\ r.buf \notin Kept(heap)
                           /\ Kept(r.heap) = Kept(heap) \cup {r.buf}
    BY <1>2, ReadFileKept
  <2>2. CASE r.buf = null
    BY <1>1, <2>1, <2>2, <1>2
  <2>3. CASE r.buf # null
    <3>1. heap' = [r.heap EXCEPT ![r.buf] = Lost] \/ heap' = Freed(r.heap, {r.buf})
      BY <1>1, <2>3
    <3>2. DOMAIN heap' \subseteq Blocks /\ Kept(heap') = Kept(r.heap) \ {r.buf}
      BY <3>1, <2>1, <2>3, DropKept, FreedKept
    <3> QED
      BY <3>2, <2>1, <2>3
  <2> QED
    BY <2>2, <2>3
<1> QED
  BY <1>3 DEF Show, LoaderInv, Sound, Owned

LEMMA LsKeeps ==
  ASSUME LoaderInv, Ls
  PROVE  LoaderInv'
<1>1. PICK d \in Fresh(heap) : heap' \in {heap, With(heap, d, Lost)}
  BY DEF Ls
<1>2. d \in Blocks /\ d \notin DOMAIN heap
  BY FreshIsFree
<1>3. DOMAIN heap' \subseteq Blocks /\ Kept(heap') = Kept(heap)
  BY <1>1, <1>2 DEF LoaderInv, Sound, With, Kept
<1> QED
  BY <1>3 DEF Ls, LoaderInv, Sound, Owned
----------------------------------------------------------------------------
(* The loader's blocks and no others are in use: NothingLost, with what    *)
(* makes it inductive.                                                     *)
THEOREM LoaderInvariant == LoaderSpec => []LoaderInv
<1>1. LoaderInit => LoaderInv
  <2> SUFFICES ASSUME LoaderInit PROVE LoaderInv
    OBVIOUS
  <2>1. DOMAIN heap = {}
    BY DEF LoaderInit
  <2>2. IsLoader(linux) /\ Empty(linux)
    BY DEF LoaderInit, IsLoader, IsBuffer, IsRecord, NoBuffer, Empty
  <2> QED
    BY <2>1, <2>2 DEF LoaderInit, LoaderInv, Sound, Kept, Owned
<1>2. LoaderInv /\ [LoaderNext]_loaderVars => LoaderInv'
  <2> SUFFICES ASSUME LoaderInv, [LoaderNext]_loaderVars PROVE LoaderInv'
    OBVIOUS
  <2>1. CASE UNCHANGED <<heap, active, linux>>
    BY <2>1 DEF LoaderInv
  <2>2. ASSUME NEW m, Rmmod(m) PROVE LoaderInv'
    BY <2>1, <2>2 DEF Rmmod
  <2>3. CASE SearchCommand \/ Boot
    BY <2>1, <2>3 DEF SearchCommand, Boot
  <2>4. CASE Ls
    BY <2>4, LsKeeps
  <2>5. ASSUME NEW path, NEW args, Linux(path, args) PROVE LoaderInv'
    BY <2>5, LinuxKeeps
  <2>6. ASSUME NEW path, Initrd(path) PROVE LoaderInv'
    BY <2>6, InitrdKeeps
  <2>7. ASSUME NEW path, NEW command, Show(command, path) PROVE LoaderInv'
    BY <2>7, ShowKeeps
  <2>8. CASE UNCHANGED loaderVars
    BY <2>1, <2>8 DEF loaderVars
  <2> QED
    BY <2>2, <2>3, <2>4, <2>5, <2>6, <2>7, <2>8 DEF LoaderNext
<1> QED
  BY <1>1, <1>2, PTL DEF LoaderSpec

(* Whatever fails, every block is the loader's or one of those the code    *)
(* never frees, for all files, arguments and heaps.                        *)
THEOREM NeverLost == LoaderSpec => []NothingLost
<1>1. LoaderInv => NothingLost
  BY DEF LoaderInv, Sound, Kept, Owned, NothingLost
<1> QED
  BY <1>1, LoaderInvariant, PTL
----------------------------------------------------------------------------
(* What is booted belongs together: the proof of BootsTogether.  While the *)
(* loader is set, its blocks hold what was last asked for.                 *)

HeldFor(h, l, q) ==
  LET k == Files[q.kernel]
  IN /\ IsRecord(q, {"kernel", "args", "initrd", "excess"})
     /\ l.kernel.size = k.size /\ h[l.kernel.data] = [file |-> q.kernel]
     /\ l.initrd_min_addr = MinAddr(k) /\ l.initrd_max_addr = k.addr_max
     /\ IF l.initrd.data = null THEN q.initrd = null
        ELSE /\ q.initrd # null /\ l.initrd.size = Files[q.initrd].size
             /\ h[l.initrd.data] = [file |-> q.initrd, min |-> MinAddr(k), max |-> k.addr_max]
     /\ IF l.cmdline.data = null THEN q.args = <<>>
        ELSE /\ q.args # <<>> /\ l.cmdline.size = (q.excess + Text(q.args)) - 1
             /\ h[l.cmdline.data] = [args |-> q.args]

BootInv ==
  /\ LoaderInv
  /\ active => HeldFor(heap, linux, asked)
  /\ BootsTogether

(* The heap's operators keep what the other blocks hold.                   *)
LEMMA WithSame ==
  ASSUME NEW h, NEW b \in Fresh(h), NEW what
  PROVE  /\ With(h, b, what)[b] = what
         /\ \A x \in DOMAIN h : x \in DOMAIN With(h, b, what) /\ With(h, b, what)[x] = h[x]
  BY FreshIsFree DEF With

LEMMA FreedSame ==
  ASSUME NEW h, NEW bs
  PROVE  \A x \in DOMAIN h \ bs : x \in DOMAIN Freed(h, bs) /\ Freed(h, bs)[x] = h[x]
  BY DEF Freed

LEMMA OpenedSame ==
  ASSUME NEW h, NEW o \in Opened(h)
  PROVE  \A x \in DOMAIN h : x \in DOMAIN o.heap /\ x # o.file /\ o.heap[x] = h[x]
<1>1. PICK f \in Fresh(h) : o = [heap |-> With(h, f, FileCtx), file |-> f]
  BY DEF Opened
<1>2. f \notin DOMAIN h
  BY FreshIsFree
<1>3. \A x \in DOMAIN h : x \in DOMAIN With(h, f, FileCtx) /\ With(h, f, FileCtx)[x] = h[x]
  BY WithSame
<1> QED
  BY <1>1, <1>2, <1>3

(* A loader whose blocks keep what they hold is held as before.            *)
LEMMA StillHeld ==
  ASSUME NEW h, NEW g, NEW l, NEW q, HeldFor(h, l, q), l.kernel.data # null,
         \A b \in Owned(l, TRUE) : g[b] = h[b]
  PROVE  HeldFor(g, l, q)
<1>1. /\ g[l.kernel.data] = h[l.kernel.data]
      /\ l.initrd.data # null => g[l.initrd.data] = h[l.initrd.data]
      /\ l.cmdline.data # null => g[l.cmdline.data] = h[l.cmdline.data]
  BY DEF Owned
<1> QED
  BY <1>1 DEF HeldFor

(* What is shown and listed leaves the other blocks alone.                 *)
LEMMA ShowSame ==
  ASSUME LoaderInv, NEW command, NEW path, Show(command, path)
  PROVE  \A x \in Kept(heap) : heap'[x] = heap[x]
<1>1. PICK r \in ReadFile(path) :
        heap' = CASE r.buf = null -> r.heap
                  [] r.buf # null /\ command = "cat" /\ Files[path].size > IntMax ->
                       [r.heap EXCEPT ![r.buf] = Lost]
                  [] OTHER -> Freed(r.heap, {r.buf})
  BY DEF Show
<1>2. CASE r = [heap |-> heap, buf |-> null]
  BY <1>1, <1>2
<1>3. ASSUME NEW o \in Opened(heap), NEW b \in Fresh(o.heap),
             r = [heap |-> Freed(With(o.heap, b, [file |-> path]), {o.file}), buf |-> b]
      PROVE  \A x \in Kept(heap) : heap'[x] = heap[x]
  <2> SUFFICES ASSUME NEW x \in Kept(heap) PROVE heap'[x] = heap[x]
    OBVIOUS
  <2> DEFINE w == With(o.heap, b, [file |-> path])
             f == Freed(w, {o.file})
  <2>0. x \in DOMAIN heap
    BY DEF Kept
  <2>1. x \in DOMAIN o.heap /\ x # o.file /\ o.heap[x] = heap[x]
    BY <2>0, OpenedSame
  <2>2. x # b /\ b # null
    BY <2>1, FreshIsFree
  <2>3. x \in DOMAIN w /\ w[x] = heap[x]
    BY <2>1, WithSame
  <2>4. x \in DOMAIN f /\ f[x] = heap[x]
    <3> HIDE DEF w
    <3> QED
      BY <2>1, <2>3, FreedSame
  <2>5. r.heap = f /\ r.buf = b
    BY <1>3
  <2> HIDE DEF f
  <2>6. [f EXCEPT ![b] = Lost][x] = heap[x]
    BY <2>2, <2>4
  <2>7. Freed(f, {b})[x] = heap[x]
    BY <2>2, <2>4, FreedSame
  <2>8. heap' = [f EXCEPT ![b] = Lost] \/ heap' = Freed(f, {b})
    BY <1>1, <2>2, <2>5
  <2> QED
    BY <2>6, <2>7, <2>8
<1> QED
  BY <1>1, <1>2, <1>3 DEF ReadFile

LEMMA LsSame ==
  ASSUME Ls
  PROVE  \A x \in Kept(heap) : heap'[x] = heap[x]
<1>1. PICK d \in Fresh(heap) : heap' \in {heap, With(heap, d, Lost)}
  BY DEF Ls
<1>2. \A x \in DOMAIN heap : With(heap, d, Lost)[x] = heap[x]
  BY WithSame
<1> QED
  BY <1>1, <1>2 DEF Kept

(* linux: the loader it sets holds the file and the arguments given.       *)
LEMMA LinuxHolds ==
  ASSUME LoaderInv, NEW path, NEW args, Linux(path, args)
  PROVE  active' => HeldFor(heap', linux', asked')
<1> DEFINE r == LoaderRemove
<1>0. SUFFICES ASSUME active' PROVE HeldFor(heap', linux', asked')
  OBVIOUS
<1>1. DOMAIN r.heap \subseteq Blocks /\ IsLoader(r.linux) /\ Empty(r.linux)
  BY RemoveKept
<1>2. PICK o \in Opened(r.heap) : \E kbuf \in Fresh(o.heap) :
        LET loaded == [heap |-> With(o.heap, kbuf, [file |-> path]), file |-> o.file]
            l == Prepared(r.linux, path, kbuf)
        IN CmdlineSet(loaded, l, path, args)
  BY <1>0 DEF Linux, Removed, CmdlineFails
<1>2a. PICK kbuf \in Fresh(o.heap) :
        LET loaded == [heap |-> With(o.heap, kbuf, [file |-> path]), file |-> o.file]
            l == Prepared(r.linux, path, kbuf)
        IN CmdlineSet(loaded, l, path, args)
  BY <1>2
<1> DEFINE h == With(o.heap, kbuf, [file |-> path])
           loaded == [heap |-> h, file |-> o.file]
           l == Prepared(r.linux, path, kbuf)
           k == Files[path]
           d == [h EXCEPT ![o.file] = Lost]
           q == [kernel |-> path, args |-> args, initrd |-> null, excess |-> l.cmdline.size]
<1>3. /\ IsRecord(l, {"flags", "kernel", "initrd", "cmdline", "initrd_min_addr", "initrd_max_addr"})
      /\ l.kernel = [size |-> k.size, data |-> kbuf]
      /\ l.initrd = r.linux.initrd /\ l.cmdline = r.linux.cmdline
      /\ l.initrd_min_addr = MinAddr(k) /\ l.initrd_max_addr = k.addr_max
  <2> HIDE DEF r
  <2> QED
    BY <1>1 DEF Prepared, IsLoader, IsRecord
<1>4. l.initrd.data = null /\ l.cmdline.data = null
  BY <1>1, <1>3 DEF Empty
<1>5. kbuf \in DOMAIN h /\ kbuf # null /\ kbuf # o.file /\ h[kbuf] = [file |-> path]
  <2>1. o.file \in DOMAIN o.heap
    BY <1>1, OpenedKept
  <2>2. kbuf \notin DOMAIN o.heap /\ kbuf # null
    BY FreshIsFree
  <2>3. h[kbuf] = [file |-> path]
    BY WithSame
  <2> QED
    BY <2>1, <2>2, <2>3 DEF With
<1>6. kbuf \in DOMAIN d /\ d[kbuf] = [file |-> path]
  <2> HIDE DEF h
  <2> QED
    BY <1>5
<1>7. loaded.heap = h /\ loaded.file = o.file
  OBVIOUS
<1> HIDE DEF r, h, l
<1>8. CmdlineSet(loaded, l, path, args)
  BY <1>2a DEF r, h, l
<1>9. asked' = q
  BY <1>8 DEF CmdlineSet
<1>10. /\ IsRecord(q, {"kernel", "args", "initrd", "excess"})
       /\ q.kernel = path /\ q.args = args /\ q.initrd = null /\ q.excess = l.cmdline.size
  BY DEF IsRecord
<1> HIDE DEF q, d
<1>11. CASE args = <<>> /\ heap' = d /\ linux' = l
  BY <1>3, <1>4, <1>6, <1>9, <1>10, <1>11 DEF HeldFor
<1>12. ASSUME args # <<>>, NEW c \in Fresh(d), heap' = With(d, c, [args |-> args]),
              linux' = [l EXCEPT !.cmdline = [size |-> (l.cmdline.size + Text(args)) - 1, data |-> c]]
       PROVE  HeldFor(heap', linux', asked')
  <2>1. heap'[c] = [args |-> args] /\ heap'[kbuf] = [file |-> path] /\ c # null
    <3>1. c # null
      BY <1>12, FreshIsFree
    <3>2. With(d, c, [args |-> args])[c] = [args |-> args]
      BY WithSame
    <3>3. With(d, c, [args |-> args])[kbuf] = d[kbuf]
      BY <1>6, WithSame
    <3> QED
      BY <1>12, <1>6, <3>1, <3>2, <3>3
  <2>2. /\ linux'.kernel = l.kernel /\ linux'.initrd = l.initrd
        /\ linux'.initrd_min_addr = l.initrd_min_addr /\ linux'.initrd_max_addr = l.initrd_max_addr
        /\ linux'.cmdline = [size |-> (l.cmdline.size + Text(args)) - 1, data |-> c]
    BY <1>12, <1>3 DEF IsRecord
  <2>3. /\ linux'.cmdline.data = c
        /\ linux'.cmdline.size = (q.excess + Text(args)) - 1
    BY <2>2, <1>10
  <2> QED
    BY <2>1, <2>2, <2>3, <1>3, <1>4, <1>9, <1>10, <1>12 DEF HeldFor
<1> QED
  BY <1>7, <1>8, <1>11, <1>12 DEF CmdlineSet, d

(* initrd: the loader set holds the image as well, within its bounds.      *)
LEMMA InitrdHolds ==
  ASSUME LoaderInv, active => HeldFor(heap, linux, asked),
         NEW path \in DOMAIN Files, Initrd(path)
  PROVE  active' => HeldFor(heap', linux', asked')
<1>1. CASE UNCHANGED <<heap, linux, asked>>
  BY <1>1 DEF Initrd, HeldFor, Owned
<1>2. CASE ~ UNCHANGED <<heap, linux, asked>>
  <2> DEFINE what == [file |-> path, min |-> linux.initrd_min_addr, max |-> linux.initrd_max_addr]
             old == linux.initrd.data
  <2>0. PICK o \in Opened(heap) : \E p \in Fresh(o.heap) :
          /\ heap' = Freed(Replaced(With(o.heap, p, what), old), {o.file})
          /\ linux' = [linux EXCEPT !.initrd = [size |-> Files[path].size, data |-> p]]
          /\ asked' = [asked EXCEPT !.initrd = path]
    BY <1>2 DEF Initrd
  <2>1. PICK p \in Fresh(o.heap) :
          /\ heap' = Freed(Replaced(With(o.heap, p, what), old), {o.file})
          /\ linux' = [linux EXCEPT !.initrd = [size |-> Files[path].size, data |-> p]]
          /\ asked' = [asked EXCEPT !.initrd = path]
    BY <2>0
  <2>2. active /\ active' = active
    BY <1>2 DEF Initrd
  <2>3. /\ HeldFor(heap, linux, asked) /\ Apart(linux) /\ IsLoader(linux)
        /\ DOMAIN heap \subseteq Blocks
        /\ Kept(heap) = {linux.kernel.data, old, linux.cmdline.data} \ {null}
    BY <2>2 DEF LoaderInv, Sound, Owned
  <2> DEFINE w == With(o.heap, p, what)
             g == Replaced(w, old)
  <2>4. w[p] = what /\ p \in DOMAIN w /\ p # o.file /\ p # null /\ p # old
    <3>1. p \notin DOMAIN o.heap /\ p # null
      BY FreshIsFree
    <3>2. o.file \in DOMAIN o.heap
      BY <2>3, OpenedKept
    <3>3. old # null => old \in DOMAIN heap
      BY <2>3 DEF Kept
    <3>4. old # null => old \in DOMAIN o.heap
      BY <3>3, OpenedSame
    <3>5. w[p] = what
      BY WithSame
    <3> QED
      BY <3>1, <3>2, <3>4, <3>5 DEF With
  <2>5. ASSUME NEW x \in Kept(heap), x # old
        PROVE  heap'[x] = heap[x]
    <3>1. x \in DOMAIN heap
      BY DEF Kept
    <3>2. x \in DOMAIN o.heap /\ x # o.file /\ o.heap[x] = heap[x]
      BY <3>1, OpenedSame
    <3>3. x \in DOMAIN w /\ w[x] = heap[x]
      BY <3>2, WithSame
    <3> HIDE DEF w
    <3>4. x \in DOMAIN g /\ g[x] = heap[x]
      BY <2>5, <3>3 DEF Replaced
    <3> HIDE DEF g
    <3>5. Freed(g, {o.file})[x] = heap[x]
      BY <3>2, <3>4, FreedSame
    <3> QED
      BY <2>1, <3>5 DEF g, w
  <2>6. heap'[p] = what
    <3> HIDE DEF w, what
    <3>1. p \in DOMAIN g /\ g[p] = what
      BY <2>4 DEF Replaced
    <3> HIDE DEF g
    <3>2. Freed(g, {o.file})[p] = what
      BY <2>4, <3>1, FreedSame
    <3> QED
      BY <2>1, <3>2 DEF g, w
  <2>7. /\ linux'.kernel = linux.kernel /\ linux'.cmdline = linux.cmdline
        /\ linux'.initrd_min_addr = linux.initrd_min_addr
        /\ linux'.initrd_max_addr = linux.initrd_max_addr
        /\ linux'.initrd = [size |-> Files[path].size, data |-> p]
    BY <2>1, <2>3 DEF IsLoader, IsRecord
  <2>8. /\ IsRecord(asked', {"kernel", "args", "initrd", "excess"})
        /\ asked'.kernel = asked.kernel /\ asked'.args = asked.args
        /\ asked'.excess = asked.excess /\ asked'.initrd = path
    BY <2>1, <2>3 DEF HeldFor, IsRecord
  <2>9. /\ heap'[linux.kernel.data] = heap[linux.kernel.data]
        /\ linux.cmdline.data # null => heap'[linux.cmdline.data] = heap[linux.cmdline.data]
    BY <2>3, <2>5 DEF Apart
  <2>10. path # null
    BY FilesAssumption
  <2>11. /\ linux'.initrd.size = Files[path].size /\ linux'.initrd.data = p
    BY <2>7
  <2> HIDE DEF Kept
  <2> QED
    BY <2>3, <2>4, <2>6, <2>7, <2>8, <2>9, <2>10, <2>11 DEF HeldFor
<1> QED
  BY <1>1, <1>2

(* boot hands over what the loader's blocks hold.                          *)
LEMMA BootHands ==
  ASSUME BootInv, Boot
  PROVE  BootsTogether'
<1>1. /\ HeldFor(heap, linux, asked) /\ Apart(linux) /\ asked' = asked
      /\ booted' = [kernel |-> Held(linux.kernel), ramdisk |-> Handed(linux.initrd),
                    cmdline |-> Handed(linux.cmdline)]
  BY DEF BootInv, LoaderInv, Sound, Boot
<1>2. Held(linux.kernel) = [size |-> Files[asked.kernel].size, what |-> [file |-> asked.kernel]]
  BY <1>1 DEF Held, HeldFor
<1>3. Handed(linux.initrd) = Image(asked.initrd, asked.kernel)
  BY <1>1 DEF Held, Handed, HeldFor, Image
<1>4. Handed(linux.cmdline) =
        IF asked.args = <<>> THEN [size |-> 0, what |-> null]
        ELSE [size |-> (asked.excess + Text(asked.args)) - 1, what |-> [args |-> asked.args]]
  BY <1>1 DEF Held, Handed, HeldFor
<1> QED
  BY <1>1, <1>2, <1>3, <1>4 DEF BootsTogether, Image
----------------------------------------------------------------------------
(* What the loader holds is what was asked for last, and what is booted is *)
(* that: BootsTogether, with what makes it inductive.                      *)
THEOREM BootInvariant == LoaderSpec => []BootInv
<1>1. LoaderInit /\ LoaderInv => BootInv
  BY DEF LoaderInit, BootInv, BootsTogether
<1>2. LoaderInv' /\ BootInv /\ [LoaderNext]_loaderVars => BootInv'
  <2> SUFFICES ASSUME LoaderInv', BootInv, [LoaderNext]_loaderVars PROVE BootInv'
    OBVIOUS
  <2> USE DEF BootInv
  <2>1. CASE UNCHANGED <<heap, active, linux, asked, booted>>
    BY <2>1 DEF HeldFor, BootsTogether, Image
  <2>2. ASSUME Running, booted' = booted PROVE BootsTogether'
    BY <2>2 DEF Running, BootsTogether
  <2>3. ASSUME NEW m, Rmmod(m) PROVE BootInv'
    BY <2>1, <2>3 DEF Rmmod
  <2>4. CASE SearchCommand
    BY <2>1, <2>4 DEF SearchCommand
  <2>5. CASE Boot
    <3>1. BootsTogether'
      BY <2>5, BootHands
    <3>2. UNCHANGED <<heap, active, linux, asked>>
      BY <2>5 DEF Boot
    <3> QED
      BY <3>1, <3>2 DEF HeldFor
  <2>6. ASSUME \A x \in Kept(heap) : heap'[x] = heap[x],
               UNCHANGED <<active, linux, asked>>
        PROVE  active' => HeldFor(heap', linux', asked')
    <3>1. CASE active
      <4>1. /\ Kept(heap) = Owned(linux, TRUE) /\ linux.kernel.data # null
            /\ HeldFor(heap, linux, asked)
        BY <3>1 DEF LoaderInv, Sound, Apart
      <4>2. HeldFor(heap', linux, asked)
        BY <4>1, <2>6, StillHeld
      <4> QED
        BY <2>6, <4>2
    <3> QED
      BY <3>1, <2>6
  <2>7. CASE Ls
    <3>1. \A x \in Kept(heap) : heap'[x] = heap[x]
      BY <2>7, LsSame
    <3> QED
      BY <3>1, <2>2, <2>6, <2>7 DEF Ls
  <2>8. ASSUME NEW path, NEW command, Show(command, path) PROVE BootInv'
    <3>1. \A x \in Kept(heap) : heap'[x] = heap[x]
      BY <2>8, ShowSame
    <3> QED
      BY <3>1, <2>2, <2>6, <2>8 DEF Show
  <2>9. ASSUME NEW path, NEW args, Linux(path, args) PROVE BootInv'
    <3>1. active' => HeldFor(heap', linux', asked')
      BY <2>9, LinuxHolds
    <3> QED
      BY <3>1, <2>2, <2>9 DEF Linux
  <2>10. ASSUME NEW path \in DOMAIN Files, Initrd(path) PROVE BootInv'
    <3>1. active' => HeldFor(heap', linux', asked')
      BY <2>10, InitrdHolds
    <3> QED
      BY <3>1, <2>2, <2>10 DEF Initrd
  <2>11. CASE UNCHANGED loaderVars
    BY <2>1, <2>11 DEF loaderVars
  <2> QED
    BY <2>3, <2>4, <2>5, <2>7, <2>8, <2>9, <2>10, <2>11 DEF LoaderNext
<1> QED
  BY <1>1, <1>2, LoaderInvariant, PTL DEF LoaderSpec

(* What is booted are the kernel, the image and the arguments of the last  *)
(* linux and initrd, whole and unmixed, for all files, arguments and       *)
(* heaps, whatever has failed before.                                      *)
THEOREM BootedTogether == LoaderSpec => []BootsTogether
<1>1. BootInv => BootsTogether
  BY DEF BootInv
<1> QED
  BY <1>1, BootInvariant, PTL

----------------------------------------------------------------------------
(* Functions on the natural numbers that go on step by step.               *)

(* The least element of a set of numbers: induction without an operator.   *)
LEMMA LeastElement ==
  ASSUME NEW T \in SUBSET Nat, T # {}
  PROVE  \E m \in T : \A k \in T : m <= k
<1> DEFINE R == {ss \in Nat \X Nat : ss[1] < ss[2]}
<1>1. IsWellFoundedOn(R, Nat)
  BY NatLessThanWellFounded, Zenon DEF OpToRel
<1>2. PICK x \in T : \A y \in T : ~ (<<y, x>> \in R)
  BY <1>1, WFMin
<1>3. ASSUME NEW y \in T PROVE x <= y
  <2>1. ~ (y < x)
    BY <1>2
  <2> QED
    BY <2>1
<1> QED
  BY <1>3

(* From c on, each value is what g makes of the one before.                *)
GoesOn(h, n, S, c, g) ==
  h \in [0..n -> S] /\ h[0] = c /\ \A i \in 0..n : i < n => h[i + 1] = g[i][h[i]]
GoesOnForEver(h, S, c, g) ==
  h \in [Nat -> S] /\ h[0] = c /\ \A i \in Nat : h[i + 1] = g[i][h[i]]

LEMMA GoesOnUnique ==
  ASSUME NEW S, NEW c, NEW g, NEW m \in Nat, NEW n \in Nat, NEW h, NEW k,
         GoesOn(h, m, S, c, g), GoesOn(k, n, S, c, g), NEW i \in Nat, i <= m, i <= n
  PROVE  h[i] = k[i]
<1> DEFINE T == {j \in Nat : j <= m /\ j <= n /\ h[j] # k[j]}
<1>1. T = {}
  <2> SUFFICES ASSUME T # {} PROVE FALSE
    OBVIOUS
  <2>1. PICK j \in T : \A l \in T : j <= l
    <3>1. T \in SUBSET Nat
      OBVIOUS
    <3> HIDE DEF T
    <3> QED
      BY <3>1, LeastElement
  <2>2. j \in Nat /\ j <= m /\ j <= n /\ h[j] # k[j]
    BY <2>1
  <2>3. j # 0
    BY <2>2 DEF GoesOn
  <2>4. j - 1 \in Nat /\ j - 1 <= m /\ j - 1 <= n /\ ~ (j <= j - 1)
    BY <2>2, <2>3
  <2>5. j - 1 \notin T
    <3> HIDE DEF T
    <3> QED
      BY <2>1, <2>4
  <2>6. h[j - 1] = k[j - 1]
    BY <2>4, <2>5
  <2>7. j - 1 \in 0..m /\ j - 1 < m /\ j - 1 \in 0..n /\ j - 1 < n /\ (j - 1) + 1 = j
    BY <2>2, <2>3
  <2>8. h[j] = g[j - 1][h[j - 1]] /\ k[j] = g[j - 1][k[j - 1]]
    BY <2>7 DEF GoesOn
  <2> QED
    BY <2>2, <2>6, <2>8
<1> QED
  BY <1>1

LEMMA GoesOnExists ==
  ASSUME NEW S, NEW c \in S, NEW g \in [Nat -> [S -> S]], NEW n \in Nat
  PROVE  \E h : GoesOn(h, n, S, c, g)
<1> DEFINE T == {j \in Nat : ~ \E h : GoesOn(h, j, S, c, g)}
<1>1. T = {}
  <2> SUFFICES ASSUME T # {} PROVE FALSE
    OBVIOUS
  <2>1. PICK j \in T : \A l \in T : j <= l
    <3>1. T \in SUBSET Nat
      OBVIOUS
    <3> HIDE DEF T
    <3> QED
      BY <3>1, LeastElement
  <2>2. j \in Nat /\ ~ \E h : GoesOn(h, j, S, c, g)
    BY <2>1
  <2>3. j # 0
    <3> DEFINE z == [i \in 0..0 |-> c]
    <3>1. z \in [0..0 -> S] /\ z[0] = c
      OBVIOUS
    <3>2. \A i \in 0..0 : ~ (i < 0)
      OBVIOUS
    <3> HIDE DEF z
    <3>3. GoesOn(z, 0, S, c, g)
      BY <3>1, <3>2 DEF GoesOn
    <3> QED
      BY <2>2, <3>3
  <2>4. j - 1 \in Nat /\ ~ (j <= j - 1)
    BY <2>2, <2>3
  <2>5. j - 1 \notin T
    <3> HIDE DEF T
    <3> QED
      BY <2>1, <2>4
  <2>6. PICK k : GoesOn(k, j - 1, S, c, g)
    BY <2>4, <2>5
  <2> DEFINE h == [i \in 0..j |-> IF i = j THEN g[j - 1][k[j - 1]] ELSE k[i]]
  <2>7. j - 1 \in 0..(j - 1) /\ k \in [0..(j - 1) -> S]
    BY <2>4, <2>6 DEF GoesOn
  <2>8. ASSUME NEW i \in 0..j PROVE (IF i = j THEN g[j - 1][k[j - 1]] ELSE k[i]) \in S
    <3>1. k[j - 1] \in S /\ g[j - 1] \in [S -> S]
      BY <2>4, <2>7
    <3>2. i # j => i \in 0..(j - 1)
      BY <2>2
    <3> QED
      BY <2>7, <3>1, <3>2
  <2>9. h \in [0..j -> S]
    BY <2>8
  <2>10. h[0] = c
    <3>1. 0 \in 0..j /\ 0 # j
      BY <2>2, <2>3
    <3> QED
      BY <3>1, <2>6 DEF GoesOn
  <2>11. ASSUME NEW i \in 0..j, i < j PROVE h[i + 1] = g[i][h[i]]
    <3>1. i + 1 \in 0..j /\ i # j /\ i \in 0..(j - 1)
      BY <2>2, <2>11
    <3>2. CASE i + 1 = j
      <4>1. i = j - 1
        BY <2>2, <3>1, <3>2
      <4> QED
        BY <3>1, <3>2, <4>1
    <3>3. CASE i + 1 # j
      <4>1. i < j - 1
        BY <2>2, <3>1, <3>3
      <4>2. k[i + 1] = g[i][k[i]]
        BY <2>6, <3>1, <4>1 DEF GoesOn
      <4> QED
        BY <3>1, <3>3, <4>2
    <3> QED
      BY <3>2, <3>3
  <2> HIDE DEF h
  <2>12. GoesOn(h, j, S, c, g)
    BY <2>9, <2>10, <2>11 DEF GoesOn
  <2> QED
    BY <2>2, <2>12
<1> QED
  BY <1>1

LEMMA GoesOnThere ==
  ASSUME NEW S, NEW c \in S, NEW g \in [Nat -> [S -> S]]
  PROVE  \E h : GoesOnForEver(h, S, c, g)
<1> DEFINE k(n) == CHOOSE h : GoesOn(h, n, S, c, g)
<1>1. ASSUME NEW n \in Nat PROVE GoesOn(k(n), n, S, c, g)
  BY GoesOnExists
<1> HIDE DEF k
<1> DEFINE h == [n \in Nat |-> k(n)[n]]
<1>2. ASSUME NEW n \in Nat PROVE k(n)[n] \in S
  <2>1. n \in 0..n
    OBVIOUS
  <2> QED
    BY <1>1, <2>1 DEF GoesOn
<1>3. h \in [Nat -> S]
  BY <1>2
<1>4. h[0] = c
  BY <1>1 DEF GoesOn
<1>5. ASSUME NEW i \in Nat PROVE h[i + 1] = g[i][h[i]]
  <2>1. i + 1 \in Nat /\ i \in 0..(i + 1) /\ i < i + 1 /\ i <= i /\ i <= i + 1
    OBVIOUS
  <2>2. k(i + 1)[i + 1] = g[i][k(i + 1)[i]]
    BY <1>1, <2>1 DEF GoesOn
  <2>3. k(i)[i] = k(i + 1)[i]
    BY <1>1, <2>1, GoesOnUnique
  <2> QED
    BY <2>1, <2>2, <2>3
<1> HIDE DEF h
<1>6. GoesOnForEver(h, S, c, g)
  BY <1>3, <1>4, <1>5 DEF GoesOnForEver
<1> QED
  BY <1>6
----------------------------------------------------------------------------
(* The numbers of a volume.                                                *)

OnVolume == name \in DOMAIN Volumes
Link(c) == FatEntry(vol, c) % Mask28

LEMMA LinkIs == OnVolume => \A c \in Nat : FatEntry(vol, c) \in Nat /\ Link(c) \in Nat
<1> SUFFICES ASSUME OnVolume, NEW c \in Nat PROVE FatEntry(vol, c) \in Nat /\ Link(c) \in Nat
  OBVIOUS
<1>1. Numbers(vol)
  BY VolumesAssumption DEF OnVolume, vol
<1>2. FatEntry(vol, c) \in Nat
  BY <1>1 DEF Numbers, FatEntry
<1> QED
  BY <1>2 DEF Link, Mask28

(* The clusters that follow one.                                           *)
LEMMA FollowIs ==
  ASSUME OnVolume, NEW c \in Nat
  PROVE  /\ Follow(c) \in [Nat -> Nat] /\ Follow(c)[0] = c
         /\ \A i \in Nat : Follow(c)[i + 1] = Link(Follow(c)[i])
<1> DEFINE g == [i \in Nat |-> [x \in Nat |-> Link(x)]]
           at[i \in Nat] == IF i = 0 THEN c ELSE FatEntry(vol, at[i - 1]) % Mask28
<1>1. \A x \in Nat : Link(x) \in Nat
  BY LinkIs
<1>2. g \in [Nat -> [Nat -> Nat]]
  BY <1>1
<1>3. \A i, x \in Nat : g[i][x] = Link(x)
  OBVIOUS
<1>4. PICK h : GoesOnForEver(h, Nat, c, g)
  <2> HIDE DEF g
  <2> QED
    BY <1>2, GoesOnThere
<1>5. h \in [Nat -> Nat] /\ h[0] = c /\ \A i \in Nat : h[i + 1] = g[i][h[i]]
  BY <1>4 DEF GoesOnForEver
<1> HIDE DEF g
<1>6. \A i \in Nat : h[i + 1] = Link(h[i])
  BY <1>3, <1>5
<1>7. ASSUME NEW i \in Nat
      PROVE  h[i] = IF i = 0 THEN c ELSE FatEntry(vol, h[i - 1]) % Mask28
  <2>1. CASE i = 0
    BY <1>5, <2>1
  <2>2. CASE i # 0
    <3>1. i - 1 \in Nat /\ (i - 1) + 1 = i
      BY <2>2
    <3>2. h[i] = Link(h[i - 1])
      BY <1>6, <3>1
    <3> QED
      BY <2>2, <3>2 DEF Link
  <2> QED
    BY <2>1, <2>2
<1>8. h = [i \in Nat |-> IF i = 0 THEN c ELSE FatEntry(vol, h[i - 1]) % Mask28]
  BY <1>5, <1>7
<1>9. at = [i \in Nat |-> IF i = 0 THEN c ELSE FatEntry(vol, at[i - 1]) % Mask28]
  BY <1>8
<1>10. Follow(c) = at
  BY DEF Follow
<1> HIDE DEF at
<1>11. ASSUME NEW i \in Nat
       PROVE  at[i] = IF i = 0 THEN c ELSE FatEntry(vol, at[i - 1]) % Mask28
  BY <1>9
<1>12. at[0] = c
  BY <1>11
<1>13. ASSUME NEW i \in Nat PROVE at[i + 1] = Link(at[i])
  <2>1. i + 1 \in Nat /\ i + 1 # 0 /\ (i + 1) - 1 = i
    OBVIOUS
  <2>2. at[i + 1] = FatEntry(vol, at[(i + 1) - 1]) % Mask28
    BY <1>11, <2>1
  <2> QED
    BY <2>1, <2>2 DEF Link
<1>14. \A i \in Nat : at[i] \in Nat
  <2> DEFINE T == {i \in Nat : at[i] \notin Nat}
  <2> SUFFICES ASSUME T # {} PROVE FALSE
    OBVIOUS
  <2>1. PICK j \in T : \A l \in T : j <= l
    <3>1. T \in SUBSET Nat
      OBVIOUS
    <3> HIDE DEF T
    <3> QED
      BY <3>1, LeastElement
  <2>2. j \in Nat /\ j # 0
    BY <1>12, <2>1
  <2>3. j - 1 \in Nat /\ (j - 1) + 1 = j /\ ~ (j <= j - 1)
    BY <2>2
  <2>4. j - 1 \notin T
    <3> HIDE DEF T
    <3> QED
      BY <2>1, <2>3
  <2>5. at[j - 1] \in Nat
    BY <2>3, <2>4
  <2>6. at[j] \in Nat
    BY <1>1, <1>13, <2>3, <2>5
  <2> QED
    BY <2>1, <2>6
<1>15. at \in [Nat -> Nat]
  BY <1>9, <1>14
<1> QED
  BY <1>10, <1>12, <1>13, <1>15

(* Stretches of the volume.                                                *)
Stretch == [off : Int, len : Int]

LEMMA ExtendIs ==
  ASSUME NEW P \in Seq(Stretch), NEW off \in Int, NEW len \in Int
  PROVE  /\ Extend(P, off, len) \in Seq(Stretch)
         /\ Extend(P, off, len) # <<>>
         /\ Last(Extend(P, off, len)).off + Last(Extend(P, off, len)).len = off + len
<1>1. CASE P # <<>> /\ Last(P).off + Last(P).len = off
  <2> DEFINE n == Len(P)
             Q == [P EXCEPT ![n].len = @ + len]
  <2>1. n \in Nat \ {0} /\ n \in 1..n /\ P \in [1..n -> Stretch]
    BY <1>1, EmptySeq, LenProperties
  <2>2. P[n] \in Stretch /\ Last(P) = P[n]
    BY <2>1 DEF Last
  <2>3. Q = [i \in 1..n |-> IF i = n THEN [P[n] EXCEPT !.len = @ + len] ELSE P[i]]
    BY <2>1
  <2>4. [P[n] EXCEPT !.len = @ + len] = [off |-> P[n].off, len |-> P[n].len + len]
    BY <2>2 DEF Stretch
  <2>5. [off |-> P[n].off, len |-> P[n].len + len] \in Stretch
    BY <2>2 DEF Stretch
  <2>6. Q \in [1..n -> Stretch] /\ Q[n] = [off |-> P[n].off, len |-> P[n].len + len]
    BY <2>1, <2>3, <2>4, <2>5
  <2>7. Q \in Seq(Stretch) /\ Len(Q) = n
    <3> HIDE DEF Q
    <3> QED
      BY <2>1, <2>6, LenProperties
  <2>8. Last(Q) = Q[n]
    BY <2>7 DEF Last
  <2>9. Extend(P, off, len) = Q
    BY <1>1 DEF Extend
  <2>10. Q # <<>>
    BY <2>1, <2>7, EmptySeq
  <2> HIDE DEF Q
  <2>11. Q[n].off + Q[n].len = P[n].off + (P[n].len + len) /\ P[n].off \in Int /\ P[n].len \in Int
    BY <2>2, <2>6 DEF Stretch
  <2>12. P[n].off + P[n].len = off
    BY <1>1, <2>2
  <2> QED
    BY <2>7, <2>8, <2>9, <2>10, <2>11, <2>12
<1>2. CASE ~(P # <<>> /\ Last(P).off + Last(P).len = off)
  <2> DEFINE r == [off |-> off, len |-> len]
  <2>1. r \in Stretch
    BY DEF Stretch
  <2>2. Extend(P, off, len) = Append(P, r)
    BY <1>2 DEF Extend
  <2> HIDE DEF r
  <2>3. /\ Append(P, r) \in Seq(Stretch) /\ Len(Append(P, r)) = Len(P) + 1 /\ Len(P) \in Nat
        /\ Append(P, r)[Len(P) + 1] = r
    BY <2>1, AppendProperties, LenProperties
  <2>4. Last(Append(P, r)) = r /\ Append(P, r) # <<>>
    BY <2>3, EmptySeq DEF Last
  <2>5. r.off + r.len = off + len
    BY DEF r
  <2> QED
    BY <2>2, <2>3, <2>4, <2>5
<1> QED
  BY <1>1, <1>2

(* What goes on where a stretch ends makes it longer.                      *)
LEMMA ExtendTwice ==
  ASSUME NEW P \in Seq(Stretch), NEW off \in Int, NEW a \in Int, NEW b \in Int
  PROVE  Extend(Extend(P, off, a), off + a, b) = Extend(P, off, a + b)
<1> DEFINE E == Extend(P, off, a)
<1>1. E \in Seq(Stretch) /\ E # <<>> /\ Last(E).off + Last(E).len = off + a
  BY ExtendIs
<1>2. Extend(E, off + a, b) = [E EXCEPT ![Len(E)].len = @ + b]
  <2> HIDE DEF E
  <2> QED
    BY <1>1 DEF Extend
<1>3. CASE P # <<>> /\ Last(P).off + Last(P).len = off
  <2> DEFINE n == Len(P)
  <2>1. n \in Nat \ {0} /\ n \in 1..n /\ P \in [1..n -> Stretch]
    BY <1>3, EmptySeq, LenProperties
  <2>2. P[n] \in Stretch
    BY <2>1
  <2>3. E = [P EXCEPT ![n].len = @ + a]
    BY <1>3 DEF Extend
  <2>4. Extend(P, off, a + b) = [P EXCEPT ![n].len = @ + (a + b)]
    BY <1>3 DEF Extend
  <2> HIDE DEF E
  <2>5. Len(E) = n
    <3>1. E \in [1..n -> Stretch]
      <4>1. E \in [1..Len(E) -> Stretch] /\ DOMAIN E = 1..n
        BY <1>1, <2>1, <2>3, LenProperties
      <4> QED
        BY <4>1
    <3> QED
      BY <1>1, <2>1, <3>1, LenProperties
  <2>6. [E EXCEPT ![n].len = @ + b] = [P EXCEPT ![n].len = @ + (a + b)]
    <3>1. [P EXCEPT ![n].len = @ + (a + b)]
            = [i \in 1..n |-> IF i = n THEN [P[n] EXCEPT !.len = @ + (a + b)] ELSE P[i]]
      BY <2>1
    <3>2. E = [i \in 1..n |-> IF i = n THEN [P[n] EXCEPT !.len = @ + a] ELSE P[i]]
      BY <2>1, <2>3
    <3>3. E[n] = [P[n] EXCEPT !.len = @ + a] /\ \A i \in 1..n : i # n => E[i] = P[i]
      BY <2>1, <3>2
    <3>4. [E EXCEPT ![n].len = @ + b]
            = [i \in 1..n |-> IF i = n THEN [E[n] EXCEPT !.len = @ + b] ELSE E[i]]
      BY <2>1, <3>2
    <3>5. [E[n] EXCEPT !.len = @ + b] = [P[n] EXCEPT !.len = @ + (a + b)]
      <4>1. E[n] = [off |-> P[n].off, len |-> P[n].len + a]
        BY <2>2, <3>3 DEF Stretch
      <4>2. [E[n] EXCEPT !.len = @ + b] = [off |-> P[n].off, len |-> (P[n].len + a) + b]
        BY <4>1
      <4>3. [P[n] EXCEPT !.len = @ + (a + b)] = [off |-> P[n].off, len |-> P[n].len + (a + b)]
        BY <2>2 DEF Stretch
      <4>4. (P[n].len + a) + b = P[n].len + (a + b)
        BY <2>2 DEF Stretch
      <4> QED
        BY <4>2, <4>3, <4>4
    <3> QED
      BY <3>1, <3>3, <3>4, <3>5
  <2> QED
    BY <1>2, <2>4, <2>5, <2>6 DEF E
<1>4. CASE ~(P # <<>> /\ Last(P).off + Last(P).len = off)
  <2> DEFINE r == [off |-> off, len |-> a]
             s == [off |-> off, len |-> a + b]
             n == Len(P) + 1
  <2>1. r \in Stretch /\ s \in Stretch
    BY DEF Stretch
  <2>2. E = Append(P, r) /\ Extend(P, off, a + b) = Append(P, s)
    BY <1>4 DEF Extend
  <2>3. [r EXCEPT !.len = @ + b] = s
    OBVIOUS
  <2> HIDE DEF r, s, E
  <2>4. /\ Len(Append(P, r)) = n /\ DOMAIN Append(P, r) = 1..n /\ n \in 1..n /\ Len(P) \in Nat
        /\ Append(P, r)[n] = r /\ \A i \in 1..n : i # n => Append(P, r)[i] = P[i]
    BY <2>1, AppendProperties, LenProperties
  <2>5. /\ DOMAIN Append(P, s) = 1..n
        /\ Append(P, s)[n] = s /\ \A i \in 1..n : i # n => Append(P, s)[i] = P[i]
    BY <2>1, AppendProperties, LenProperties
  <2>6. Append(P, r) = [i \in 1..n |-> Append(P, r)[i]] /\ Append(P, s) = [i \in 1..n |-> Append(P, s)[i]]
    <3>1. Append(P, r) \in Seq(Stretch) /\ Append(P, s) \in Seq(Stretch)
      BY <2>1, AppendProperties
    <3>2. Append(P, r) \in [1..n -> Stretch] /\ Append(P, s) \in [1..n -> Stretch]
      BY <2>4, <2>5, <3>1, LenProperties
    <3> QED
      BY <3>2
  <2> HIDE DEF n
  <2>7. [E EXCEPT ![Len(E)].len = @ + b]
          = [i \in 1..n |-> IF i = n THEN [E[n] EXCEPT !.len = @ + b] ELSE E[i]]
    BY <2>2, <2>4, <2>6
  <2>8. [E EXCEPT ![Len(E)].len = @ + b] = Append(P, s)
    <3>1. [E[n] EXCEPT !.len = @ + b] = s
      BY <2>2, <2>3, <2>4
    <3>2. \A i \in 1..n : i # n => E[i] = Append(P, s)[i]
      BY <2>2, <2>4, <2>5
    <3>3. [i \in 1..n |-> IF i = n THEN [E[n] EXCEPT !.len = @ + b] ELSE E[i]]
            = [i \in 1..n |-> Append(P, s)[i]]
      BY <2>5, <3>1, <3>2
    <3> QED
      BY <2>6, <2>7, <3>3
  <2> QED
    BY <1>2, <2>2, <2>8 DEF E
<1> QED
  BY <1>3, <1>4

LEMMA DivMod ==
  ASSUME NEW a \in Nat, NEW b \in Nat \ {0}
  PROVE  a \div b \in Nat /\ a % b \in 0..(b - 1) /\ a = b * (a \div b) + (a % b)
OBVIOUS

LEMMA DivUnique ==
  ASSUME NEW q \in Nat, NEW b \in Nat \ {0}, NEW r \in 0..(b - 1)
  PROVE  (q * b + r) \div b = q /\ (q * b + r) % b = r
<1> DEFINE a == q * b + r
<1>1. a \in Nat
  OBVIOUS
<1>2. a \div b \in Nat /\ a % b \in 0..(b - 1) /\ a = b * (a \div b) + (a % b)
  BY <1>1, DivMod
<1> DEFINE x == a \div b
           y == a % b
<1>3. x \in Nat /\ y \in 0..(b - 1) /\ b * q + r = b * x + y
  BY <1>2
<1> HIDE DEF x, y
<1>4. x = q
  <2>1. CASE x < q
    <3>1. q - x >= 1
      BY <1>3, <2>1
    <3>2. b * (q - x) >= b
      BY <1>3, <3>1
    <3>3. b * (q - x) = y - r
      BY <1>3
    <3> QED
      BY <1>3, <3>2, <3>3
  <2>2. CASE x > q
    <3>1. x - q >= 1
      BY <1>3, <2>2
    <3>2. b * (x - q) >= b
      BY <1>3, <3>1
    <3>3. b * (x - q) = r - y
      BY <1>3
    <3> QED
      BY <1>3, <3>2, <3>3
  <2> QED
    BY <1>3, <2>1, <2>2
<1>5. y = r
  BY <1>3, <1>4
<1> QED
  BY <1>4, <1>5 DEF x, y

(* The size of a cluster, and where clusters are.                          *)
BPB == vol.bpb
CB == ClusterBytes(BPB)
Meant == OnVolume /\ Valid(BPB)

LEMMA Fields ==
  Meant => /\ BPB.bytes_per_sect \in {512, 1024, 2048, 4096}
           /\ BPB.sects_per_cluster \in {1, 2, 4, 8, 16, 32, 64, 128}
           /\ BPB.reserved_sects \in Nat \ {0} /\ BPB.fats \in Nat \ {0}
           /\ FatSects(BPB) \in Nat \ {0} /\ Sects(BPB) \in Nat /\ RootDirSects(BPB) \in Nat
           /\ BPB.root_entry_count \in Nat /\ BPB.root_cluster \in Nat
<1> SUFFICES ASSUME Meant
    PROVE  /\ BPB.bytes_per_sect \in {512, 1024, 2048, 4096}
           /\ BPB.sects_per_cluster \in {1, 2, 4, 8, 16, 32, 64, 128}
           /\ BPB.reserved_sects \in Nat \ {0} /\ BPB.fats \in Nat \ {0}
           /\ FatSects(BPB) \in Nat \ {0} /\ Sects(BPB) \in Nat /\ RootDirSects(BPB) \in Nat
           /\ BPB.root_entry_count \in Nat /\ BPB.root_cluster \in Nat
  OBVIOUS
<1>1. Numbers(vol)
  BY VolumesAssumption DEF Meant, OnVolume, vol
<1>2. /\ BPB.bytes_per_sect \in Nat /\ BPB.reserved_sects \in Nat /\ BPB.fats \in Nat
      /\ BPB.root_entry_count \in Nat /\ BPB.root_cluster \in Nat
      /\ BPB.fatsz16 \in Nat /\ BPB.fatsz32 \in Nat /\ BPB.sects16 \in Nat /\ BPB.sects32 \in Nat
  BY <1>1 DEF Numbers, BPB
<1>3. Valid(BPB)
  BY DEF Meant
<1>4. /\ BPB.bytes_per_sect \in {512, 1024, 2048, 4096}
      /\ BPB.sects_per_cluster \in {1, 2, 4, 8, 16, 32, 64, 128}
      /\ BPB.reserved_sects # 0 /\ BPB.fats # 0 /\ FatSects(BPB) # 0
  BY <1>3 DEF Valid
<1>5. FatSects(BPB) \in Nat /\ Sects(BPB) \in Nat
  BY <1>2 DEF FatSects, Sects
<1>6. RootDirSects(BPB) \in Nat
  <2>1. 32 * BPB.root_entry_count + BPB.bytes_per_sect - 1 \in Nat /\ BPB.bytes_per_sect \in Nat \ {0}
    BY <1>2, <1>4
  <2> QED
    BY <2>1, DivMod DEF RootDirSects, CeilDiv
<1> QED
  BY <1>2, <1>4, <1>5, <1>6

LEMMA Clusters ==
  Meant => /\ CB \in Nat /\ CB >= 512
           /\ DataStart(BPB) \in Nat
           /\ DataStart(BPB) = MetaSects(BPB) * BPB.bytes_per_sect
           /\ \A c \in Int : ClusterStart(BPB, c) \in Int
           /\ \A c \in Int : ClusterStart(BPB, c + 1) = ClusterStart(BPB, c) + CB
<1> SUFFICES ASSUME Meant
    PROVE  /\ CB \in Nat /\ CB >= 512
           /\ DataStart(BPB) \in Nat
           /\ DataStart(BPB) = MetaSects(BPB) * BPB.bytes_per_sect
           /\ \A c \in Int : ClusterStart(BPB, c) \in Int
           /\ \A c \in Int : ClusterStart(BPB, c + 1) = ClusterStart(BPB, c) + CB
  OBVIOUS
<1> DEFINE n == BPB.bytes_per_sect
           f == BPB.fats * FatSects(BPB)
           r == BPB.reserved_sects
           d == RootDirSects(BPB)
<1>1. n \in Nat /\ n >= 512 /\ f \in Nat /\ r \in Nat /\ d \in Nat
  BY Fields
<1>2. CB \in Nat /\ CB >= 512
  <2>1. CB = BPB.sects_per_cluster * n
    BY DEF CB, ClusterBytes, Bytes
  <2>2. BPB.sects_per_cluster \in Nat /\ BPB.sects_per_cluster >= 1
    BY Fields
  <2>3. \A x, y \in Nat : x >= 1 /\ y >= 512 => x * y \in Nat /\ x * y >= 512
    OBVIOUS
  <2> HIDE DEF n
  <2> QED
    BY <1>1, <2>1, <2>2, <2>3
<1>3. DataStart(BPB) = (r + f) * n + d * n
  BY DEF DataStart, RootStart, Bytes
<1>4. MetaSects(BPB) = (f + r) + d
  BY DEF MetaSects
<1> HIDE DEF n, f, r, d
<1>5. DataStart(BPB) \in Nat /\ DataStart(BPB) = MetaSects(BPB) * n
  BY <1>1, <1>3, <1>4
<1>6. ASSUME NEW c \in Int
      PROVE  ClusterStart(BPB, c) \in Int /\ ClusterStart(BPB, c + 1) = ClusterStart(BPB, c) + CB
  <2>1. /\ ClusterStart(BPB, c) = DataStart(BPB) + (c - 2) * CB
        /\ ClusterStart(BPB, c + 1) = DataStart(BPB) + ((c + 1) - 2) * CB
    BY DEF ClusterStart, CB
  <2> HIDE DEF CB
  <2> QED
    BY <1>2, <1>5, <2>1
<1> QED
  BY <1>2, <1>5, <1>6 DEF n

(* What lies on the device is far from the mark that ends a chain.         *)
LEMMA Inside ==
  ASSUME Meant, Addressable, NEW c \in Int, ClusterStart(BPB, c) < Bytes(BPB, Sects(BPB))
  PROVE  EndMark \in Nat /\ c + 1 < EndMark
<1> DEFINE n == BPB.bytes_per_sect
           p == BPB.sects_per_cluster
           s == Sects(BPB)
           m == MetaSects(BPB)
           k == ClusterCount(BPB)
<1>1. n \in {512, 1024, 2048, 4096} /\ p \in {1, 2, 4, 8, 16, 32, 64, 128} /\ s \in Nat
  BY Fields
<1>2. m \in Nat /\ m <= s
  <2>1. m <= s
    BY DEF Valid, Meant
  <2>2. m = BPB.fats * FatSects(BPB) + BPB.reserved_sects + RootDirSects(BPB)
    BY DEF MetaSects
  <2> HIDE DEF m, s
  <2> QED
    BY <2>1, <2>2, Fields
<1>3. k \in Nat /\ k * p <= s - m /\ s - m < (k + 1) * p
  <2>1. k = (s - m) \div p
    BY DEF ClusterCount
  <2> HIDE DEF k, s, m, p
  <2>2. s - m \in Nat /\ p \in Nat \ {0}
    BY <1>1, <1>2
  <2>3. k \in Nat /\ (s - m) % p \in 0..(p - 1) /\ s - m = p * k + ((s - m) % p)
    BY <2>1, <2>2, DivMod
  <2>4. s - m >= p * k /\ s - m < p * k + p
    BY <2>2, <2>3
  <2>5. p * k = k * p /\ p * k + p = (k + 1) * p
    BY <2>2, <2>3
  <2> QED
    BY <2>3, <2>4, <2>5, <1>1, <1>2
<1>4. CB = p * n /\ CB \in Nat /\ CB >= 512
  <2>1. CB = p * n
    BY DEF CB, ClusterBytes, Bytes
  <2> QED
    BY <2>1, Clusters
<1>5. DataStart(BPB) = m * n /\ Bytes(BPB, s) = s * n
  BY Clusters DEF Bytes
<1>6. m * n + (c - 2) * CB < s * n
  BY <1>5 DEF ClusterStart, CB
<1> HIDE DEF n, p, s, m, k
<1>7. c - 2 <= k
  <2>1. (s - m) * n < (k + 1) * p * n
    <3>1. n \in Nat \ {0} /\ s - m \in Int /\ (k + 1) * p \in Int
      BY <1>1, <1>2, <1>3
    <3>2. \A x, y \in Int, z \in Nat \ {0} : x < y => x * z < y * z
      OBVIOUS
    <3> QED
      BY <1>3, <3>1, <3>2
  <2>2. (k + 1) * p * n = (k + 1) * CB
    BY <1>1, <1>3, <1>4
  <2>3. (c - 2) * CB < (s - m) * n
    BY <1>1, <1>2, <1>4, <1>6
  <2>4. (c - 2) * CB < (k + 1) * CB
    <3>1. (c - 2) * CB \in Int /\ (s - m) * n \in Int /\ (k + 1) * CB \in Int
      BY <1>1, <1>2, <1>3, <1>4
    <3> QED
      BY <2>1, <2>2, <2>3, <3>1
  <2>5. \A x, y \in Int, z \in Nat \ {0} : x * z < y * z => x < y
    OBVIOUS
  <2>6. c - 2 < k + 1
    BY <1>3, <1>4, <2>4, <2>5
  <2> QED
    BY <1>3, <2>6
<1>8. k * 512 <= MaxU32
  <2>1. s * n <= MaxU32
    BY <1>5 DEF Addressable, s, BPB
  <2>2. MaxU32 \in Nat
    BY VolumesAssumption
  <2>3. k * p <= s
    BY <1>1, <1>2, <1>3
  <2>4. k <= k * p
    BY <1>1, <1>3
  <2>5. k <= s
    BY <1>1, <1>3, <2>3, <2>4
  <2>6. k * 512 <= s * 512 /\ s * 512 <= s * n
    BY <1>1, <1>3, <2>5
  <2> QED
    BY <1>1, <1>3, <2>1, <2>2, <2>6
<1>9. k < 268435440
  <2>1. MaxU32 \in Nat /\ MaxU32 \div 16 < 268435456
    BY VolumesAssumption
  <2> QED
    BY <1>3, <1>8, <2>1
<1>10. Type = TypeOf(k)
  BY DEF Type, k, BPB
<1>11. CASE k < 4085
  <2>1. Type = 12
    BY <1>10, <1>11 DEF TypeOf
  <2>2. EndMark = 4088
    BY <2>1 DEF EndMark, EndOf
  <2> QED
    BY <1>3, <1>7, <1>11, <2>2
<1>12. CASE ~(k < 4085) /\ k < 65525
  <2>1. Type = 16
    BY <1>10, <1>12 DEF TypeOf
  <2>2. EndMark = 65528
    BY <2>1 DEF EndMark, EndOf
  <2> QED
    BY <1>3, <1>7, <1>12, <2>2
<1>13. CASE ~(k < 4085) /\ ~(k < 65525)
  <2>1. Type = 32
    BY <1>10, <1>13 DEF TypeOf
  <2>2. EndMark = 268435448
    BY <2>1 DEF EndMark, EndOf
  <2> QED
    BY <1>3, <1>7, <1>9, <2>2
<1> QED
  BY <1>11, <1>12, <1>13
----------------------------------------------------------------------------
(* What the driver makes of a volume it has mounted.                       *)

Mounted == OnVolume /\ Valid(BPB) /\ fs = FileSystem(BPB)

LEMMA Driver ==
  Mounted => /\ Meant /\ fs.type = Type /\ Type \in {12, 16, 32} /\ Limit = EndMark
             /\ ClusterSize = CB
             /\ \A c \in Int : ClusterStart(BPB, c) \in 0..MaxU32 =>
                  ClusterOffset(c) = ClusterStart(BPB, c)
<1> SUFFICES ASSUME Mounted
    PROVE  /\ Meant /\ fs.type = Type /\ Type \in {12, 16, 32} /\ Limit = EndMark
           /\ ClusterSize = CB
           /\ \A c \in Int : ClusterStart(BPB, c) \in 0..MaxU32 =>
                ClusterOffset(c) = ClusterStart(BPB, c)
  OBVIOUS
<1>1. /\ fs.type = TypeOf(ClusterCount(BPB))
      /\ fs.bytes_per_sect = BPB.bytes_per_sect /\ fs.sects_per_cluster = BPB.sects_per_cluster
      /\ fs.data_off = MetaSects(BPB) * BPB.bytes_per_sect
  BY DEF Mounted, FileSystem
<1>2. Meant
  BY DEF Mounted, Meant
<1>3. fs.type = Type /\ Type \in {12, 16, 32}
  BY <1>1 DEF Type, BPB, TypeOf
<1>4. Limit = EndMark
  BY <1>3 DEF Limit, EndMark, EndOf
<1>5. ClusterSize = CB
  BY <1>1, <1>2, Fields DEF ClusterSize, CB, ClusterBytes, Bytes
<1>6. ASSUME NEW c \in Int, ClusterStart(BPB, c) \in 0..MaxU32
      PROVE  ClusterOffset(c) = ClusterStart(BPB, c)
  <2>1. fs.data_off + (c - 2) * ClusterSize = ClusterStart(BPB, c)
    BY <1>1, <1>2, <1>5, Clusters DEF ClusterStart, CB
  <2>2. MaxU32 \in Nat
    BY VolumesAssumption
  <2>3. \A x \in 0..MaxU32 : x % (MaxU32 + 1) = x
    BY <2>2
  <2> QED
    BY <1>6, <2>1, <2>3 DEF ClusterOffset
<1> QED
  BY <1>2, <1>3, <1>4, <1>5, <1>6

(* Entries of 16 and of 32 bits.                                           *)
PlaceRight(r, n, size, c) ==
  (r + (size * c) \div n) * n + (c % (n \div size)) * size = r * n + size * c

LEMMA EntryPlace ==
  ASSUME NEW n \in Nat, n \in {512, 1024, 2048, 4096}, NEW size \in Nat, size \in {2, 4},
         NEW r \in Nat, NEW c \in Nat
  PROVE  PlaceRight(r, n, size, c)
<1>1. CASE size = 2
  <2>1. ((2 * c) \div n) * n + (c % (n \div 2)) * 2 = 2 * c
    <3>1. CASE n = 512 BY <3>1
    <3>2. CASE n = 1024 BY <3>2
    <3>3. CASE n = 2048 BY <3>3
    <3>4. CASE n = 4096 BY <3>4
    <3> QED BY <3>1, <3>2, <3>3, <3>4
  <2> DEFINE x == (2 * c) \div n
             y == (c % (n \div 2)) * 2
  <2>2. x \in Nat /\ y \in Int /\ n \in Nat /\ x * n + y = 2 * c
    BY <2>1
  <2> HIDE DEF x, y
  <2>3. (r + x) * n + y = r * n + 2 * c
    BY <2>2
  <2> QED
    BY <1>1, <2>3 DEF x, y, PlaceRight
<1>2. CASE size = 4
  <2>1. ((4 * c) \div n) * n + (c % (n \div 4)) * 4 = 4 * c
    <3>1. CASE n = 512 BY <3>1
    <3>2. CASE n = 1024 BY <3>2
    <3>3. CASE n = 2048 BY <3>3
    <3>4. CASE n = 4096 BY <3>4
    <3> QED BY <3>1, <3>2, <3>3, <3>4
  <2> DEFINE x == (4 * c) \div n
             y == (c % (n \div 4)) * 4
  <2>2. x \in Nat /\ y \in Int /\ n \in Nat /\ x * n + y = 4 * c
    BY <2>1
  <2> HIDE DEF x, y
  <2>3. (r + x) * n + y = r * n + 4 * c
    BY <2>2
  <2> QED
    BY <1>2, <2>3 DEF x, y, PlaceRight
<1> QED
  BY <1>1, <1>2

(* Where the table is, and what is in it.                                  *)
LEMMA Table ==
  ASSUME Mounted
  PROVE  /\ FatStart(BPB) \in Nat /\ FatStart(BPB) = BPB.reserved_sects * BPB.bytes_per_sect
         /\ Bytes(BPB, FatSects(BPB)) \in Nat /\ Bytes(BPB, FatSects(BPB)) % 512 = 0
         /\ \A c \in Nat : /\ FatEntry(vol, c) \in Nat /\ FatEntry(vol, c) < Bounds(Type)
                           /\ (c + 1) * Type > 8 * Bytes(BPB, FatSects(BPB)) => FatEntry(vol, c) = 0
<1> DEFINE n == BPB.bytes_per_sect
           f == FatSects(BPB)
           r == BPB.reserved_sects
<1>1. Meant /\ Type \in {12, 16, 32}
  BY Driver
<1>2. n \in {512, 1024, 2048, 4096} /\ f \in Nat /\ r \in Nat
  BY <1>1, Fields
<1>3. FatStart(BPB) = r * n /\ Bytes(BPB, f) = f * n
  BY DEF FatStart, Bytes
<1>4. r * n \in Nat /\ f * n \in Nat /\ (f * n) % 512 = 0
  <2> HIDE DEF n, f, r
  <2> QED
    BY <1>2
<1>5. InPlace(vol)
  BY VolumesAssumption DEF Mounted, OnVolume, vol, BPB
<1>6. Bounds(Type) \in Nat /\ Bounds(Type) > 0
  BY <1>1, VolumesAssumption DEF Bounds
<1>7. ASSUME NEW c \in Nat
      PROVE  /\ FatEntry(vol, c) \in Nat /\ FatEntry(vol, c) < Bounds(Type)
             /\ (c + 1) * Type > 8 * Bytes(BPB, f) => FatEntry(vol, c) = 0
  <2>1. FatEntry(vol, c) \in Nat
    BY LinkIs DEF Mounted
  <2>2. CASE c \in DOMAIN vol.next
    <3>1. vol.next[c] < Bounds(Type) /\ (c + 1) * Type <= 8 * Bytes(BPB, f)
      BY <1>5, <2>2 DEF InPlace, Type, BPB
    <3>2. (c + 1) * Type \in Int /\ 8 * Bytes(BPB, f) \in Int
      BY <1>1, <1>3, <1>4
    <3> QED
      BY <2>1, <2>2, <3>1, <3>2 DEF FatEntry
  <2>3. CASE c \notin DOMAIN vol.next
    BY <1>6, <2>3 DEF FatEntry
  <2> QED
    BY <2>2, <2>3
<1> QED
  BY <1>3, <1>4, <1>7

LEMMA NextWide ==
  ASSUME Mounted, Type \in {16, 32}, NEW c \in Nat
  PROVE  NextCluster(c) = Link(c)
<1> DEFINE n == BPB.bytes_per_sect
           size == IF Type = 32 THEN 4 ELSE 2
           at == FatStart(BPB) + size * c
           F == Bytes(BPB, FatSects(BPB))
           e == FatEntry(vol, c)
<1>1. Meant /\ fs.type = Type /\ fs.bytes_per_sect = n /\ fs.reserved_sects = BPB.reserved_sects
  BY Driver DEF Mounted, FileSystem
<1>2. size \in {2, 4} /\ Type = 8 * size
  OBVIOUS
<1>3. n \in {512, 1024, 2048, 4096} /\ BPB.reserved_sects \in Nat
  BY <1>1, Fields
<1>4. (BPB.reserved_sects + (size * c) \div n) * n + (c % (n \div size)) * size = at
  <2>1. at = BPB.reserved_sects * n + size * c
    BY Table
  <2>2. PlaceRight(BPB.reserved_sects, n, size, c)
    <3> HIDE DEF n, size
    <3> QED
      <4>1. n \in Nat /\ size \in Nat
        BY <1>2, <1>3
      <4> QED
        BY <1>2, <1>3, <4>1, EntryPlace
  <2> HIDE DEF at, n, size
  <2> QED
    BY <2>1, <2>2 DEF PlaceRight
<1>5. FatStart(BPB) \in Nat /\ F \in Nat /\ e \in Nat /\ e < Bounds(Type)
      /\ ((c + 1) * Type > 8 * F => e = 0)
  BY Table
<1>6. FatWord(vol, at, size) = e
  <2>1. (at - FatStart(BPB)) \div size = c
    <3>1. at - FatStart(BPB) = size * c
      BY <1>2, <1>5
    <3>2. (2 * c) \div 2 = c /\ (4 * c) \div 4 = c
      OBVIOUS
    <3> QED
      BY <1>2, <3>1, <3>2
  <2>2. CASE InFat(BPB, at)
    BY <2>1, <2>2 DEF FatWord, BPB
  <2>3. CASE ~InFat(BPB, at)
    <3>1. ~ (at \in FatStart(BPB)..(FatStart(BPB) + F - 1))
      BY <2>3 DEF InFat
    <3> HIDE DEF F
    <3>2. size * c >= F
      BY <1>2, <1>5, <3>1
    <3>3. (c + 1) * Type > 8 * F
      BY <1>2, <1>5, <3>2
    <3>4. e = 0
      BY <1>5, <3>3
    <3>5. FatWord(vol, at, size) = 0
      BY <2>3 DEF FatWord, BPB
    <3> QED
      BY <3>4, <3>5
  <2> QED
    BY <2>2, <2>3
<1>7. NextCluster(c) = IF Type = 16 THEN e ELSE e % Mask28
  <2> HIDE DEF at, e, n
  <2>1. CASE Type = 16
    <3>1. size = 2 /\ fs.type # 32 /\ fs.type # 12 /\ fs.type = 16
      BY <1>1, <2>1
    <3>2. NextCluster(c) = FatWord(vol, (fs.reserved_sects + (2 * c) \div fs.bytes_per_sect)
                                          * fs.bytes_per_sect + (c % (fs.bytes_per_sect \div 2)) * 2, 2)
      BY <3>1 DEF NextCluster
    <3> QED
      BY <1>1, <1>4, <1>6, <2>1, <3>1, <3>2
  <2>2. CASE Type = 32
    <3>1. size = 4 /\ fs.type = 32
      BY <1>1, <2>2
    <3>2. NextCluster(c) = FatWord(vol, (fs.reserved_sects + (4 * c) \div fs.bytes_per_sect)
                                          * fs.bytes_per_sect + (c % (fs.bytes_per_sect \div 4)) * 4, 4) % Mask28
      BY <3>1 DEF NextCluster
    <3> QED
      BY <1>1, <1>4, <1>6, <2>2, <3>1, <3>2
  <2> QED
    BY <2>1, <2>2
<1>8. Type = 16 => e % Mask28 = e
  BY <1>5 DEF Bounds, Mask28
<1> QED
  BY <1>7, <1>8 DEF Link

(* Entries of 12 bits: three bytes hold two.                               *)
LEMMA FatBytes ==
  ASSUME Mounted, Type = 12, NEW m \in Nat
  PROVE  /\ FatByte(vol, FatStart(BPB) + 3 * m) = FatEntry(vol, 2 * m) % 256
         /\ FatByte(vol, FatStart(BPB) + (3 * m + 1))
              = FatEntry(vol, 2 * m) \div 256 + 16 * (FatEntry(vol, 2 * m + 1) % 16)
         /\ FatByte(vol, FatStart(BPB) + (3 * m + 2)) = FatEntry(vol, 2 * m + 1) \div 16
<1> DEFINE S == FatStart(BPB)
           F == Bytes(BPB, FatSects(BPB))
           e == FatEntry(vol, 2 * m)
           o == FatEntry(vol, 2 * m + 1)
<1>1. S \in Nat /\ F \in Nat
  BY Table
<1>2. 2 * m \in Nat /\ 2 * m + 1 \in Nat
  OBVIOUS
<1>3. e \in Nat /\ o \in Nat
  BY <1>2, LinkIs DEF Mounted
<1>4. /\ ((2 * m + 1) * 12 > 8 * F => e = 0)
      /\ (((2 * m + 1) + 1) * 12 > 8 * F => o = 0)
  <2> HIDE DEF e, o, F
  <2>1. \A c \in Nat : (c + 1) * 12 > 8 * F => FatEntry(vol, c) = 0
    BY Table DEF F
  <2> QED
    BY <1>2, <2>1 DEF e, o
<1>5. ASSUME NEW k \in Nat
      PROVE  FatByte(vol, S + k)
               = IF k >= F THEN 0
                 ELSE LET ev == FatEntry(vol, 2 * (k \div 3))
                          od == FatEntry(vol, 2 * (k \div 3) + 1)
                      IN CASE k % 3 = 0 -> ev % 256
                           [] k % 3 = 1 -> ev \div 256 + 16 * (od % 16)
                           [] k % 3 = 2 -> od \div 16
  <2>1. InFat(BPB, S + k) <=> k < F
    <3>1. InFat(BPB, S + k) <=> S + k \in S..(S + F - 1)
      BY DEF InFat
    <3> HIDE DEF S, F
    <3> QED
      BY <1>1, <3>1
  <2>2. (S + k) - FatStart(vol.bpb) = k /\ FatStart(vol.bpb) = S
    BY <1>1 DEF BPB
  <2>3. InFat(vol.bpb, S + k) <=> k < F
    BY <2>1 DEF BPB
  <2> HIDE DEF S, F
  <2>4. k \in Nat /\ F \in Nat /\ k % 3 \in {0, 1, 2}
    BY <1>1
  <2>5. CASE k >= F
    <3>1. ~InFat(vol.bpb, S + k)
      BY <2>3, <2>4, <2>5
    <3> QED
      BY <2>4, <2>5, <3>1 DEF FatByte
  <2>6. CASE k < F
    <3>1. InFat(vol.bpb, S + k)
      BY <2>3, <2>6
    <3>2. ~(k >= F)
      BY <2>4, <2>6
    <3>3. FatByte(vol, S + k)
            = LET j == (S + k) - FatStart(vol.bpb)
                  ev == FatEntry(vol, 2 * (j \div 3))
                  od == FatEntry(vol, 2 * (j \div 3) + 1)
              IN IF ~InFat(vol.bpb, S + k) THEN 0
                 ELSE CASE j % 3 = 0 -> ev % 256
                        [] j % 3 = 1 -> ev \div 256 + 16 * (od % 16)
                        [] j % 3 = 2 -> od \div 16
      BY DEF FatByte
    <3>4. FatByte(vol, S + k)
            = LET ev == FatEntry(vol, 2 * (k \div 3))
                  od == FatEntry(vol, 2 * (k \div 3) + 1)
              IN IF ~InFat(vol.bpb, S + k) THEN 0
                 ELSE CASE k % 3 = 0 -> ev % 256
                        [] k % 3 = 1 -> ev \div 256 + 16 * (od % 16)
                        [] k % 3 = 2 -> od \div 16
      BY <2>2, <3>3
    <3>5. CASE k % 3 = 0
      BY <3>1, <3>2, <3>4, <3>5
    <3>6. CASE k % 3 = 1
      BY <3>1, <3>2, <3>4, <3>6
    <3>7. CASE k % 3 = 2
      BY <3>1, <3>2, <3>4, <3>7
    <3> QED
      BY <2>4, <3>5, <3>6, <3>7
  <2> QED
    BY <2>4, <2>5, <2>6
<1> HIDE DEF S, F
<1>6. FatByte(vol, S + 3 * m) = e % 256
  <2>1. 3 * m \in Nat /\ (3 * m) \div 3 = m /\ (3 * m) % 3 = 0
    OBVIOUS
  <2>2. 3 * m >= F => e = 0
    BY <1>1, <1>4
  <2>3. FatByte(vol, S + 3 * m) = IF 3 * m >= F THEN 0 ELSE e % 256
    BY <1>5, <2>1
  <2> HIDE DEF e
  <2> QED
    BY <1>3, <2>2, <2>3
<1>7. FatByte(vol, S + (3 * m + 1)) = e \div 256 + 16 * (o % 16)
  <2>1. 3 * m + 1 \in Nat /\ (3 * m + 1) \div 3 = m /\ (3 * m + 1) % 3 = 1
    OBVIOUS
  <2>2. 3 * m + 1 >= F => e = 0 /\ o = 0
    BY <1>1, <1>4
  <2>3. FatByte(vol, S + (3 * m + 1)) = IF 3 * m + 1 >= F THEN 0 ELSE e \div 256 + 16 * (o % 16)
    BY <1>5, <2>1
  <2> HIDE DEF e, o
  <2> QED
    BY <1>3, <2>2, <2>3
<1>8. FatByte(vol, S + (3 * m + 2)) = o \div 16
  <2>1. 3 * m + 2 \in Nat /\ (3 * m + 2) \div 3 = m /\ (3 * m + 2) % 3 = 2
    OBVIOUS
  <2>2. 3 * m + 2 >= F => o = 0
    BY <1>1, <1>4
  <2>3. FatByte(vol, S + (3 * m + 2)) = IF 3 * m + 2 >= F THEN 0 ELSE o \div 16
    BY <1>5, <2>1
  <2> HIDE DEF o
  <2> QED
    BY <1>3, <2>2, <2>3
<1> QED
  BY <1>6, <1>7, <1>8 DEF S

EvenRead(e, o) == (Word(e % 256, e \div 256 + 16 * (o % 16)) \div 1) % 4096
OddRead(e, o) == (Word(e \div 256 + 16 * (o % 16), o \div 16) \div 16) % 4096

Bits12 == 0..4095
EvenKept(e) == ~(e % 256 >= 128 /\ e < 3840)
OddKept(o) == ~(o % 16 >= 8 /\ o < 4080)

LEMMA EvenWord ==
  ASSUME NEW lo \in Bits12, NEW hi \in Bits12, EvenKept(lo)
  PROVE  EvenRead(lo, hi) = lo
<1> DEFINE low == lo % 256
           up == lo \div 256
           x == hi % 16
<1>1. low \in 0..255 /\ up \in 0..15 /\ x \in 0..15 /\ lo = 256 * up + low
  BY DEF Bits12
<1>2. low >= 128 => up = 15
  BY <1>1 DEF EvenKept
<1>3. Word(low, up + 16 * x) = (IF low >= 128 THEN 255 ELSE up + 16 * x) * 256 + low
  BY DEF Word
<1> HIDE DEF low, up, x
<1>4. CASE low >= 128
  BY <1>1, <1>2, <1>3, <1>4 DEF low, up, x, EvenRead
<1>5. CASE ~(low >= 128)
  <2>1. Word(low, up + 16 * x) = lo + 4096 * x
    BY <1>1, <1>3, <1>5
  <2>2. ((lo + 4096 * x) \div 1) % 4096 = lo
    BY <1>1
  <2> QED
    BY <2>1, <2>2 DEF low, up, x, EvenRead
<1> QED
  BY <1>4, <1>5

LEMMA OddWord ==
  ASSUME NEW lo \in Bits12, NEW hi \in Bits12, OddKept(hi)
  PROVE  OddRead(lo, hi) = hi
<1> DEFINE up == lo \div 256
           x == hi % 16
           y == hi \div 16
<1>1. up \in 0..15 /\ x \in 0..15 /\ y \in 0..255 /\ hi = 16 * y + x
  <2>1. up \in 0..15
    BY DEF Bits12
  <2>2. x \in 0..15
    BY DEF Bits12
  <2>3. y \in 0..255 /\ hi = 16 * y + x
    BY DEF Bits12
  <2> QED
    BY <2>1, <2>2, <2>3
<1>2. x >= 8 => y = 255
  BY <1>1 DEF OddKept
<1>3. Word(up + 16 * x, y) = (IF up + 16 * x >= 128 THEN 255 ELSE y) * 256 + (up + 16 * x)
  BY DEF Word
<1> HIDE DEF up, x, y
<1>4. up + 16 * x >= 128 <=> x >= 8
  BY <1>1
<1>5. Word(up + 16 * x, y) = y * 256 + (up + 16 * x)
  BY <1>1, <1>2, <1>3, <1>4
<1>6. (y * 256 + (up + 16 * x)) \div 16 = 16 * y + x
  BY <1>1
<1>7. (16 * y + x) % 4096 = 16 * y + x
  BY <1>1
<1> QED
  BY <1>1, <1>5, <1>6, <1>7 DEF up, x, y, OddRead

LEMMA NarrowIs ==
  ASSUME Mounted, Type = 12, NEW c \in Nat
  PROVE  \E e, o \in Bits12 :
           \/ c % 2 = 0 /\ e = FatEntry(vol, c) /\ NextCluster(c) = EvenRead(e, o)
           \/ c % 2 = 1 /\ o = FatEntry(vol, c) /\ NextCluster(c) = OddRead(e, o)
<1> DEFINE n == BPB.bytes_per_sect
           m == c \div 2
           off == (c * 12) \div 8
           S == FatStart(BPB)
           e == FatEntry(vol, 2 * m)
           o == FatEntry(vol, 2 * m + 1)
<1>1. /\ Meant /\ fs.type = 12 /\ fs.bytes_per_sect = n /\ fs.reserved_sects = BPB.reserved_sects
  BY Driver DEF Mounted, FileSystem
<1>2. n \in {512, 1024, 2048, 4096} /\ BPB.reserved_sects \in Nat /\ S \in Nat
      /\ S = BPB.reserved_sects * n
  BY <1>1, Fields, Table
<1>3. /\ m \in Nat /\ off \in Nat
      /\ c % 2 = 0 => c = 2 * m /\ off = 3 * m
      /\ c % 2 = 1 => c = 2 * m + 1 /\ off = 3 * m + 1
      /\ c % 2 \in {0, 1}
  OBVIOUS
<1>4. e \in Bits12 /\ o \in Bits12
  <2>1. \A k \in Nat : FatEntry(vol, k) \in Nat /\ FatEntry(vol, k) < Bounds(Type)
    BY Table
  <2>2. Bounds(Type) = 4096
    BY DEF Bounds
  <2>3. 2 * m \in Nat /\ 2 * m + 1 \in Nat
    BY <1>3
  <2>4. e \in Nat /\ e < 4096 /\ o \in Nat /\ o < 4096
    BY <2>1, <2>2, <2>3
  <2> HIDE DEF e, o
  <2> QED
    BY <2>4 DEF Bits12
<1>5. (fs.reserved_sects + off \div fs.bytes_per_sect) * fs.bytes_per_sect
        + (off % fs.bytes_per_sect) = S + off
  <2> DEFINE r == BPB.reserved_sects
             x == off \div n
             y == off % n
  <2> HIDE DEF off, n
  <2>1. n \in Nat \ {0} /\ r \in Nat
    BY <1>2
  <2>2. off \div n \in Nat /\ off % n \in 0..(n - 1) /\ off = n * (off \div n) + (off % n)
    BY <1>3, <2>1, DivMod
  <2>4. x \in Nat /\ y \in Int /\ off = n * x + y
    BY <2>1, <2>2
  <2> HIDE DEF r, x, y
  <2>3. (r + x) * n + y = r * n + off
    BY <2>1, <2>4
  <2> QED
    BY <1>1, <1>2, <2>3 DEF r, x, y
<1>6. NextCluster(c)
        = (Word(FatByte(vol, S + off), FatByte(vol, (S + off) + 1)) \div (IF c % 2 = 1 THEN 16 ELSE 1)) % 4096
  <2>1. NextCluster(c) = NextCluster12(c)
    BY <1>1 DEF NextCluster
  <2> QED
    BY <1>5, <2>1 DEF NextCluster12
<1>7. /\ FatByte(vol, S + 3 * m) = e % 256
      /\ FatByte(vol, S + (3 * m + 1)) = e \div 256 + 16 * (o % 16)
      /\ FatByte(vol, S + (3 * m + 2)) = o \div 16
  BY <1>3, FatBytes
<1> HIDE DEF n, m, off, S
<1>8. CASE c % 2 = 0
  <2>1. c = 2 * m /\ off = 3 * m /\ (S + off) + 1 = S + (3 * m + 1)
    BY <1>2, <1>3, <1>8
  <2>2. FatEntry(vol, c) = e
    BY <2>1
  <2> HIDE DEF e, o
  <2>3. NextCluster(c) = EvenRead(e, o)
    BY <1>6, <1>7, <1>8, <2>1 DEF EvenRead
  <2> QED
    BY <1>4, <1>8, <2>2, <2>3
<1>9. CASE c % 2 = 1
  <2>1. c = 2 * m + 1 /\ off = 3 * m + 1 /\ (S + off) + 1 = S + (3 * m + 2)
    BY <1>2, <1>3, <1>9
  <2>2. FatEntry(vol, c) = o
    BY <2>1
  <2> HIDE DEF e, o
  <2>3. NextCluster(c) = OddRead(e, o)
    BY <1>6, <1>7, <1>9, <2>1 DEF OddRead
  <2> QED
    BY <1>4, <1>9, <2>2, <2>3
<1> QED
  BY <1>3, <1>8, <1>9

LEMMA Masked == \A x \in Bits12 : x % Mask28 = x
  BY DEF Bits12, Mask28

LEMMA NextNarrow ==
  ASSUME Mounted, Type = 12, NEW c \in Nat, ~SignLost(c)
  PROVE  NextCluster(c) = Link(c)
<1>1. PICK e \in Bits12, o \in Bits12 :
        \/ c % 2 = 0 /\ e = FatEntry(vol, c) /\ NextCluster(c) = EvenRead(e, o)
        \/ c % 2 = 1 /\ o = FatEntry(vol, c) /\ NextCluster(c) = OddRead(e, o)
  BY NarrowIs
<1>2. CASE c % 2 = 0
  <2>1. e = FatEntry(vol, c) /\ NextCluster(c) = EvenRead(e, o)
    BY <1>1, <1>2
  <2>2. EvenKept(e)
    BY <1>2, <2>1 DEF SignLost, EvenKept
  <2>3. EvenRead(e, o) = e
    BY <2>2, EvenWord
  <2> QED
    BY <2>1, <2>3, Masked DEF Link
<1>3. CASE c % 2 = 1
  <2>1. o = FatEntry(vol, c) /\ NextCluster(c) = OddRead(e, o)
    BY <1>1, <1>3
  <2>2. OddKept(o)
    BY <1>3, <2>1 DEF SignLost, OddKept
  <2>3. OddRead(e, o) = o
    BY <2>2, OddWord
  <2> QED
    BY <2>1, <2>3, Masked DEF Link
<1> QED
  BY <1>1, <1>2, <1>3

(* The driver follows the links of the table.                              *)
THEOREM NextIs ==
  ASSUME Mounted, NEW c \in Nat, ~SignLost(c)
  PROVE  NextCluster(c) = Link(c)
<1>1. Type \in {12, 16, 32}
  BY Driver
<1> QED
  BY <1>1, NextWide, NextNarrow

LEMMA NextNat ==
  ASSUME Mounted, NEW c \in Nat
  PROVE  NextCluster(c) \in Nat
<1>1. Type \in {12, 16, 32}
  BY Driver
<1>2. CASE Type = 12
  <2>1. PICK e \in Bits12, o \in Bits12 :
          NextCluster(c) = EvenRead(e, o) \/ NextCluster(c) = OddRead(e, o)
    BY <1>2, NarrowIs
  <2>2. EvenRead(e, o) \in Nat /\ OddRead(e, o) \in Nat
    BY DEF EvenRead, OddRead, Word, Bits12
  <2> QED
    BY <2>1, <2>2
<1>3. CASE Type # 12
  BY <1>1, <1>3, NextWide, LinkIs DEF Mounted
<1> QED
  BY <1>2, <1>3

----------------------------------------------------------------------------
(* The pieces a file is read in.                                           *)

LEMMA WholeIs ==
  ASSUME Meant, NEW c \in Nat
  PROVE  /\ Whole(c) \in [Nat -> Seq(Stretch)] /\ Whole(c)[0] = <<>>
         /\ \A i \in Nat :
              Whole(c)[i + 1] = Extend(Whole(c)[i], ClusterStart(BPB, Follow(c)[i]), CB)
<1> DEFINE S == Seq(Stretch)
           to(i, P) == Extend(P, ClusterStart(BPB, Follow(c)[i]), CB)
           g == [i \in Nat |-> [P \in S |-> to(i, P)]]
           first[i \in Nat] ==
             IF i = 0 THEN <<>> ELSE Extend(first[i - 1], ClusterStart(BPB, Follow(c)[i - 1]), CB)
<1>1. ASSUME NEW i \in Nat, NEW P \in S PROVE to(i, P) \in S
  <2>1. Follow(c)[i] \in Nat
    BY FollowIs DEF Meant
  <2>2. ClusterStart(BPB, Follow(c)[i]) \in Int /\ CB \in Int
    <3>1. \A x \in Int : ClusterStart(BPB, x) \in Int
      BY Clusters
    <3>2. CB \in Nat
      BY Clusters
    <3>3. Follow(c)[i] \in Int
      BY <2>1
    <3>4. ClusterStart(BPB, Follow(c)[i]) \in Int
      BY <3>1, <3>3
    <3> QED
      BY <3>2, <3>4
  <2> QED
    BY <2>2, ExtendIs
<1> HIDE DEF to
<1>2. g \in [Nat -> [S -> S]]
  BY <1>1
<1>3. \A i \in Nat : \A P \in S : g[i][P] = to(i, P)
  OBVIOUS
<1>4. <<>> \in S
  BY EmptySeq
<1> HIDE DEF g, S
<1>5. PICK h : GoesOnForEver(h, S, <<>>, g)
  BY <1>2, <1>4, GoesOnThere
<1>6. h \in [Nat -> S] /\ h[0] = <<>> /\ \A i \in Nat : h[i + 1] = g[i][h[i]]
  BY <1>5 DEF GoesOnForEver
<1>7. \A i \in Nat : h[i + 1] = to(i, h[i])
  BY <1>3, <1>6
<1>8. ASSUME NEW i \in Nat
      PROVE  h[i] = IF i = 0 THEN <<>> ELSE to(i - 1, h[i - 1])
  <2>1. CASE i = 0
    BY <1>6, <2>1
  <2>2. CASE i # 0
    <3>1. i - 1 \in Nat /\ (i - 1) + 1 = i
      BY <2>2
    <3>2. h[i] = to(i - 1, h[i - 1])
      BY <1>7, <3>1
    <3> QED
      BY <2>2, <3>2
  <2> QED
    BY <2>1, <2>2
<1>9. h = [i \in Nat |-> IF i = 0 THEN <<>> ELSE to(i - 1, h[i - 1])]
  BY <1>6, <1>8
<1>10. h = [i \in Nat |-> IF i = 0 THEN <<>>
                          ELSE Extend(h[i - 1], ClusterStart(BPB, Follow(c)[i - 1]), CB)]
  BY <1>9 DEF to
<1>11. first = [i \in Nat |-> IF i = 0 THEN <<>>
                              ELSE Extend(first[i - 1], ClusterStart(BPB, Follow(c)[i - 1]), CB)]
  BY <1>10
<1>12. Whole(c) = first
  BY DEF Whole, BPB, CB
<1> HIDE DEF first
<1>13. ASSUME NEW i \in Nat
       PROVE  first[i] = IF i = 0 THEN <<>>
                         ELSE Extend(first[i - 1], ClusterStart(BPB, Follow(c)[i - 1]), CB)
  BY <1>11
<1>14. first[0] = <<>>
  BY <1>13
<1>15. ASSUME NEW i \in Nat PROVE first[i + 1] = to(i, first[i])
  <2>1. i + 1 \in Nat /\ i + 1 # 0 /\ (i + 1) - 1 = i
    OBVIOUS
  <2>2. first[i + 1] = Extend(first[(i + 1) - 1], ClusterStart(BPB, Follow(c)[(i + 1) - 1]), CB)
    BY <1>13, <2>1
  <2> QED
    BY <2>1, <2>2 DEF to
<1>16. \A i \in Nat : first[i] \in S
  <2> DEFINE T == {i \in Nat : first[i] \notin S}
  <2> SUFFICES ASSUME T # {} PROVE FALSE
    OBVIOUS
  <2>1. PICK j \in T : \A l \in T : j <= l
    <3>1. T \in SUBSET Nat
      OBVIOUS
    <3> HIDE DEF T
    <3> QED
      BY <3>1, LeastElement
  <2>2. j \in Nat /\ j # 0
    BY <1>4, <1>14, <2>1
  <2>3. j - 1 \in Nat /\ (j - 1) + 1 = j /\ ~ (j <= j - 1)
    BY <2>2
  <2>4. j - 1 \notin T
    <3> HIDE DEF T
    <3> QED
      BY <2>1, <2>3
  <2>5. first[j - 1] \in S
    BY <2>3, <2>4
  <2>6. first[j] \in S
    BY <1>1, <1>15, <2>3, <2>5
  <2> QED
    BY <2>1, <2>6
<1>17. first \in [Nat -> S]
  BY <1>11, <1>16
<1> QED
  BY <1>12, <1>14, <1>15, <1>17 DEF to, S

(* The first q clusters and o bytes of the next.                           *)
PartTo(c, q, o) ==
  IF o = 0 THEN Whole(c)[q] ELSE Extend(Whole(c)[q], ClusterStart(BPB, Follow(c)[q]), o)

LEMMA PartIs ==
  ASSUME Meant, NEW c \in Nat, NEW q \in Nat, NEW o \in Nat
  PROVE  PartTo(c, q, o) \in Seq(Stretch) /\ Follow(c)[q] \in Nat
         /\ ClusterStart(BPB, Follow(c)[q]) \in Int
<1>1. Follow(c)[q] \in Nat
  BY FollowIs DEF Meant
<1>2. ClusterStart(BPB, Follow(c)[q]) \in Int
  BY <1>1, Clusters
<1>3. Whole(c)[q] \in Seq(Stretch)
  BY WholeIs
<1> QED
  BY <1>1, <1>2, <1>3, ExtendIs DEF PartTo

LEMMA OneCluster ==
  ASSUME Meant, NEW c \in Nat, NEW q \in Nat, NEW o \in Nat, NEW a \in Nat \ {0}, o + a <= CB
  PROVE  Extend(PartTo(c, q, o), ClusterStart(BPB, Follow(c)[q]) + o, a)
           = IF o + a = CB THEN PartTo(c, q + 1, 0) ELSE PartTo(c, q, o + a)
<1> DEFINE s == ClusterStart(BPB, Follow(c)[q])
           W == Whole(c)[q]
<1>1. s \in Int /\ W \in Seq(Stretch) /\ o + a \in Nat \ {0}
  <2>1. s \in Int
    BY PartIs
  <2>2. W \in Seq(Stretch)
    BY WholeIs
  <2>3. o + a \in Nat \ {0}
    OBVIOUS
  <2> QED
    BY <2>1, <2>2, <2>3
<1>2. Extend(PartTo(c, q, o), s + o, a) = Extend(W, s, o + a)
  <2>1. CASE o = 0
    <3>1. s + o = s /\ o + a = a
      BY <1>1, <2>1
    <3> QED
      BY <2>1, <3>1 DEF PartTo
  <2>2. CASE o # 0
    <3>1. PartTo(c, q, o) = Extend(W, s, o)
      BY <2>2 DEF PartTo
    <3> HIDE DEF W, s
    <3>2. Extend(Extend(W, s, o), s + o, a) = Extend(W, s, o + a)
      BY <1>1, ExtendTwice
    <3> QED
      BY <3>1, <3>2
  <2> QED
    BY <2>1, <2>2
<1>3. PartTo(c, q + 1, 0) = Extend(W, s, CB)
  BY WholeIs DEF PartTo
<1>4. PartTo(c, q, o + a) = Extend(W, s, o + a)
  BY <1>1 DEF PartTo
<1> HIDE DEF W, s
<1> QED
  BY <1>2, <1>3, <1>4 DEF s

LEMMA PiecesAre ==
  ASSUME Meant, NEW c \in Nat, NEW n \in Nat
  PROVE  /\ Pieces(c, n) = PartTo(c, n \div CB, n % CB)
         /\ n \div CB \in Nat /\ n % CB \in 0..(CB - 1) /\ n = (n \div CB) * CB + (n % CB)
         /\ Pieces(c, n) \in Seq(Stretch)
<1>1. CB \in Nat \ {0}
  BY Clusters
<1>2. n \div CB \in Nat /\ n % CB \in 0..(CB - 1) /\ n = CB * (n \div CB) + (n % CB)
  BY <1>1, DivMod
<1> DEFINE q == n \div CB
           o == n % CB
<1>3. q \in Nat /\ o \in 0..(CB - 1) /\ o \in Nat /\ n = CB * q + o
  BY <1>1, <1>2
<1>4. Pieces(c, n) = PartTo(c, q, o)
  BY DEF Pieces, PartTo, CB, BPB
<1> HIDE DEF q, o
<1>5. PartTo(c, q, o) \in Seq(Stretch)
  BY <1>3, PartIs
<1>6. CB * q + o = q * CB + o
  BY <1>1, <1>3
<1> QED
  BY <1>3, <1>4, <1>5, <1>6 DEF q, o

(* What is left of a cluster follows the first n bytes.                    *)
LEMMA PiecesMore ==
  ASSUME Meant, NEW c \in Nat, NEW n \in Nat, NEW a \in Nat \ {0}, (n % CB) + a <= CB
  PROVE  Extend(Pieces(c, n), ClusterStart(BPB, Follow(c)[n \div CB]) + (n % CB), a)
           = Pieces(c, n + a)
<1> DEFINE q == n \div CB
           o == n % CB
<1>1. CB \in Nat \ {0}
  BY Clusters
<1>2. q \in Nat /\ o \in 0..(CB - 1) /\ n = q * CB + o /\ Pieces(c, n) = PartTo(c, q, o)
  BY PiecesAre
<1> HIDE DEF q, o
<1>3. o \in Nat /\ o + a <= CB
  BY <1>1, <1>2 DEF o
<1>4. Extend(PartTo(c, q, o), ClusterStart(BPB, Follow(c)[q]) + o, a)
        = IF o + a = CB THEN PartTo(c, q + 1, 0) ELSE PartTo(c, q, o + a)
  BY <1>2, <1>3, OneCluster
<1>5. n + a \in Nat /\ Pieces(c, n + a) = PartTo(c, (n + a) \div CB, (n + a) % CB)
  <2>1. n + a \in Nat
    OBVIOUS
  <2> QED
    BY <2>1, PiecesAre
<1>6. CASE o + a = CB
  <2>1. n + a = (q + 1) * CB + 0
    BY <1>1, <1>2, <1>3, <1>6
  <2>2. q + 1 \in Nat /\ 0 \in 0..(CB - 1)
    BY <1>1, <1>2
  <2>3. ((q + 1) * CB + 0) \div CB = q + 1 /\ ((q + 1) * CB + 0) % CB = 0
    BY <1>1, <2>2, DivUnique
  <2> QED
    BY <1>2, <1>4, <1>5, <1>6, <2>1, <2>3 DEF q, o
<1>7. CASE o + a # CB
  <2>1. n + a = q * CB + (o + a)
    BY <1>1, <1>2, <1>3
  <2>2. o + a \in 0..(CB - 1)
    BY <1>1, <1>3, <1>7
  <2>3. (q * CB + (o + a)) \div CB = q /\ (q * CB + (o + a)) % CB = o + a
    BY <1>1, <1>2, <2>2, DivUnique
  <2> QED
    BY <1>2, <1>4, <1>5, <1>7, <2>1, <2>3 DEF q, o
<1> QED
  BY <1>6, <1>7

(* From the cluster of byte n on, k clusters of the chain follow each      *)
(* other.                                                                  *)
Adjacent(c, n, k) ==
  \A j \in 0..(k - 1) : Follow(c)[(n \div CB) + j] = Follow(c)[n \div CB] + j

Grows(c, n, m) ==
  Extend(Pieces(c, n), ClusterStart(BPB, Follow(c)[n \div CB]) + (n % CB), m) = Pieces(c, n + m)

LEMMA RunGrows ==
  ASSUME Meant, NEW c \in Nat, NEW n \in Nat, NEW k0 \in Nat \ {0}, Adjacent(c, n, k0),
         NEW m0 \in Nat \ {0}, (n % CB) + m0 <= k0 * CB
  PROVE  Grows(c, n, m0)
<1> DEFINE q == n \div CB
           o == n % CB
           st == ClusterStart(BPB, Follow(c)[q])
           T == {k \in Nat : /\ k # 0 /\ Adjacent(c, n, k)
                             /\ \E m \in Nat \ {0} : o + m <= k * CB /\ ~Grows(c, n, m)}
<1>1. CB \in Nat \ {0}
  BY Clusters
<1>2. q \in Nat /\ o \in 0..(CB - 1) /\ n = q * CB + o /\ o \in Nat
  <2>1. q \in Nat /\ o \in 0..(CB - 1) /\ n = q * CB + o
    BY PiecesAre
  <2> HIDE DEF q, o
  <2> QED
    BY <1>1, <2>1
<1>3. st \in Int /\ Follow(c)[q] \in Nat
  <2> HIDE DEF q
  <2> QED
    BY <1>2, PartIs
<1>4. Pieces(c, n) \in Seq(Stretch)
  BY PiecesAre
<1>5. T = {}
  <2> SUFFICES ASSUME T # {} PROVE FALSE
    OBVIOUS
  <2>1. PICK k \in T : \A l \in T : k <= l
    <3>1. T \in SUBSET Nat
      OBVIOUS
    <3> HIDE DEF T
    <3> QED
      BY <3>1, LeastElement
  <2>2. k \in Nat \ {0} /\ Adjacent(c, n, k)
    BY <2>1
  <2>3. PICK m \in Nat \ {0} : o + m <= k * CB /\ ~Grows(c, n, m)
    BY <2>1
  <2>4. CASE o + m <= CB
    <3>1. Grows(c, n, m)
      BY <2>4, PiecesMore DEF Grows
    <3> QED
      BY <2>3, <3>1
  <2>5. CASE ~(o + m <= CB)
    <3> DEFINE i == k - 1
               a == i * CB - o
               b == m - a
    <3> HIDE DEF q, o, st
    <3>1. k >= 2
      <4>1. k # 1
        BY <1>1, <1>2, <2>3, <2>5
      <4> QED
        BY <2>2, <4>1
    <3>2. i \in Nat \ {0} /\ i < k
      BY <2>2, <3>1
    <3>3. i * CB >= CB /\ k * CB = i * CB + CB /\ i * CB \in Nat
      BY <1>1, <2>2, <3>1
    <3>4. a \in Nat \ {0} /\ o + a = i * CB
      BY <1>1, <1>2, <3>3
    <3>5. Adjacent(c, n, i)
      <4>1. \A j \in 0..(i - 1) : j \in 0..(k - 1)
        BY <2>2, <3>2
      <4> HIDE DEF i
      <4> QED
        BY <2>2, <4>1 DEF Adjacent
    <3>6. i \notin T
      <4>1. i \in Nat /\ ~(k <= i)
        BY <2>2, <3>2
      <4> HIDE DEF T, i
      <4> QED
        BY <2>1, <4>1
    <3>7. \A x \in Nat \ {0} : o + x <= i * CB => Grows(c, n, x)
      <4>1. i \in Nat /\ i # 0
        BY <3>2
      <4> HIDE DEF i
      <4> QED
        BY <3>5, <3>6, <4>1
    <3> HIDE DEF T
    <3>8. CASE m <= a
      <4>1. o + m <= i * CB
        BY <1>2, <2>3, <3>3, <3>4, <3>8
      <4> QED
        BY <2>3, <3>7, <4>1
    <3>9. CASE ~(m <= a)
      <4>1. b \in Nat \ {0} /\ b <= CB /\ a + b = m
        BY <1>1, <1>2, <2>2, <2>3, <3>3, <3>4, <3>9
      <4>2. Grows(c, n, a)
        <5>1. o + a <= i * CB
          BY <1>1, <3>3, <3>4
        <5> HIDE DEF a, i
        <5> QED
          BY <3>4, <3>7, <5>1
      <4> DEFINE na == n + a
      <4>3. na \in Nat /\ na = (q + i) * CB + 0
        <5>1. (q + i) * CB + 0 = q * CB + i * CB
          <6> HIDE DEF i
          <6> QED
            BY <1>1, <1>2, <3>2
        <5>2. q * CB \in Nat /\ n = q * CB + o
          BY <1>1, <1>2
        <5> HIDE DEF i, a
        <5>3. na = q * CB + i * CB
          BY <1>2, <3>3, <3>4, <5>2
        <5> QED
          BY <3>4, <5>1, <5>3
      <4>4. na \div CB = q + i /\ na % CB = 0
        <5>1. q + i \in Nat /\ 0 \in 0..(CB - 1)
          BY <1>1, <1>2, <3>2
        <5>2. ((q + i) * CB + 0) \div CB = q + i /\ ((q + i) * CB + 0) % CB = 0
          BY <1>1, <5>1, DivUnique
        <5> HIDE DEF na, i
        <5> QED
          BY <4>3, <5>2
      <4>5. Follow(c)[q + i] = Follow(c)[q] + i
        <5>1. i \in 0..(k - 1)
          BY <2>2
        <5> HIDE DEF i
        <5> QED
          BY <2>2, <5>1 DEF Adjacent, q
      <4>6. ClusterStart(BPB, Follow(c)[q + i]) = st + i * CB
        <5> DEFINE f == Follow(c)[q]
                   d == DataStart(BPB)
        <5>1. st = d + (f - 2) * CB /\ ClusterStart(BPB, f + i) = d + ((f + i) - 2) * CB
          BY DEF ClusterStart, st, CB
        <5>2. f \in Int /\ d \in Int /\ i \in Int
          BY <1>3, <3>2, Clusters
        <5> HIDE DEF f, d, i
        <5>3. d + ((f + i) - 2) * CB = (d + (f - 2) * CB) + i * CB
          BY <1>1, <5>2
        <5> QED
          BY <4>5, <5>1, <5>3 DEF f
      <4>7. Extend(Pieces(c, na), st + i * CB + 0, b) = Pieces(c, na + b)
        <5>1. 0 + b <= CB
          BY <1>1, <4>1
        <5> HIDE DEF na, b, i
        <5>2. Extend(Pieces(c, na), ClusterStart(BPB, Follow(c)[na \div CB]) + (na % CB), b)
                = Pieces(c, na + b)
          BY <4>1, <4>3, <4>4, <5>1, PiecesMore
        <5> QED
          BY <4>4, <4>6, <5>2
      <4>8. st + i * CB + 0 = (st + o) + a /\ na + b = n + m
        <5>1. na + b = n + m
          <6> HIDE DEF a, b
          <6> QED
            BY <3>4, <4>1
        <5> HIDE DEF i, a, b, na
        <5>2. st + i * CB + 0 = (st + o) + a
          BY <1>2, <1>3, <3>3, <3>4
        <5> QED
          BY <5>1, <5>2
      <4>9. Extend(Extend(Pieces(c, n), st + o, a), (st + o) + a, b) = Extend(Pieces(c, n), st + o, a + b)
        <5>1. st + o \in Int /\ a \in Int /\ b \in Int
          BY <1>2, <1>3, <3>4, <4>1
        <5> HIDE DEF a, b
        <5> QED
          BY <1>4, <5>1, ExtendTwice
      <4>10. Extend(Pieces(c, n), st + o, a) = Pieces(c, na)
        BY <4>2 DEF Grows, st, q, o
      <4> HIDE DEF a, b, na, i
      <4>11. Extend(Pieces(c, n), st + o, m) = Pieces(c, n + m)
        BY <4>1, <4>7, <4>8, <4>9, <4>10
      <4> QED
        BY <2>3, <4>11 DEF Grows, st, q, o
    <3> QED
      BY <3>8, <3>9
  <2> QED
    BY <2>4, <2>5
<1>6. k0 \notin T
  BY <1>5
<1>7. k0 \in Nat /\ k0 # 0 /\ m0 \in Nat \ {0} /\ o + m0 <= k0 * CB
  OBVIOUS
<1> HIDE DEF o, q, st
<1> QED
  BY <1>6, <1>7

(* As many clusters as n bytes take.                                       *)
LEMMA CeilIs ==
  ASSUME NEW n \in Nat, NEW d \in Nat \ {0}
  PROVE  CeilDiv(n, d) \in Nat /\ CeilDiv(n, d) * d >= n /\ CeilDiv(n, d) * d < n + d
<1> DEFINE x == n + d - 1
           q == x \div d
           r == x % d
<1>1. x \in Nat
  OBVIOUS
<1>2. x \div d \in Nat /\ x % d \in 0..(d - 1) /\ x = d * (x \div d) + (x % d)
  <2> HIDE DEF x
  <2> QED
    BY <1>1, DivMod
<1>3. q \in Nat /\ r \in 0..(d - 1) /\ n + d - 1 = d * q + r
  BY <1>2
<1>4. CeilDiv(n, d) = q
  BY DEF CeilDiv
<1> HIDE DEF q, r, x
<1>5. d * q = q * d /\ q * d \in Nat
  BY <1>3
<1>6. q * d >= n /\ q * d < n + d
  BY <1>3, <1>5
<1> QED
  BY <1>3, <1>4, <1>6

LEMMA MinIs ==
  ASSUME NEW S \in SUBSET Nat, S # {}
  PROVE  Min(S) \in S /\ \A x \in S : Min(S) <= x
<1>1. \E m \in S : \A x \in S : m <= x
  BY LeastElement
<1> QED
  BY <1>1 DEF Min

(* The first n clusters of a chain.                                        *)
LEMMA ChainIs ==
  ASSUME OnVolume, NEW c \in Nat, NEW n \in Nat
  PROVE  /\ Len(Chain(c, n)) \in 0..n
         /\ \A i \in Nat : i < Len(Chain(c, n)) =>
              Follow(c)[i] < EndMark /\ Follow(c)[i] \in ToSet(Chain(c, n))
         /\ Len(Chain(c, n)) = n \/ Follow(c)[Len(Chain(c, n))] >= EndMark
<1> DEFINE S == {k \in 0..n : k = n \/ Follow(c)[k] >= EndMark}
           m == Min(S)
           s == [i \in 1..m |-> Follow(c)[i - 1]]
<1>1. Follow(c) \in [Nat -> Nat]
  BY FollowIs
<1>2. EndMark \in Nat
  <2>1. Type \in {12, 16, 32}
    BY DEF Type, TypeOf
  <2> QED
    BY <2>1 DEF EndMark, EndOf
<1>3. m \in S /\ \A x \in S : m <= x
  <2>1. S \in SUBSET Nat /\ n \in S
    OBVIOUS
  <2> HIDE DEF S
  <2> QED
    BY <2>1, MinIs
<1>4. m \in 0..n /\ (m = n \/ Follow(c)[m] >= EndMark)
  <2> HIDE DEF m
  <2> QED
    BY <1>3
<1>5. Chain(c, n) = s
  BY DEF Chain
<1>6. \A i \in Nat : i < m => i \notin S
  <2> HIDE DEF S, m
  <2> QED
    BY <1>3, <1>4
<1> HIDE DEF m
<1>7. ASSUME NEW i \in Nat, i < m
      PROVE  Follow(c)[i] < EndMark
  <2>1. i \in 0..n /\ i # n
    BY <1>4, <1>7
  <2>2. ~(Follow(c)[i] >= EndMark)
    BY <1>6, <1>7, <2>1
  <2> QED
    BY <1>1, <1>2, <2>2
<1>8. Len(s) = m /\ DOMAIN s = 1..m
  BY <1>4
<1>9. ASSUME NEW i \in Nat, i < m
      PROVE  Follow(c)[i] \in ToSet(s)
  <2>1. i + 1 \in 1..m /\ (i + 1) - 1 = i
    BY <1>4, <1>9
  <2>2. s[i + 1] = Follow(c)[i]
    BY <2>1
  <2> HIDE DEF s
  <2> QED
    BY <1>8, <2>1, <2>2 DEF ToSet
<1> HIDE DEF s, S
<1>10. Len(Chain(c, n)) = m /\ ToSet(Chain(c, n)) = ToSet(s)
  BY <1>5, <1>8
<1> QED
  BY <1>4, <1>7, <1>9, <1>10

(* A run of k clusters is read.                                            *)
RunOf(c, o, max, k, r) ==
  /\ k \in Nat \ {0}
  /\ \A j \in 1..(k - 1) : NextCluster(c + j - 1) = c + j
  /\ r.read \in Nat \ {0} /\ r.read <= max
  /\ o + r.read <= k * ClusterSize /\ o + r.read > (k - 1) * ClusterSize
  /\ r.next = IF o + r.read = k * ClusterSize THEN NextCluster(c + k - 1) ELSE c + k - 1

LEMMA RunIs ==
  ASSUME Mounted, NEW c \in Nat, NEW o \in Nat, o < CB, NEW max \in Nat \ {0}
  PROVE  \E k \in Nat \ {0} : RunOf(c, o, max, k, Run(c, o, max))
<1> DEFINE S == Stops(c, o, max)
           k == Min(S)
           z == CeilDiv(o + max, CB)
           end == k * CB - o
           r == Run(c, o, max)
<1>1. ClusterSize = CB /\ CB \in Nat \ {0}
  BY Driver, Clusters
<1>2. o + max \in Nat /\ o + max > 0
  OBVIOUS
<1>3. z \in Nat /\ z * CB >= o + max /\ z # 0
  <2>1. z \in Nat /\ z * CB >= o + max
    BY <1>1, <1>2, CeilIs
  <2> HIDE DEF z
  <2>2. z # 0
    BY <1>1, <1>2, <2>1
  <2> QED
    BY <2>1, <2>2
<1>4. S = {j \in 1..z : j * CB - o >= max \/ NextCluster(c + j - 1) # c + j}
  BY <1>1 DEF Stops
<1>5. S \in SUBSET Nat /\ z \in S
  <2>1. z * CB - o >= max /\ z \in 1..z
    <3> HIDE DEF z
    <3> QED
      BY <1>1, <1>3
  <2> HIDE DEF z, S
  <2>2. S \in SUBSET Nat
    BY <1>3, <1>4
  <2> QED
    BY <1>4, <2>1, <2>2
<1> HIDE DEF z, S
<1>6. k \in S /\ \A x \in S : k <= x
  BY <1>5, MinIs
<1>7. r = IF end > max THEN [read |-> max, next |-> c + k - 1]
          ELSE [read |-> end, next |-> NextCluster(c + k - 1)]
  BY <1>1 DEF Run, S
<1> HIDE DEF k
<1>8. k \in 1..z /\ (k * CB - o >= max \/ NextCluster(c + k - 1) # c + k)
  BY <1>4, <1>6
<1>9. k \in Nat \ {0}
  BY <1>3, <1>8
<1>10. ASSUME NEW j \in 1..(k - 1) PROVE NextCluster(c + j - 1) = c + j /\ j * CB - o < max
  <2>1. j \in 1..z /\ j \in Nat /\ j < k
    BY <1>3, <1>8, <1>9
  <2>2. j \notin S
    BY <1>6, <1>9, <2>1
  <2>3. ~(j * CB - o >= max) /\ NextCluster(c + j - 1) = c + j
    BY <1>4, <2>1, <2>2
  <2>4. j * CB \in Nat
    BY <1>1, <2>1
  <2> QED
    BY <2>3, <2>4
<1>11. (k - 1) * CB < o + max
  <2>1. CASE k = 1
    BY <1>1, <1>2, <2>1
  <2>2. CASE k # 1
    <3>1. k - 1 \in 1..(k - 1)
      BY <1>9, <2>2
    <3>2. (k - 1) * CB - o < max
      BY <1>10, <3>1
    <3>3. (k - 1) * CB \in Nat
      BY <1>1, <1>9
    <3> QED
      BY <3>2, <3>3
  <2> QED
    BY <2>1, <2>2
<1>12. k * CB = (k - 1) * CB + CB /\ (k - 1) * CB \in Nat /\ k * CB \in Nat
  BY <1>1, <1>9
<1>13. CASE end > max
  <2>1. r.read = max /\ r.next = c + k - 1
    BY <1>7, <1>13
  <2> HIDE DEF r
  <2>2. o + r.read < k * CB /\ o + r.read > (k - 1) * CB
    BY <1>2, <1>11, <1>12, <1>13, <2>1
  <2>3. o + r.read # k * CB
    BY <1>12, <2>1, <2>2
  <2>4. r.read \in Nat \ {0} /\ r.read <= max /\ o + r.read <= k * CB
    BY <1>12, <2>1, <2>2
  <2> QED
    BY <1>1, <1>9, <1>10, <2>1, <2>2, <2>3, <2>4 DEF RunOf, r
<1>14. CASE ~(end > max)
  <2>1. r.read = end /\ r.next = NextCluster(c + k - 1)
    BY <1>7, <1>14
  <2> HIDE DEF r
  <2>2. o + r.read = k * CB /\ k * CB > (k - 1) * CB
    BY <1>1, <1>12, <2>1
  <2>3. r.read \in Nat \ {0} /\ r.read <= max
    BY <1>1, <1>12, <1>14, <2>1
  <2>4. o + r.read <= k * CB
    BY <1>12, <2>2
  <2> QED
    BY <1>1, <1>9, <1>10, <2>1, <2>2, <2>3, <2>4 DEF RunOf, r
<1> QED
  BY <1>13, <1>14

(* A run that lies on the device stays on the chain.                       *)
ChainOf(c, size) == Chain(c, CeilDiv(size, CB))
At(c, n) == Follow(c)[n \div CB]
OnChain(c, n, l, k) ==
  \A j \in 0..(k - 1) : (n \div CB) + j < l /\ Follow(c)[(n \div CB) + j] = At(c, n) + j

LEMMA Begins ==
  ASSUME Mounted, NEW c \in Nat, NEW n \in Nat, NEW size \in Nat, n < size,
         n <= CB * Len(ChainOf(c, size)), At(c, n) < EndMark
  PROVE  n \div CB < Len(ChainOf(c, size))
<1> DEFINE q == n \div CB
           o == n % CB
           z == CeilDiv(size, CB)
           l == Len(ChainOf(c, size))
<1>1. CB \in Nat \ {0} /\ Meant
  BY Driver, Clusters
<1>2. q \in Nat /\ o \in 0..(CB - 1) /\ n = q * CB + o
  BY <1>1, PiecesAre
<1>3. z \in Nat /\ z * CB >= size
  BY <1>1, CeilIs
<1>4. l \in 0..z /\ (l = z \/ Follow(c)[l] >= EndMark)
  <2> HIDE DEF z
  <2>1. OnVolume
    BY DEF Mounted
  <2>2. z \in Nat /\ z = CeilDiv(size, CB)
    BY <1>3 DEF z
  <2>3. /\ Len(Chain(c, z)) \in 0..z
        /\ Len(Chain(c, z)) = z \/ Follow(c)[Len(Chain(c, z))] >= EndMark
    BY <2>1, <2>2, ChainIs
  <2> QED
    BY <2>3 DEF ChainOf, z
<1>5. n <= CB * l /\ Follow(c)[q] < EndMark /\ Follow(c)[q] \in Nat
  <2>1. Follow(c)[q] \in Nat
    BY <1>1, <1>2, FollowIs DEF Meant
  <2> QED
    BY <2>1 DEF At
<1>6. EndMark \in Nat
  <2>1. Type \in {12, 16, 32}
    BY Driver
  <2> QED
    BY <2>1 DEF EndMark, EndOf
<1> HIDE DEF q, o, z, l
<1>7. SUFFICES ASSUME ~(q < l) PROVE FALSE
  BY DEF q, l
<1>8. q >= l /\ l \in Nat
  BY <1>2, <1>3, <1>4, <1>7
<1>9. q = l
  <2>1. CASE q > l
    <3>1. q * CB >= (l + 1) * CB
      BY <1>1, <1>2, <1>8, <2>1
    <3>2. (l + 1) * CB = CB * l + CB
      BY <1>1, <1>8
    <3> QED
      BY <1>1, <1>2, <1>5, <1>8, <3>1, <3>2
  <2> QED
    BY <1>2, <1>8, <2>1
<1>10. l = z
  BY <1>4, <1>5, <1>6, <1>9
<1> QED
  BY <1>1, <1>2, <1>3, <1>9, <1>10

(* What is known of a chain that lies where the driver can follow it.      *)
SafeChain(c, size) ==
  /\ Mounted /\ Addressable
  /\ \A i \in Nat : i < Len(ChainOf(c, size)) =>
       /\ Follow(c)[i] \in Nat /\ Follow(c)[i] < EndMark
       /\ ClusterOffset(Follow(c)[i]) = ClusterStart(BPB, Follow(c)[i])
       /\ NextCluster(Follow(c)[i]) = Follow(c)[i + 1]
  /\ Len(ChainOf(c, size)) \in 0..CeilDiv(size, CB)
  /\ Len(ChainOf(c, size)) = CeilDiv(size, CB) \/ Follow(c)[Len(ChainOf(c, size))] >= EndMark

LEMMA SafeChainIs ==
  ASSUME Mounted, NEW c \in Nat, NEW size \in Nat, Safe(ToSet(ChainOf(c, size)))
  PROVE  SafeChain(c, size)
<1> DEFINE z == CeilDiv(size, CB)
<1>1. CB \in Nat \ {0} /\ Meant /\ OnVolume
  BY Driver, Clusters DEF Meant
<1>2. z \in Nat
  BY <1>1, CeilIs
<1>3. z = CeilDiv(size, CB)
  OBVIOUS
<1> HIDE DEF z
<1>4. /\ Len(Chain(c, z)) \in 0..z
      /\ \A i \in Nat : i < Len(Chain(c, z)) =>
           Follow(c)[i] < EndMark /\ Follow(c)[i] \in ToSet(Chain(c, z))
      /\ Len(Chain(c, z)) = z \/ Follow(c)[Len(Chain(c, z))] >= EndMark
  BY <1>1, <1>2, ChainIs
<1>5. Chain(c, z) = ChainOf(c, size)
  BY <1>3 DEF ChainOf
<1>6. ASSUME NEW i \in Nat, i < Len(ChainOf(c, size))
      PROVE  /\ Follow(c)[i] \in Nat /\ Follow(c)[i] < EndMark
             /\ ClusterOffset(Follow(c)[i]) = ClusterStart(BPB, Follow(c)[i])
             /\ NextCluster(Follow(c)[i]) = Follow(c)[i + 1]
  <2> DEFINE f == Follow(c)[i]
  <2>1. f \in Nat /\ Follow(c)[i + 1] = Link(f)
    BY <1>1, FollowIs
  <2>2. f < EndMark /\ f \in ToSet(ChainOf(c, size))
    BY <1>4, <1>5, <1>6
  <2>3. ~SignLost(f) /\ ~Wraps(f)
    BY <2>2 DEF Safe
  <2> HIDE DEF f
  <2>4. NextCluster(f) = Link(f)
    BY <2>1, <2>3, NextIs
  <2>5. ClusterStart(BPB, f) \in 0..MaxU32
    BY <2>3 DEF Wraps, BPB
  <2>6. ClusterOffset(f) = ClusterStart(BPB, f)
    BY <2>1, <2>5, Driver
  <2> QED
    BY <2>1, <2>2, <2>4, <2>6 DEF f
<1>7. Addressable
  BY DEF Safe
<1> QED
  BY <1>3, <1>4, <1>5, <1>6, <1>7 DEF SafeChain

LEMMA StaysOnChain ==
  ASSUME NEW c \in Nat, NEW n \in Nat, NEW size \in Nat, SafeChain(c, size),
         NEW max \in Nat \ {0}, n + max <= size,
         n <= CB * Len(ChainOf(c, size)), At(c, n) < EndMark,
         NEW k \in Nat \ {0}, NEW r, RunOf(At(c, n), n % CB, max, k, r),
         InDevice(ClusterOffset(At(c, n)) + (n % CB), r.read)
  PROVE  OnChain(c, n, Len(ChainOf(c, size)), k)
<1> DEFINE q == n \div CB
           o == n % CB
           z == CeilDiv(size, CB)
           l == Len(ChainOf(c, size))
           a == Follow(c)[q]
           m == r.read
           st == ClusterStart(BPB, a)
           T == {j \in 0..(k - 1) : ~(q + j < l /\ Follow(c)[q + j] = a + j)}
<1>1. CB \in Nat \ {0} /\ Meant /\ Mounted /\ OnVolume /\ ClusterSize = CB
  BY Driver, Clusters DEF SafeChain, Meant
<1>2. q \in Nat /\ o \in 0..(CB - 1) /\ n = q * CB + o
  BY <1>1, PiecesAre
<1>3. z \in Nat /\ z * CB >= size
  BY <1>1, CeilIs
<1>4. l \in 0..z /\ (l = z \/ Follow(c)[l] >= EndMark)
  BY DEF SafeChain
<1>5. q < l
  <2>1. n < size
    OBVIOUS
  <2> HIDE DEF q, l
  <2>2. n \div CB < Len(ChainOf(c, size))
    BY <1>1, <2>1, Begins
  <2> QED
    BY <2>2 DEF q, l
<1>6. a \in Nat /\ st \in Int /\ ClusterOffset(a) = st
  <2>1. a \in Nat /\ ClusterOffset(a) = st
    <3> HIDE DEF q
    <3> QED
      BY <1>2, <1>5 DEF SafeChain
  <2> HIDE DEF a, q
  <2>2. a \in Int
    BY <2>1
  <2> QED
    BY <1>1, <2>1, <2>2, Clusters
<1>7. /\ m \in Nat \ {0} /\ m <= max /\ o + m <= k * CB /\ o + m > (k - 1) * CB
      /\ \A j \in 1..(k - 1) : NextCluster(a + j - 1) = a + j
  BY <1>1 DEF RunOf, At
<1>8. (st + o) + m <= Bytes(BPB, Sects(BPB))
  BY <1>6 DEF InDevice, At, BPB
<1>9. T = {}
  <2> SUFFICES ASSUME T # {} PROVE FALSE
    OBVIOUS
  <2>1. PICK j \in T : \A i \in T : j <= i
    <3>1. T \in SUBSET Nat
      OBVIOUS
    <3> HIDE DEF T
    <3> QED
      BY <3>1, LeastElement
  <2>2. j \in 0..(k - 1) /\ ~(q + j < l /\ Follow(c)[q + j] = a + j)
    BY <2>1
  <2> HIDE DEF q, o, z, l, a, m, st
  <2>3. j # 0
    BY <1>2, <1>5, <1>6, <2>2 DEF a
  <2> DEFINE i == j - 1
  <2>4. i \in 0..(k - 1) /\ i \in Nat /\ j = i + 1 /\ j \in 1..(k - 1)
    BY <2>2, <2>3
  <2>5. q + i < l /\ Follow(c)[q + i] = a + i
    <3>1. i \notin T
      <4>1. i \in Nat /\ ~(j <= i)
        BY <2>4
      <4> HIDE DEF T, i
      <4> QED
        BY <2>1, <4>1
    <3> HIDE DEF i
    <3> QED
      BY <2>4, <3>1
  <2>6. Follow(c)[q + j] = a + j
    <3>1. NextCluster(a + j - 1) = a + j
      BY <1>7, <2>4
    <3>2. a + j - 1 = a + i /\ q + i \in Nat /\ (q + i) + 1 = q + j
      BY <1>2, <1>6, <2>4
    <3>3. NextCluster(Follow(c)[q + i]) = Follow(c)[(q + i) + 1]
      <4> HIDE DEF i
      <4> QED
        BY <2>5, <3>2 DEF SafeChain, l
    <3> QED
      BY <2>5, <3>1, <3>2, <3>3
  <2>7. ~(q + j < l)
    BY <2>2, <2>6
  <2>8. q + j = l /\ l \in Nat
    BY <1>2, <1>3, <1>4, <2>4, <2>5, <2>7
  <2>9. CASE l = z
    <3>1. n + m <= size
      BY <1>7
    <3>2. z * CB >= n + m
      BY <1>3, <1>1, <1>7, <3>1
    <3>3. n + m = q * CB + (o + m)
      BY <1>1, <1>2, <1>7
    <3>4. j * CB <= (k - 1) * CB
      BY <1>1, <2>2
    <3>5. (q + j) * CB = q * CB + j * CB /\ q * CB \in Nat /\ j * CB \in Nat /\ (k - 1) * CB \in Nat
      BY <1>1, <1>2, <2>2
    <3>6. z * CB = q * CB + j * CB /\ z * CB \in Nat
      BY <1>3, <1>1, <2>8, <2>9, <3>5
    <3> HIDE DEF i
    <3>7. o + m \in Nat
      BY <1>2, <1>7, <1>1
    <3> DEFINE u == q * CB  v == j * CB  x == (k - 1) * CB  y == z * CB
    <3>8. /\ u \in Nat /\ v \in Nat /\ x \in Nat /\ y \in Nat /\ y = u + v /\ v <= x
          /\ y >= n + m /\ n + m = u + (o + m) /\ o + m > x
      BY <1>7, <3>2, <3>3, <3>4, <3>5, <3>6
    <3> HIDE DEF u, v, x, y
    <3> QED
      BY <3>7, <3>8
  <2>10. CASE Follow(c)[l] >= EndMark
    <3>1. a + i \in Int /\ ClusterStart(BPB, a + i) = st + i * CB
      <4> DEFINE d == DataStart(BPB)
      <4>1. st = d + (a - 2) * CB /\ ClusterStart(BPB, a + i) = d + ((a + i) - 2) * CB
        BY DEF ClusterStart, st, CB
      <4>2. a \in Int /\ d \in Int /\ i \in Int
        BY <1>1, <1>6, <2>4, Clusters
      <4> HIDE DEF d, i
      <4>3. d + ((a + i) - 2) * CB = (d + (a - 2) * CB) + i * CB
        BY <1>1, <4>2
      <4> QED
        BY <4>1, <4>2, <4>3
    <3>2. i * CB <= (k - 1) * CB /\ i * CB \in Nat /\ (k - 1) * CB \in Nat
      BY <1>1, <2>4
    <3>3. ClusterStart(BPB, a + i) < Bytes(BPB, Sects(BPB))
      <4>1. Bytes(BPB, Sects(BPB)) \in Int
        <5>1. Sects(BPB) \in Nat
          BY <1>1, Fields
        <5>2. BPB.bytes_per_sect \in {512, 1024, 2048, 4096}
          BY <1>1, Fields
        <5> QED
          BY <5>1, <5>2 DEF Bytes
      <4> HIDE DEF i
      <4>2. o + m \in Nat /\ st + o + m = st + (o + m) /\ (st + o) + m = st + (o + m)
        BY <1>2, <1>6, <1>7, <1>1
      <4> DEFINE u == i * CB  x == (k - 1) * CB
      <4>3. u \in Nat /\ x \in Nat /\ u <= x /\ o + m > x /\ ClusterStart(BPB, a + i) = st + u
        BY <1>7, <3>1, <3>2
      <4> HIDE DEF u, x
      <4> QED
        BY <1>6, <1>7, <1>8, <4>1, <4>2, <4>3
    <3>4. EndMark \in Nat /\ (a + i) + 1 < EndMark
      <4>1. Addressable
        BY DEF SafeChain
      <4> HIDE DEF i
      <4> QED
        BY <1>1, <3>1, <3>3, <4>1, Inside
    <3>5. Follow(c)[l] = (a + i) + 1
      BY <1>6, <2>4, <2>6, <2>8
    <3> QED
      BY <1>6, <2>4, <2>10, <3>4, <3>5
  <2> QED
    BY <1>4, <2>9, <2>10
<1>10. \A j \in 0..(k - 1) : q + j < l /\ Follow(c)[q + j] = a + j
  <2> HIDE DEF q, l, a
  <2> QED
    BY <1>9
<1> QED
  BY <1>10 DEF OnChain, At

(* What a run does to the position, and where it leads.                    *)
Advances(c, size, n, max, r) ==
  /\ r.read \in Nat \ {0} /\ r.read <= max
  /\ n + r.read <= Least(size, CB * Len(ChainOf(c, size)))
  /\ Extend(Pieces(c, n), ClusterOffset(At(c, n)) + (n % CB), r.read) = Pieces(c, n + r.read)
  /\ r.next = At(c, n + r.read)

LEMMA RunAdvances ==
  ASSUME NEW c \in Nat, NEW n \in Nat, NEW size \in Nat, SafeChain(c, size),
         NEW max \in Nat \ {0}, n + max <= size,
         n <= CB * Len(ChainOf(c, size)), At(c, n) < EndMark,
         InDevice(ClusterOffset(At(c, n)) + (n % CB), Run(At(c, n), n % CB, max).read)
  PROVE  Advances(c, size, n, max, Run(At(c, n), n % CB, max))
<1> DEFINE q == n \div CB
           o == n % CB
           l == Len(ChainOf(c, size))
           a == At(c, n)
           r == Run(a, o, max)
           m == r.read
<1>1. CB \in Nat \ {0} /\ Meant /\ Mounted /\ OnVolume /\ ClusterSize = CB
  BY Driver, Clusters DEF SafeChain, Meant
<1>2. q \in Nat /\ o \in 0..(CB - 1) /\ n = q * CB + o /\ o \in Nat /\ o < CB
  <2>1. q \in Nat /\ o \in 0..(CB - 1) /\ n = q * CB + o
    BY <1>1, PiecesAre
  <2> HIDE DEF q, o
  <2> QED
    BY <1>1, <2>1
<1>3. q < l
  <2>1. n < size
    OBVIOUS
  <2> HIDE DEF q, l
  <2>2. n \div CB < Len(ChainOf(c, size))
    BY <1>1, <2>1, Begins
  <2> QED
    BY <2>2 DEF q, l
<1>4. a \in Nat /\ ClusterOffset(a) = ClusterStart(BPB, a)
  <2> HIDE DEF q, l
  <2> QED
    BY <1>2, <1>3 DEF SafeChain, At, q, l
<1>5. PICK k \in Nat \ {0} : RunOf(a, o, max, k, r)
  <2> HIDE DEF a, o
  <2> QED
    BY <1>1, <1>2, <1>4, RunIs
<1>6. OnChain(c, n, l, k)
  <2>1. RunOf(At(c, n), n % CB, max, k, r)
    BY <1>5
  <2>2. InDevice(ClusterOffset(At(c, n)) + (n % CB), r.read)
    OBVIOUS
  <2> HIDE DEF r, l
  <2>3. OnChain(c, n, Len(ChainOf(c, size)), k)
    BY <2>1, <2>2, StaysOnChain
  <2> QED
    BY <2>3 DEF l
<1>7. /\ m \in Nat \ {0} /\ m <= max /\ o + m <= k * CB /\ o + m > (k - 1) * CB
      /\ r.next = IF o + m = k * CB THEN NextCluster(a + k - 1) ELSE a + k - 1
  <2> HIDE DEF a, o, r
  <2> QED
    BY <1>1, <1>5 DEF RunOf, m
<1> HIDE DEF r, m
<1>8. \A j \in 0..(k - 1) : q + j < l /\ Follow(c)[q + j] = a + j
  BY <1>6 DEF OnChain
<1>9. Extend(Pieces(c, n), ClusterOffset(a) + o, m) = Pieces(c, n + m)
  <2>1. Adjacent(c, n, k)
    BY <1>8 DEF Adjacent, At
  <2>2. (n % CB) + m <= k * CB
    BY <1>7
  <2> HIDE DEF a, o, l, q
  <2>3. Grows(c, n, m)
    BY <1>1, <1>7, <2>1, <2>2, RunGrows
  <2>4. Extend(Pieces(c, n), ClusterStart(BPB, a) + o, m) = Pieces(c, n + m)
    BY <2>3 DEF Grows, At, a, o
  <2> QED
    BY <1>4, <2>4
<1>10. l \in Nat
  <2>1. l \in 0..CeilDiv(size, CB) /\ CeilDiv(size, CB) \in Nat
    BY <1>1, CeilIs DEF SafeChain
  <2> QED
    BY <2>1
<1> HIDE DEF a, o, l, q
<1>11. k - 1 \in Nat /\ q + (k - 1) < l /\ Follow(c)[q + (k - 1)] = a + (k - 1)
  BY <1>8
<1>12. (k - 1) * CB \in Nat /\ k * CB = (k - 1) * CB + CB /\ q * CB \in Nat
  BY <1>1, <1>2
<1>13. n + m <= Least(size, CB * l)
  <2>1. n + m <= size
    BY <1>7
  <2>2. q + k <= l
    BY <1>2, <1>10, <1>11
  <2>3. (q + k) * CB <= l * CB
    BY <1>1, <1>2, <1>10, <2>2
  <2>4. (q + k) * CB = q * CB + k * CB /\ l * CB = CB * l /\ CB * l \in Nat
    BY <1>1, <1>2, <1>10
  <2>5. n + m <= CB * l
    <3>1. k * CB \in Nat /\ q * CB \in Nat /\ n + m = q * CB + (o + m)
      BY <1>1, <1>2, <1>7
    <3>2. o + m \in Nat /\ o + m <= k * CB
      BY <1>2, <1>7
    <3>3. n + m <= q * CB + k * CB
      BY <3>1, <3>2
    <3>4. q * CB + k * CB <= l * CB /\ l * CB = CB * l
      BY <2>3, <2>4
    <3> DEFINE u == q * CB
               v == k * CB
               w == CB * l
    <3>5. u \in Nat /\ v \in Nat /\ w \in Nat /\ n + m <= u + v /\ u + v <= w
      BY <2>4, <3>1, <3>3, <3>4
    <3> HIDE DEF u, v, w
    <3>6. n + m <= w
      BY <1>7, <3>5
    <3> QED
      BY <3>6 DEF w
  <2> QED
    BY <2>1, <2>5 DEF Least
<1>14. r.next = At(c, n + m)
  <2>1. CASE o + m = k * CB
    <3>1. n + m = (q + k) * CB + 0
      <4>1. (q + k) * CB = q * CB + k * CB
        BY <1>1, <1>2
      <4> DEFINE u == q * CB
                 v == k * CB
                 z == (q + k) * CB
      <4>2. u \in Nat /\ v \in Nat /\ z = u + v /\ n = u + o /\ o + m = v
        BY <1>1, <1>2, <1>12, <2>1, <4>1
      <4> HIDE DEF u, v, z
      <4>3. n + m = z + 0
        BY <1>2, <1>7, <4>2
      <4> QED
        BY <4>3 DEF z
    <3>2. q + k \in Nat /\ 0 \in 0..(CB - 1)
      BY <1>1, <1>2
    <3>3. ((q + k) * CB + 0) \div CB = q + k
      BY <1>1, <3>2, DivUnique
    <3>4. At(c, n + m) = Follow(c)[q + k]
      BY <3>1, <3>3 DEF At
    <3>5. r.next = NextCluster(a + (k - 1))
      <4>1. a + k - 1 = a + (k - 1)
        BY <1>4
      <4> QED
        BY <1>7, <2>1, <4>1
    <3>6. NextCluster(Follow(c)[q + (k - 1)]) = Follow(c)[(q + (k - 1)) + 1]
      <4>1. q + (k - 1) \in Nat
        BY <1>2, <1>11
      <4> QED
        BY <1>11, <4>1 DEF SafeChain, l
    <3>7. (q + (k - 1)) + 1 = q + k
      BY <1>2
    <3> QED
      BY <1>11, <3>4, <3>5, <3>6, <3>7
  <2>2. CASE o + m # k * CB
    <3> DEFINE e == (o + m) - (k - 1) * CB
    <3>1. e \in 0..(CB - 1)
      <4> DEFINE x == (k - 1) * CB  y == k * CB
      <4>1. x \in Nat /\ y = x + CB /\ o + m <= y /\ o + m > x /\ o + m # y
        BY <1>7, <1>12, <2>2
      <4>2. o \in Nat /\ m \in Nat /\ CB \in Nat /\ e = (o + m) - x
        BY <1>1, <1>2, <1>7
      <4> HIDE DEF x, y, e
      <4> QED
        BY <4>1, <4>2
    <3>2. n + m = (q + (k - 1)) * CB + e
      <4>1. (q + (k - 1)) * CB = q * CB + (k - 1) * CB
        BY <1>1, <1>2
      <4> QED
        BY <1>2, <1>7, <1>12, <4>1
    <3>3. q + (k - 1) \in Nat
      BY <1>2, <1>11
    <3> HIDE DEF e
    <3>4. ((q + (k - 1)) * CB + e) \div CB = q + (k - 1)
      BY <1>1, <3>1, <3>3, DivUnique
    <3>5. At(c, n + m) = Follow(c)[q + (k - 1)]
      BY <3>2, <3>4 DEF At
    <3>6. r.next = a + (k - 1)
      <4>1. a + k - 1 = a + (k - 1)
        BY <1>4
      <4> QED
        BY <1>7, <2>2, <4>1
    <3> QED
      BY <1>11, <3>5, <3>6
  <2> QED
    BY <2>1, <2>2
<1> QED
  BY <1>7, <1>9, <1>13, <1>14 DEF Advances, a, o, l, r, m

(* Where no run begins, all has been read.                                 *)
LEMMA AllRead ==
  ASSUME NEW c \in Nat, NEW n \in Nat, NEW size \in Nat, SafeChain(c, size),
         n <= Least(size, CB * Len(ChainOf(c, size))), n >= size \/ At(c, n) >= EndMark
  PROVE  n = Least(size, CB * Len(ChainOf(c, size)))
<1> DEFINE q == n \div CB
           l == Len(ChainOf(c, size))
           o == n % CB
<1>1. CB \in Nat \ {0} /\ Meant /\ Mounted
  BY Driver, Clusters DEF SafeChain
<1>2. q \in Nat /\ o \in 0..(CB - 1) /\ n = q * CB + o
  BY <1>1, PiecesAre
<1>3. l \in Nat
  <2>1. l \in 0..CeilDiv(size, CB) /\ CeilDiv(size, CB) \in Nat
    BY <1>1, CeilIs DEF SafeChain
  <2> QED
    BY <2>1
<1>4. EndMark \in Nat
  <2>1. Type \in {12, 16, 32}
    BY <1>1, Driver
  <2> QED
    BY <2>1 DEF EndMark, EndOf
<1>5. CB * l \in Nat /\ n <= size /\ n <= CB * l
  <2> HIDE DEF l
  <2>1. CB * l \in Nat
    BY <1>1, <1>3
  <2> QED
    BY <2>1 DEF Least, l
<1>6. CASE n >= size
  <2> HIDE DEF l
  <2>1. n = size
    BY <1>5, <1>6
  <2> QED
    BY <1>5, <2>1 DEF Least, l
<1>7. CASE At(c, n) >= EndMark
  <2>1. ~(q < l)
    <3> SUFFICES ASSUME q < l PROVE FALSE
      OBVIOUS
    <3>1. Follow(c)[q] \in Nat /\ Follow(c)[q] < EndMark
      BY <1>2 DEF SafeChain
    <3> HIDE DEF q, l
    <3> QED
      BY <1>4, <1>7, <3>1 DEF At, q
  <2> HIDE DEF q, l, o
  <2>2. q >= l
    BY <1>2, <1>3, <2>1
  <2>3. q * CB >= l * CB /\ l * CB = CB * l
    BY <1>1, <1>2, <1>3, <2>2
  <2>4. q * CB \in Nat
    BY <1>1, <1>2
  <2>5. n = CB * l
    BY <1>2, <1>5, <2>3, <2>4
  <2> QED
    BY <1>5, <2>5 DEF Least, l
<1> QED
  BY <1>6, <1>7
----------------------------------------------------------------------------
(* What the variables hold.                                                *)

FatEntries(v) == {EntryAt(v, off) : off \in Int} \cup {Blank(END)}
Iter(v) ==
  [root16_12 : BOOLEAN, cluster : Nat, offset : Nat, r_entry : Nat, count : Nat,
   has_next : BOOLEAN, entry : FatEntries(v)]
Searches(v) == [op : {"open", "opendir"}, path : Paths, k : Nat, it : Iter(v)]

FatTypes ==
  /\ OnVolume
  /\ fs # None => Mounted
  /\ call.op \in {"open", "opendir"} => fs # None /\ call \in Searches(vol)
  /\ call.op = "read" =>
       file # None /\ call \in [op : {"read"}, asked : Nat, left : Nat] /\ call.left <= call.asked
  /\ file # None => fs # None /\ file \in FileType

LEMMA EntryIs ==
  ASSUME Meant, NEW off \in Int
  PROVE  EntryAt(vol, off).cluster \in Nat /\ EntryAt(vol, off).size \in Nat
<1> DEFINE data == off >= DataStart(BPB)
           c == IF data THEN 2 + (off - DataStart(BPB)) \div CB ELSE 0
           x == IF data THEN (off - DataStart(BPB)) % CB ELSE off - RootStart(BPB)
           k == x \div 32
           e == EntryAt(vol, off)
<1>1. Blank("?").cluster = 0 /\ Blank("?").size = 0 /\ Blank(END).cluster = 0 /\ Blank(END).size = 0
  BY DEF Blank
<1>2. e = IF off < RootStart(BPB) \/ c \notin DOMAIN vol.dir THEN Blank("?")
          ELSE IF k < Len(vol.dir[c]) THEN vol.dir[c][k + 1] ELSE Blank(END)
  BY DEF EntryAt, BPB, CB
<1>3. Numbers(vol)
  BY VolumesAssumption DEF Meant, OnVolume, vol
<1>4. CB \in Nat \ {0} /\ DataStart(BPB) \in Nat
  BY Clusters
<1>5. RootStart(BPB) \in Nat
  <2>1. BPB.bytes_per_sect \in {512, 1024, 2048, 4096}
    BY Fields
  <2>2. BPB.reserved_sects \in Nat /\ BPB.fats \in Nat /\ FatSects(BPB) \in Nat
    BY Fields
  <2>3. \A a, b, d, m \in Nat : (a + b * d) * m \in Nat
    OBVIOUS
  <2> QED
    BY <2>1, <2>2, <2>3 DEF RootStart, Bytes
<1>6. ASSUME ~(off < RootStart(BPB)) PROVE k \in Nat
  <2>1. CASE data
    <3>1. (off - DataStart(BPB)) % CB \in 0..(CB - 1)
      <4>1. off - DataStart(BPB) \in Nat
        BY <1>4, <2>1
      <4> QED
        BY <1>4, <4>1, DivMod
    <3>2. x \in Nat
      BY <1>4, <2>1, <3>1
    <3> HIDE DEF x
    <3> QED
      BY <3>2
  <2>2. CASE ~data
    <3>1. x \in Nat
      BY <1>5, <1>6, <2>2
    <3> HIDE DEF x
    <3> QED
      BY <3>1
  <2> QED
    BY <2>1, <2>2
<1> HIDE DEF c, k, e, x, data
<1>7. CASE off < RootStart(BPB) \/ c \notin DOMAIN vol.dir
  BY <1>1, <1>2, <1>7 DEF e
<1>8. CASE ~(off < RootStart(BPB) \/ c \notin DOMAIN vol.dir) /\ ~(k < Len(vol.dir[c]))
  BY <1>1, <1>2, <1>8 DEF e
<1>9. CASE ~(off < RootStart(BPB) \/ c \notin DOMAIN vol.dir) /\ k < Len(vol.dir[c])
  <2>1. e = vol.dir[c][k + 1] /\ k \in Nat
    BY <1>2, <1>6, <1>9
  <2>2. Len(vol.dir[c]) \in Nat
        /\ \A i \in 1..Len(vol.dir[c]) : {vol.dir[c][i].cluster, vol.dir[c][i].size} \subseteq Nat
    BY <1>3, <1>9 DEF Numbers
  <2>3. k + 1 \in 1..Len(vol.dir[c])
    BY <1>9, <2>1, <2>2
  <2> QED
    BY <2>1, <2>2, <2>3 DEF e
<1> QED
  BY <1>7, <1>8, <1>9

LEMMA EntriesAre ==
  ASSUME Meant, NEW e \in FatEntries(vol)
  PROVE  e.cluster \in Nat /\ e.size \in Nat
<1>1. CASE e = Blank(END)
  BY <1>1 DEF Blank
<1>2. CASE \E off \in Int : e = EntryAt(vol, off)
  BY <1>2, EntryIs
<1> QED
  BY <1>1, <1>2 DEF FatEntries

LEMMA HandlesIt ==
  ASSUME NEW it \in Iter(vol), NEW e \in FatEntries(vol)
  PROVE  HandleDirEntry(it, e).it \in Iter(vol)
<1> DEFINE read == [it EXCEPT !.entry = e]
           next == [read EXCEPT !.offset = @ + 32, !.has_next = TRUE]
           stop == [read EXCEPT !.has_next = FALSE]
<1>1. read \in Iter(vol)
  BY DEF Iter
<1>2. next \in Iter(vol) /\ stop \in Iter(vol)
  <2> HIDE DEF read
  <2>1. read.offset + 32 \in Nat
    BY <1>1 DEF Iter
  <2>2. next \in Iter(vol)
    BY <1>1, <2>1 DEF Iter
  <2>3. stop \in Iter(vol)
    BY <1>1 DEF Iter
  <2> QED
    BY <2>2, <2>3
<1>3. HandleDirEntry(it, e).it \in {next, stop}
  <2>1. CASE e.base[1] = END
    BY <2>1 DEF HandleDirEntry, Turn, End
  <2>2. CASE e.base[1] # END /\ (e.base[1] = FREE \/ (e.base[1] # END /\ IsLfn(e)))
    BY <2>2 DEF HandleDirEntry, Turn, End
  <2>3. CASE e.base[1] # END /\ ~(e.base[1] = FREE \/ (e.base[1] # END /\ IsLfn(e)))
    BY <2>3 DEF HandleDirEntry, Turn, End
  <2> QED
    BY <2>1, <2>2, <2>3
<1> HIDE DEF next, stop, read
<1> QED
  BY <1>2, <1>3

LEMMA ReadsIt ==
  ASSUME NEW it \in Iter(vol), NEW off \in Int
  PROVE  ReadEntry(it, off).it \in Iter(vol)
<1> DEFINE e == EntryAt(vol, off)
<1>1. e \in FatEntries(vol)
  BY DEF FatEntries
<1> HIDE DEF e
<1>2. HandleDirEntry(it, e).it \in Iter(vol)
  BY <1>1, HandlesIt
<1>3. Fail(it).it \in Iter(vol)
  BY DEF Fail, Turn
<1> QED
  BY <1>2, <1>3 DEF ReadEntry, e

LEMMA OffsetIs ==
  ASSUME Mounted, NEW c \in Nat
  PROVE  ClusterOffset(c) \in Nat
<1>1. /\ fs.data_off = MetaSects(BPB) * BPB.bytes_per_sect /\ Meant /\ ClusterSize = CB
  BY Driver DEF Mounted, FileSystem
<1>2. DataStart(BPB) \in Nat /\ CB \in Nat /\ fs.data_off = DataStart(BPB)
  BY <1>1, Clusters
<1> DEFINE x == fs.data_off + (c - 2) * ClusterSize
<1>3. x \in Int
  BY <1>1, <1>2
<1>4. MaxU32 + 1 \in Nat \ {0}
  BY VolumesAssumption
<1> HIDE DEF x
<1>5. x % (MaxU32 + 1) \in Nat
  BY <1>3, <1>4
<1> QED
  BY <1>5 DEF ClusterOffset, x

LEMMA TurnsIt ==
  ASSUME Mounted, NEW it \in Iter(vol)
  PROVE  NextTurn(it).it \in Iter(vol)
<1>1. Meant /\ it.cluster \in Nat /\ it.offset \in Nat
  BY Driver DEF Iter
<1>2. NextCluster(it.cluster) \in Nat
  BY <1>1, NextNat
<1>3. ASSUME NEW c \in Nat
      PROVE  [it EXCEPT !.cluster = c] \in Iter(vol) /\ [it EXCEPT !.cluster = c, !.offset = 0] \in Iter(vol)
  BY DEF Iter
<1>4. TurnRoot(it).it \in Iter(vol)
  <2> DEFINE off == RootEntriesOffset + it.offset
             t == ReadEntry(it, off)
  <2>1. off \in Int
    <3>1. /\ fs.reserved_sects = BPB.reserved_sects /\ fs.fat_count = BPB.fats
          /\ fs.fat_sects = FatSects(BPB) /\ fs.bytes_per_sect = BPB.bytes_per_sect
      BY DEF Mounted, FileSystem
    <3>2. BPB.bytes_per_sect \in {512, 1024, 2048, 4096}
      BY <1>1, Fields
    <3>3. BPB.reserved_sects \in Nat /\ BPB.fats \in Nat /\ FatSects(BPB) \in Nat
      BY <1>1, Fields
    <3>4. \A a, b, d, m \in Nat : (a + b * d) * m \in Nat
      OBVIOUS
    <3>5. RootEntriesOffset \in Nat
      BY <3>1, <3>2, <3>3, <3>4 DEF RootEntriesOffset
    <3> QED
      BY <1>1, <3>5
  <2> HIDE DEF off
  <2>2. t.it \in Iter(vol)
    BY <1>1, <2>1, ReadsIt
  <2>3. End(it).it \in Iter(vol)
    BY DEF End, Turn, Iter
  <2>4. \E what : t = [what |-> what, it |-> t.it]
    BY DEF ReadEntry, HandleDirEntry, Fail, Turn, End
  <2> HIDE DEF t
  <2> DEFINE u == [t EXCEPT !.it.r_entry = IF t.it.has_next THEN @ + 1 ELSE @]
  <2>5. u.it \in Iter(vol)
    <3>1. u.it = [t.it EXCEPT !.r_entry = IF t.it.has_next THEN @ + 1 ELSE @]
      BY <2>4
    <3> HIDE DEF u
    <3> QED
      BY <2>2, <3>1 DEF Iter
  <2>6. TurnRoot(it) = IF it.r_entry >= it.count THEN End(it) ELSE u
    BY DEF TurnRoot, t, off
  <2> HIDE DEF u
  <2> QED
    BY <2>3, <2>5, <2>6
<1>5. TurnCluster(it).it \in Iter(vol)
  <2> DEFINE c == NextCluster(it.cluster)
             moved == [it EXCEPT !.cluster = c]
             back == [it EXCEPT !.cluster = c, !.offset = 0]
             o1 == ClusterOffset(it.cluster) + it.offset
             o2 == ClusterOffset(c)
  <2>1. moved \in Iter(vol) /\ back \in Iter(vol)
    BY <1>2, <1>3
  <2>2. o1 \in Int /\ o2 \in Int
    BY <1>1, <1>2, OffsetIs
  <2>3. End(moved).it \in Iter(vol)
    <3> HIDE DEF moved
    <3> QED
      BY <2>1 DEF End, Turn, Iter
  <2>4. TurnCluster(it) = IF it.offset < ClusterSize THEN ReadEntry(it, o1)
                          ELSE IF c >= Limit THEN End(moved) ELSE ReadEntry(back, o2)
    BY DEF TurnCluster, EnterCluster
  <2> HIDE DEF c, moved, back, o1, o2
  <2>5. ReadEntry(it, o1).it \in Iter(vol) /\ ReadEntry(back, o2).it \in Iter(vol)
    BY <1>1, <2>1, <2>2, ReadsIt
  <2> QED
    BY <2>3, <2>4, <2>5
<1> QED
  BY <1>4, <1>5 DEF NextTurn

(* The volume and what the driver made of it stay.                         *)
LEMMA Stays ==
  ASSUME name' = name
  PROVE  /\ vol' = vol /\ OnVolume' = OnVolume /\ BPB' = BPB
         /\ fs' = fs => Mounted' = Mounted
<1>1. vol' = vol
  BY DEF vol
<1>2. BPB' = BPB
  BY <1>1 DEF BPB
<1> QED
  BY <1>1, <1>2 DEF OnVolume, Mounted

LEMMA FatInit == Init => FatTypes
<1>1. Idle.op = "idle"
  BY DEF Idle
<1> QED
  BY <1>1 DEF Init, FatTypes, OnVolume

LEMMA FatOthers ==
  ASSUME FatTypes,
         \/ ReadDir \/ Close \/ CloseDir \/ OpenDir \/ ReadDirTurn \/ DeviceFails
         \/ UNCHANGED vars
  PROVE  FatTypes'
<1>1. name' = name /\ fs' = fs /\ (file' = file \/ file' = None)
  BY DEF ReadDir, Close, CloseDir, OpenDir, ReadDirTurn, DeviceFails, vars
<1>2. call' = call \/ call'.op \in {"idle", "readdir"}
  BY DEF ReadDir, Close, CloseDir, OpenDir, ReadDirTurn, DeviceFails, vars, Refuse, Return,
         Returned, Listed, Idle
<1>3. call'.op = "read" => file' = file
  <2>1. CASE Close
    BY <2>1 DEF Close, Ready, Idle
  <2>2. CASE ~Close
    BY <2>2 DEF ReadDir, CloseDir, OpenDir, ReadDirTurn, DeviceFails, vars
  <2> QED
    BY <2>1, <2>2
<1>4. vol' = vol /\ OnVolume' = OnVolume /\ Mounted' = Mounted
  BY <1>1, Stays
<1>5. OnVolume' /\ (fs' # None => Mounted')
  BY <1>1, <1>4 DEF FatTypes
<1>6. call'.op \in {"open", "opendir"} => fs' # None /\ call' \in Searches(vol')
  BY <1>1, <1>2, <1>4 DEF FatTypes
<1>7. call'.op = "read" =>
        file' # None /\ call' \in [op : {"read"}, asked : Nat, left : Nat] /\ call'.left <= call'.asked
  BY <1>2, <1>3 DEF FatTypes
<1>8. file' # None => fs' # None /\ file' \in FileType
  BY <1>1 DEF FatTypes
<1> QED
  BY <1>5, <1>6, <1>7, <1>8 DEF FatTypes

LEMMA FatMount == FatTypes /\ Mount => FatTypes'
<1> SUFFICES ASSUME FatTypes, Mount PROVE FatTypes'
  OBVIOUS
<1>1. name' = name /\ call' = call /\ file' = file /\ fs = None
  BY DEF Mount
<1>2. vol' = vol /\ OnVolume' = OnVolume /\ BPB' = BPB
  BY <1>1, Stays
<1>3. file = None /\ call.op \notin {"open", "opendir", "read"}
  BY <1>1 DEF FatTypes
<1>4. fs' # None => Valid(BPB) /\ fs' = FileSystem(BPB)
  BY DEF Mount, BPB
<1>5. OnVolume' /\ (fs' # None => Mounted')
  BY <1>2, <1>4 DEF FatTypes, Mounted
<1> QED
  BY <1>1, <1>3, <1>5 DEF FatTypes

LEMMA FatStart1 ==
  ASSUME FatTypes, NEW op \in {"open", "opendir"}, NEW path \in Paths, Start(op, path)
  PROVE  FatTypes'
<1>1. /\ name' = name /\ fs' = fs /\ file' = file /\ file = None /\ fs # None
      /\ call' = [op |-> op, path |-> path, k |-> 1, it |-> AtRoot]
  BY DEF Start, Ready
<1>2. vol' = vol /\ OnVolume' = OnVolume /\ Mounted' = Mounted /\ Mounted
  BY <1>1, Stays DEF FatTypes
<1>3. AtRoot \in Iter(vol)
  <2>1. fs.root_cluster = BPB.root_cluster /\ fs.root_entry_count = BPB.root_entry_count
    BY <1>2 DEF Mounted, FileSystem
  <2>2. fs.root_cluster \in Nat /\ fs.root_entry_count \in Nat
    BY <1>2, <2>1, Fields, Driver
  <2>3. Blank(END) \in FatEntries(vol)
    BY DEF FatEntries
  <2> QED
    BY <2>2, <2>3 DEF AtRoot, Iter
<1>4. call' \in Searches(vol')
  BY <1>1, <1>2, <1>3 DEF Searches
<1>5. call'.op = op
  BY <1>1
<1> QED
  BY <1>1, <1>2, <1>4, <1>5 DEF FatTypes

(* How a turn of the search may go on.                                     *)
Went(it) == \/ call' = Idle /\ answer'.op = call.op
            \/ call' = [call EXCEPT !.k = @ + 1, !.it = Reset(it, it.entry)]
            \/ call' = [call EXCEPT !.k = @ + 1, !.it = it]
            \/ call' = [call EXCEPT !.it = it]
LEMMA SearchIs == Search => Went(NextTurn(call.it).it)
<1> SUFFICES ASSUME Search PROVE Went(NextTurn(call.it).it)
  OBVIOUS
<1>1. ASSUME NEW error, Refuse(error) PROVE call' = Idle /\ answer'.op = call.op
  BY <1>1 DEF Refuse, Return
<1>2. \/ \E error : Refuse(error)
      \/ call' = [call EXCEPT !.k = @ + 1, !.it = Reset(NextTurn(call.it).it, NextTurn(call.it).it.entry)]
      \/ call' = [call EXCEPT !.k = @ + 1, !.it = NextTurn(call.it).it]
      \/ call' = [call EXCEPT !.it = NextTurn(call.it).it]
  BY DEF Search
<1> QED
  BY <1>1, <1>2 DEF Went

LEMMA FatSearch == FatTypes /\ Search => FatTypes'
<1> SUFFICES ASSUME FatTypes, Search PROVE FatTypes'
  OBVIOUS
<1>1. name' = name /\ fs' = fs /\ file' = file /\ call.op \in {"open", "opendir"}
  BY DEF Search, Searching
<1>2. vol' = vol /\ OnVolume' = OnVolume /\ Mounted' = Mounted /\ Mounted /\ call \in Searches(vol)
  BY <1>1, Stays DEF FatTypes
<1> DEFINE t == NextTurn(call.it)
<1>3. t.it \in Iter(vol)
  <2>1. call.it \in Iter(vol)
    BY <1>2 DEF Searches
  <2> QED
    BY <1>2, <2>1, TurnsIt
<1>4. t.it.entry.cluster \in Nat
  <2>1. t.it.entry \in FatEntries(vol)
    BY <1>3 DEF Iter
  <2> HIDE DEF t
  <2> QED
    BY <1>2, <2>1, EntriesAre, Driver
<1> DEFINE back == Reset(t.it, t.it.entry)
<1>5. back \in Iter(vol)
  <2> HIDE DEF t
  <2> QED
    BY <1>3, <1>4 DEF Reset, Iter
<1>6. \/ call' = Idle
      \/ call' = [call EXCEPT !.k = @ + 1, !.it = back]
      \/ call' = [call EXCEPT !.k = @ + 1, !.it = t.it]
      \/ call' = [call EXCEPT !.it = t.it]
  BY SearchIs DEF Went
<1> HIDE DEF t, back
<1>7. call' = Idle \/ call' \in Searches(vol)
  <2>1. call.k + 1 \in Nat
    BY <1>2 DEF Searches
  <2>2. \A it \in Iter(vol) : /\ [call EXCEPT !.k = @ + 1, !.it = it] \in Searches(vol)
                            /\ [call EXCEPT !.it = it] \in Searches(vol)
    BY <1>2, <2>1 DEF Searches
  <2>3. CASE call' = [call EXCEPT !.k = @ + 1, !.it = back]
    BY <1>5, <2>2, <2>3
  <2>4. CASE call' = [call EXCEPT !.k = @ + 1, !.it = t.it]
    BY <1>3, <2>2, <2>4
  <2>5. CASE call' = [call EXCEPT !.it = t.it]
    BY <1>3, <2>2, <2>5
  <2> QED
    BY <1>6, <2>3, <2>4, <2>5
<1>8. CASE call' = Idle
  <2>1. call'.op = "idle"
    BY <1>8 DEF Idle
  <2> QED
    BY <1>1, <1>2, <2>1 DEF FatTypes
<1>9. CASE call' \in Searches(vol)
  <2>1. call'.op \in {"open", "opendir"} /\ call' \in Searches(vol')
    BY <1>2, <1>9 DEF Searches
  <2> QED
    BY <1>1, <1>2, <2>1 DEF FatTypes
<1> QED
  BY <1>7, <1>8, <1>9

LEMMA FatOpen == FatTypes /\ Open => FatTypes'
<1> SUFFICES ASSUME FatTypes, Open PROVE FatTypes'
  OBVIOUS
<1>1. name' = name /\ fs' = fs /\ call' = Idle /\ call.op = "open"
  BY DEF Open, Refuse, Return
<1>2. vol' = vol /\ OnVolume' = OnVolume /\ Mounted' = Mounted /\ Mounted /\ fs # None
      /\ call \in Searches(vol)
  BY <1>1, Stays DEF FatTypes
<1>3. call'.op = "idle"
  BY <1>1 DEF Idle
<1>4. Target.cluster \in Nat /\ Target.size \in Nat
  <2>1. Target \in FatEntries(vol)
    BY <1>2 DEF Target, Searches, Iter
  <2> HIDE DEF Target
  <2> QED
    BY <1>2, <2>1, EntriesAre, Driver
<1>5. \/ file' = file
      \/ file' = [size |-> Target.size, position |-> 0, cluster |-> Target.cluster,
                  pos |-> Target.cluster]
  BY DEF Open
<1>6. file' # None => fs' # None /\ file' \in FileType
  BY <1>1, <1>2, <1>4, <1>5 DEF FatTypes, FileType
<1> QED
  BY <1>1, <1>2, <1>3, <1>6 DEF FatTypes

LEMMA FatRead ==
  ASSUME FatTypes, NEW n \in Sizes, Read(n)
  PROVE  FatTypes'
<1>1. name' = name /\ fs' = fs /\ file' = file /\ file # None
      /\ call' = [op |-> "read", asked |-> n, left |-> n]
  BY DEF Read
<1>2. vol' = vol /\ OnVolume' = OnVolume /\ Mounted' = Mounted
  BY <1>1, Stays
<1>3. n \in Nat
  BY VolumesAssumption
<1> QED
  BY <1>1, <1>2, <1>3 DEF FatTypes

LEMMA SameVolume ==
  ASSUME name' = name, fs' = fs
  PROVE  /\ CB' = CB
         /\ \A c, n : At(c, n)' = At(c, n) /\ Pieces(c, n)' = Pieces(c, n)
                      /\ ChainOf(c, n)' = ChainOf(c, n)
         /\ \A clusters : Safe(clusters)' = Safe(clusters)
<1>1. vol' = vol
  BY DEF vol
<1>2. CB' = CB
  BY <1>1 DEF CB, BPB
<1>3. Type' = Type
  BY <1>1 DEF Type
<1>4. EndMark' = EndMark
  BY <1>3 DEF EndMark, EndOf
<1>5. \A c : Follow(c)' = Follow(c)
  BY <1>1, Zenon DEF Follow
<1>6. \A c : Whole(c)' = Whole(c)
  BY <1>1, <1>5, Zenon DEF Whole
<1>7. \A c, n : Chain(c, n)' = Chain(c, n)
  BY <1>1, <1>4, <1>5, Zenon DEF Chain
<1>8. \A c, n : ChainOf(c, n)' = ChainOf(c, n)
  BY <1>2, <1>7, Zenon DEF ChainOf
<1>9. \A c, n : At(c, n)' = At(c, n)
  BY <1>2, <1>5, Zenon DEF At
<1>10. \A c, n : Pieces(c, n)' = Pieces(c, n)
  BY <1>1, <1>5, <1>6 DEF Pieces
<1>11. \A c : SignLost(c)' = SignLost(c) /\ Wraps(c)' = Wraps(c)
  BY <1>1, <1>3 DEF SignLost, Wraps
<1>12. Addressable' = Addressable
  BY <1>1 DEF Addressable
<1>13. \A clusters : Safe(clusters)' = Safe(clusters)
  BY <1>11, <1>12 DEF Safe
<1> QED
  BY <1>2, <1>8, <1>9, <1>10, <1>13

(* What has been read of a file, and where its next byte lies.             *)
WholeOf(c, size) == Least(size, CB * Len(ChainOf(c, size)))
Done == call = Idle /\ answer.op = "read" /\ answer.error = "NONE"
ReadInv ==
  file # None /\ Safe(ToSet(ChainOf(file.cluster, file.size))) =>
    /\ file.position <= WholeOf(file.cluster, file.size)
    /\ got = Pieces(file.cluster, file.position)
    /\ file.pos = At(file.cluster, file.position)
    /\ Done => answer.nread = Least(answer.asked, WholeOf(file.cluster, file.size)
                                                  - (file.position - answer.nread))

LEMMA ReadInvIs == ReadInv => ReadsFile
BY DEF ReadInv, ReadsFile, WholeOf, ChainOf, CB, BPB, Done

LEMMA ReadInit == Init => ReadInv
BY DEF Init, ReadInv

(* A step that leaves the file alone and reports no read.                  *)
LEMMA ReadStays ==
  ASSUME ReadInv, name' = name, fs' = fs, file' = file, got' = got, Done' => Done /\ answer' = answer
  PROVE  ReadInv'
<1>1. /\ \A c, n : At(c, n)' = At(c, n) /\ Pieces(c, n)' = Pieces(c, n)
                   /\ ChainOf(c, n)' = ChainOf(c, n)
      /\ \A clusters : Safe(clusters)' = Safe(clusters)
      /\ CB' = CB
  BY SameVolume
<1>2. \A c, n : WholeOf(c, n)' = WholeOf(c, n)
  BY <1>1 DEF WholeOf
<1> SUFFICES ASSUME (file # None /\ Safe(ToSet(ChainOf(file.cluster, file.size))))'
    PROVE  /\ (file.position <= WholeOf(file.cluster, file.size))'
           /\ (got = Pieces(file.cluster, file.position))'
           /\ (file.pos = At(file.cluster, file.position))'
           /\ (Done => answer.nread = Least(answer.asked, WholeOf(file.cluster, file.size)
                                                  - (file.position - answer.nread)))'
  BY DEF ReadInv
<1>3. file # None /\ Safe(ToSet(ChainOf(file.cluster, file.size)))
  BY <1>1
<1>4. (file.position <= WholeOf(file.cluster, file.size))'
  BY <1>2, <1>3 DEF ReadInv
<1>5. (got = Pieces(file.cluster, file.position))'
  BY <1>1, <1>3 DEF ReadInv
<1>6. (file.pos = At(file.cluster, file.position))'
  BY <1>1, <1>3 DEF ReadInv
<1>7. (Done => answer.nread = Least(answer.asked, WholeOf(file.cluster, file.size)
                                                  - (file.position - answer.nread)))'
  BY <1>2, <1>3 DEF ReadInv
<1> QED
  BY <1>4, <1>5, <1>6, <1>7

LEMMA ReadOthers ==
  ASSUME FatTypes, ReadInv,
         \/ Mount \/ (\E path \in Paths : Start("open", path) \/ Start("opendir", path))
         \/ (\E n \in Sizes : Read(n)) \/ ReadDir \/ Close \/ CloseDir
         \/ Search \/ OpenDir \/ ReadDirTurn \/ DeviceFails \/ UNCHANGED vars
  PROVE  ReadInv'
<1>1. CASE Mount
  <2>1. file' = None
    BY <1>1 DEF Mount, FatTypes
  <2> QED
    BY <2>1 DEF ReadInv
<1>2. CASE Close
  <2>1. file' = None
    BY <1>2 DEF Close
  <2> QED
    BY <2>1 DEF ReadInv
<1>3. ASSUME NEW path \in Paths, Start("open", path) \/ Start("opendir", path)
      PROVE  ReadInv'
  <2>1. name' = name /\ fs' = fs /\ file' = file /\ got' = got
        /\ call' \in {[op |-> "open", path |-> path, k |-> 1, it |-> AtRoot],
                      [op |-> "opendir", path |-> path, k |-> 1, it |-> AtRoot]}
    BY <1>3 DEF Start
  <2>2. call'.op # "idle"
    BY <2>1
  <2>3. ~Done'
    BY <2>2 DEF Done, Idle
  <2> QED
    BY <2>1, <2>3, ReadStays
<1>4. ASSUME NEW n \in Sizes, Read(n) PROVE ReadInv'
  <2>1. name' = name /\ fs' = fs /\ file' = file /\ got' = got
        /\ call' = [op |-> "read", asked |-> n, left |-> n]
    BY <1>4 DEF Read
  <2>2. ~Done'
    BY <2>1 DEF Done, Idle
  <2> QED
    BY <2>1, <2>2, ReadStays
<1>5. CASE ReadDir
  <2>1. name' = name /\ fs' = fs /\ file' = file /\ got' = got /\ call'.op = "readdir"
    BY <1>5 DEF ReadDir
  <2>2. ~Done'
    BY <2>1 DEF Done, Idle
  <2> QED
    BY <2>1, <2>2, ReadStays
<1>6. CASE CloseDir
  <2>1. name' = name /\ fs' = fs /\ file' = file /\ got' = got /\ answer'.op = "idle"
    BY <1>6 DEF CloseDir, Idle
  <2>2. ~Done'
    BY <2>1 DEF Done
  <2> QED
    BY <2>1, <2>2, ReadStays
<1>7. CASE Search
  <2>1. name' = name /\ fs' = fs /\ file' = file /\ got' = got /\ call.op \in {"open", "opendir"}
    BY <1>7 DEF Search, Searching
  <2>2. \/ answer'.op = call.op
        \/ call'.op \in {"open", "opendir"}
    <3>1. call \in Searches(vol)
      BY <2>1 DEF FatTypes
    <3> DEFINE t == NextTurn(call.it)
               back == Reset(t.it, t.it.entry)
    <3>2. \A it : [call EXCEPT !.k = @ + 1, !.it = it].op = call.op /\ [call EXCEPT !.it = it].op = call.op
      BY <3>1 DEF Searches
    <3>3. \/ answer'.op = call.op
          \/ call' = [call EXCEPT !.k = @ + 1, !.it = back]
          \/ call' = [call EXCEPT !.k = @ + 1, !.it = t.it]
          \/ call' = [call EXCEPT !.it = t.it]
      BY <1>7, SearchIs DEF Went
    <3> HIDE DEF t, back
    <3>4. CASE call' = [call EXCEPT !.k = @ + 1, !.it = back]
      BY <2>1, <3>2, <3>4
    <3>5. CASE call' = [call EXCEPT !.k = @ + 1, !.it = t.it]
      BY <2>1, <3>2, <3>5
    <3>6. CASE call' = [call EXCEPT !.it = t.it]
      BY <2>1, <3>2, <3>6
    <3> QED
      BY <3>3, <3>4, <3>5, <3>6
  <2>3. ~Done'
    BY <2>1, <2>2 DEF Done, Idle
  <2> QED
    BY <2>1, <2>3, ReadStays
<1>8. CASE OpenDir
  <2>1. name' = name /\ fs' = fs /\ file' = file /\ got' = got /\ answer'.op = "opendir"
    BY <1>8 DEF OpenDir, Refuse, Return
  <2>2. ~Done'
    BY <2>1 DEF Done
  <2> QED
    BY <2>1, <2>2, ReadStays
<1>9. CASE ReadDirTurn
  <2>1. name' = name /\ fs' = fs /\ file' = file /\ got' = got
        /\ (answer'.op = "readdir" \/ (call' = call /\ call.op = "readdir"))
    BY <1>9 DEF ReadDirTurn, Listed, Return
  <2>2. ~Done'
    BY <2>1 DEF Done, Idle
  <2> QED
    BY <2>1, <2>2, ReadStays
<1>10. CASE DeviceFails
  <2>1. name' = name /\ fs' = fs /\ file' = file /\ got' = got /\ answer'.error = "IO"
    BY <1>10 DEF DeviceFails, Refuse, Returned, Listed, Return
  <2>2. ~Done'
    BY <2>1 DEF Done
  <2> QED
    BY <2>1, <2>2, ReadStays
<1>11. CASE UNCHANGED vars
  <2>1. name' = name /\ fs' = fs /\ file' = file /\ got' = got /\ call' = call /\ answer' = answer
    BY <1>11 DEF vars
  <2>2. Done' => Done
    BY <2>1 DEF Done
  <2> QED
    BY <2>1, <2>2, ReadStays
<1> QED
  BY <1>1, <1>2, <1>3, <1>4, <1>5, <1>6, <1>7, <1>8, <1>9, <1>10, <1>11

LEMMA ReadOpen == FatTypes /\ ReadInv /\ Open => ReadInv'
<1> SUFFICES ASSUME FatTypes, ReadInv, Open PROVE ReadInv'
  OBVIOUS
<1>1. name' = name /\ fs' = fs /\ fs # None /\ answer'.op = "open" /\ call.op = "open"
  BY DEF Open, Refuse, Return, FatTypes
<1>2. ~Done'
  BY <1>1 DEF Done
<1>3. CASE file' = file /\ got' = got
  BY <1>1, <1>2, <1>3, ReadStays
<1>4. CASE /\ file' = [size |-> Target.size, position |-> 0, cluster |-> Target.cluster,
                       pos |-> Target.cluster]
           /\ got' = <<>>
  <2> DEFINE c == Target.cluster
             s == Target.size
  <2>1. Mounted /\ Meant /\ OnVolume
    BY <1>1, Driver DEF FatTypes
  <2>2. c \in Nat /\ s \in Nat
    <3>1. Target \in FatEntries(vol)
      BY <1>1 DEF FatTypes, Target, Searches, Iter
    <3> HIDE DEF Target
    <3> QED
      BY <2>1, <3>1, EntriesAre
  <2>3. file'.cluster = c /\ file'.size = s /\ file'.position = 0 /\ file'.pos = c
    BY <1>4
  <2> HIDE DEF c, s
  <2>4. CB \in Nat \ {0}
    BY <2>1, Clusters
  <2>5. 0 \div CB = 0 /\ 0 % CB = 0
    <3>1. 0 \in 0..(CB - 1) /\ (0 * CB + 0) \div CB = 0 /\ (0 * CB + 0) % CB = 0
      BY <2>4, DivUnique
    <3> QED
      BY <2>4, <3>1
  <2>6. At(c, 0) = c
    BY <2>1, <2>2, <2>5, FollowIs DEF At
  <2>7. Pieces(c, 0) = <<>>
    <3>1. Whole(c)[0] = <<>>
      BY <2>1, <2>2, WholeIs
    <3> QED
      BY <2>5, <3>1 DEF Pieces, CB, BPB
  <2>8. 0 <= WholeOf(c, s)
    <3> DEFINE l == Len(ChainOf(c, s))
               z == CeilDiv(s, CB)
    <3>1. z \in Nat
      BY <2>2, <2>4, CeilIs
    <3>2. l \in Nat
      <4> HIDE DEF z
      <4>1. Len(Chain(c, z)) \in 0..z
        BY <2>1, <2>2, <3>1, ChainIs
      <4>2. l = Len(Chain(c, z))
        BY DEF ChainOf, z
      <4> QED
        BY <3>1, <4>1, <4>2
    <3> HIDE DEF l
    <3>3. CB * l \in Nat
      BY <2>4, <3>2
    <3> QED
      BY <2>2, <3>3 DEF WholeOf, Least, l
  <2>9. /\ \A x, n : At(x, n)' = At(x, n) /\ Pieces(x, n)' = Pieces(x, n)
                     /\ ChainOf(x, n)' = ChainOf(x, n)
        /\ CB' = CB
    BY <1>1, SameVolume
  <2>10. \A x, n : WholeOf(x, n)' = WholeOf(x, n)
    BY <2>9 DEF WholeOf
  <2>11. (file.position <= WholeOf(file.cluster, file.size))'
    BY <2>3, <2>8, <2>10
  <2>12. (got = Pieces(file.cluster, file.position))'
    BY <1>4, <2>3, <2>7, <2>9
  <2>13. (file.pos = At(file.cluster, file.position))'
    BY <2>3, <2>6, <2>9
  <2> QED
    BY <1>2, <2>11, <2>12, <2>13 DEF ReadInv
<1> QED
  BY <1>3, <1>4 DEF Open

(* What a step of a read may do.                                           *)
RunHere == Run(file.pos, InCluster, Least(file.size - file.position, call.left))
Ends == ReadDone /\ Returned("NONE") /\ UNCHANGED <<file, got>>
Errs == Returned("IO") /\ UNCHANGED <<file, got>>
Goes ==
  /\ ~ReadDone /\ InDevice(FileOffset, RunHere.read)
  /\ file' = FileAfter(RunHere)
  /\ got' = Extend(got, FileOffset, RunHere.read)
  /\ call' = [call EXCEPT !.left = @ - RunHere.read]
  /\ UNCHANGED answer

LEMMA ReadRunIs == ReadRun => (Ends \/ Errs \/ Goes) /\ name' = name /\ fs' = fs /\ call.op = "read"
<1> SUFFICES ASSUME ReadRun PROVE (Ends \/ Errs \/ Goes) /\ name' = name /\ fs' = fs /\ call.op = "read"
  OBVIOUS
<1>1. name' = name /\ fs' = fs /\ call.op = "read"
  BY DEF ReadRun
<1>2. CASE ReadDone /\ Returned("NONE") /\ UNCHANGED <<file, got>>
  BY <1>1, <1>2 DEF Ends
<1>3. CASE ~ReadDone
  <2>1. PICK r \in {RunHere} :
             \/ /\ InDevice(FileOffset, r.read)
                /\ file' = FileAfter(r)
                /\ got' = Extend(got, FileOffset, r.read)
                /\ call' = [call EXCEPT !.left = @ - r.read]
                /\ UNCHANGED answer
             \/ ~InDevice(FileOffset, r.read) /\ Returned("IO") /\ UNCHANGED <<file, got>>
    BY <1>3 DEF ReadRun, RunHere
  <2>2. r = RunHere
    OBVIOUS
  <2> HIDE DEF RunHere
  <2> QED
    BY <1>1, <1>3, <2>1, <2>2 DEF Errs, Goes
<1> QED
  BY <1>1, <1>2, <1>3 DEF ReadRun

(* The file a read works on.                                               *)
LEMMA ReadingIs ==
  ASSUME FatTypes, call.op = "read"
  PROVE  /\ Mounted /\ Meant /\ CB \in Nat \ {0} /\ ClusterSize = CB /\ Limit = EndMark
         /\ EndMark \in Nat
         /\ file # None /\ file.size \in Nat /\ file.position \in Nat
         /\ file.cluster \in Nat /\ file.pos \in Nat
         /\ call.asked \in Nat /\ call.left \in Nat /\ call.left <= call.asked
         /\ file \in FileType
         /\ call \in [op : {"read"}, asked : Nat, left : Nat]
<1>1. file # None /\ fs # None /\ Mounted
  BY DEF FatTypes
<1>2. Meant /\ ClusterSize = CB /\ Limit = EndMark /\ Type \in {12, 16, 32}
  BY <1>1, Driver
<1>3. CB \in Nat \ {0}
  BY <1>2, Clusters
<1>4. EndMark \in Nat
  BY <1>2 DEF EndMark, EndOf
<1> QED
  BY <1>1, <1>2, <1>3, <1>4 DEF FatTypes, FileType

(* A run from a file that is not done.                                     *)
LEMMA HereIs ==
  ASSUME FatTypes, call.op = "read", ~ReadDone
  PROVE  /\ RunHere.read \in Nat \ {0} /\ RunHere.next \in Nat
         /\ RunHere.read <= call.left /\ file.position + RunHere.read <= file.size
<1> DEFINE c == file.pos
           o == InCluster
           max == Least(file.size - file.position, call.left)
           r == Run(c, o, max)
<1>1. /\ Mounted /\ Meant /\ CB \in Nat \ {0} /\ ClusterSize = CB
      /\ file.size \in Nat /\ file.position \in Nat /\ c \in Nat /\ call.left \in Nat
  BY ReadingIs
<1>2. o \in Nat /\ o < CB
  <2>1. file.position % CB \in 0..(CB - 1)
    BY <1>1, DivMod
  <2>2. o = file.position % CB
    BY <1>1 DEF InCluster
  <2> HIDE DEF o
  <2> QED
    BY <1>1, <2>1, <2>2
<1>3. max \in Nat \ {0} /\ max <= call.left /\ file.position + max <= file.size
  <2>1. file.position < file.size /\ call.left # 0
    BY <1>1 DEF ReadDone
  <2> QED
    BY <1>1, <2>1 DEF Least
<1> HIDE DEF c, o, max
<1>4. PICK k \in Nat \ {0} : RunOf(c, o, max, k, r)
  BY <1>1, <1>2, <1>3, RunIs
<1>5. r.read \in Nat \ {0} /\ r.read <= max
      /\ (r.next = NextCluster(c + k - 1) \/ r.next = c + k - 1)
  <2> HIDE DEF r
  <2> QED
    BY <1>4 DEF RunOf
<1>6. RunHere = r
  BY DEF RunHere, r, c, o, max
<1> HIDE DEF r
<1>7. r.next \in Nat
  <2>1. c + k - 1 \in Nat
    BY <1>1
  <2>2. NextCluster(c + k - 1) \in Nat
    BY <1>1, <2>1, NextNat
  <2> QED
    BY <1>5, <2>1, <2>2
<1>8. r.read <= call.left /\ file.position + r.read <= file.size
  BY <1>1, <1>3, <1>5
<1> QED
  BY <1>5, <1>6, <1>7, <1>8

LEMMA FatReadRun == FatTypes /\ ReadRun => FatTypes'
<1> SUFFICES ASSUME FatTypes, ReadRun PROVE FatTypes'
  OBVIOUS
<1>1. (Ends \/ Errs \/ Goes) /\ name' = name /\ fs' = fs /\ call.op = "read"
  BY ReadRunIs
<1>2. vol' = vol /\ OnVolume' = OnVolume /\ Mounted' = Mounted /\ fs # None
  BY <1>1, Stays DEF FatTypes
<1>3. CASE Ends \/ Errs
  <2>1. file' = file /\ call'.op = "idle"
    BY <1>3 DEF Ends, Errs, Returned, Return, Idle
  <2> QED
    BY <1>1, <1>2, <2>1 DEF FatTypes
<1>4. CASE Goes
  <2> DEFINE r == RunHere
  <2>1. r.read \in Nat \ {0} /\ r.next \in Nat /\ r.read <= call.left
    BY <1>1, <1>4, HereIs DEF Goes
  <2>2. file' = [file EXCEPT !.position = @ + r.read, !.pos = r.next]
        /\ call' = [call EXCEPT !.left = @ - r.read]
    BY <1>4 DEF Goes, FileAfter
  <2> HIDE DEF r
  <2>3. /\ file # None /\ file \in FileType
        /\ call \in [op : {"read"}, asked : Nat, left : Nat] /\ call.left <= call.asked
    BY <1>1, ReadingIs
  <2>4. file.position + r.read \in Nat /\ call.left - r.read \in Nat /\ call.left - r.read <= call.asked
    <3>1. file.position \in Nat /\ call.left \in Nat /\ call.asked \in Nat
      BY <1>1, ReadingIs
    <3> QED
      BY <2>1, <2>3, <3>1
  <2>5. file' \in FileType
    BY <2>1, <2>2, <2>3, <2>4 DEF FileType
  <2>6. call' \in [op : {"read"}, asked : Nat, left : Nat] /\ call'.left <= call'.asked
    BY <2>2, <2>3, <2>4
  <2>7. call'.op = "read"
    BY <2>6
  <2>8. file' # None
    BY <2>5, NoneAssumption
  <2> QED
    BY <1>1, <1>2, <2>5, <2>6, <2>7, <2>8 DEF FatTypes
<1> QED
  BY <1>1, <1>3, <1>4

LEMMA ReadReadRun == FatTypes /\ ReadInv /\ ReadRun => ReadInv'
<1> SUFFICES ASSUME FatTypes, ReadInv, ReadRun PROVE ReadInv'
  OBVIOUS
<1>1. (Ends \/ Errs \/ Goes) /\ name' = name /\ fs' = fs /\ call.op = "read"
  BY ReadRunIs
<1>2. /\ Mounted /\ Meant /\ CB \in Nat \ {0} /\ ClusterSize = CB /\ Limit = EndMark
      /\ EndMark \in Nat
      /\ file # None /\ file.size \in Nat /\ file.position \in Nat
      /\ file.cluster \in Nat /\ file.pos \in Nat
      /\ call.asked \in Nat /\ call.left \in Nat /\ call.left <= call.asked
  BY <1>1, ReadingIs
<1>3. file \in FileType /\ call \in [op : {"read"}, asked : Nat, left : Nat]
  BY <1>1, ReadingIs
<1> DEFINE c == file.cluster
           s == file.size
           n == file.position
           w == WholeOf(c, s)
<1>4. /\ \A x, y : /\ At(x, y)' = At(x, y) /\ Pieces(x, y)' = Pieces(x, y)
                   /\ ChainOf(x, y)' = ChainOf(x, y)
      /\ \A clusters : Safe(clusters)' = Safe(clusters)
      /\ CB' = CB
  BY <1>1, SameVolume
<1>5. \A x, y : WholeOf(x, y)' = WholeOf(x, y)
  BY <1>4 DEF WholeOf
<1>6. c \in Nat /\ s \in Nat /\ n \in Nat
  BY <1>2
<1>7. CASE Errs
  <2>1. file' = file /\ got' = got /\ answer'.error = "IO"
    BY <1>7 DEF Errs, Returned, Return
  <2>2. ~Done'
    BY <2>1 DEF Done
  <2> QED
    BY <1>1, <2>1, <2>2, ReadStays
<1>8. ASSUME Safe(ToSet(ChainOf(c, s)))
      PROVE  /\ SafeChain(c, s) /\ n <= w /\ got = Pieces(c, n) /\ file.pos = At(c, n)
             /\ w \in Nat /\ w <= CB * Len(ChainOf(c, s))
  <2>1. n <= w /\ got = Pieces(c, n) /\ file.pos = At(c, n)
    BY <1>2, <1>8 DEF ReadInv
  <2> HIDE DEF c, s, n, w
  <2>2. SafeChain(c, s)
    BY <1>2, <1>6, <1>8, SafeChainIs
  <2> DEFINE l == Len(ChainOf(c, s))
  <2>3. l \in Nat
    <3>1. l \in 0..CeilDiv(s, CB) /\ CeilDiv(s, CB) \in Nat
      BY <1>2, <1>6, <2>2, CeilIs DEF SafeChain
    <3> QED
      BY <3>1
  <2> HIDE DEF l
  <2>4. CB * l \in Nat
    BY <1>2, <2>3
  <2>5. w \in Nat /\ w <= CB * l
    BY <1>6, <2>4 DEF w, WholeOf, Least, l
  <2> QED
    BY <2>1, <2>2, <2>5 DEF l
<1>9. CASE Ends
  <2>1. file' = file /\ got' = got /\ ReadDone
        /\ answer' = [op |-> "read", error |-> "NONE", asked |-> call.asked,
                      nread |-> call.asked - call.left]
    BY <1>9 DEF Ends, Returned, Return
  <2> SUFFICES ASSUME Safe(ToSet(ChainOf(file.cluster, file.size)))'
      PROVE  /\ (file.position <= WholeOf(file.cluster, file.size))'
             /\ (got = Pieces(file.cluster, file.position))'
             /\ (file.pos = At(file.cluster, file.position))'
             /\ (Done => answer.nread = Least(answer.asked, WholeOf(file.cluster, file.size)
                                                            - (file.position - answer.nread)))'
    BY DEF ReadInv
  <2>2. Safe(ToSet(ChainOf(c, s)))
    BY <1>4, <2>1
  <2>3. /\ SafeChain(c, s) /\ n <= w /\ got = Pieces(c, n) /\ file.pos = At(c, n) /\ w \in Nat
    BY <1>8, <2>2
  <2> DEFINE m == call.asked - call.left
  <2>4. call.left = 0 \/ n = w
    <3>1. call.left = 0 \/ n >= s \/ At(c, n) >= EndMark
      BY <1>2, <2>1, <2>3 DEF ReadDone
    <3> HIDE DEF c, s, n, w
    <3>2. CASE n >= s \/ At(c, n) >= EndMark
      BY <1>6, <2>3, <3>2, AllRead DEF w, WholeOf
    <3> QED
      BY <3>1, <3>2
  <2>5. m = Least(call.asked, w - (n - m))
    <3> HIDE DEF n, w
    <3> QED
      BY <1>2, <1>6, <2>3, <2>4 DEF Least
  <2>6. answer'.nread = m /\ answer'.asked = call.asked
    BY <2>1
  <2>7. (file.position <= WholeOf(file.cluster, file.size))'
    BY <1>5, <2>1, <2>3
  <2>8. (got = Pieces(file.cluster, file.position))'
    BY <1>4, <2>1, <2>3
  <2>9. (file.pos = At(file.cluster, file.position))'
    BY <1>4, <2>1, <2>3
  <2>10. (answer.nread = Least(answer.asked, WholeOf(file.cluster, file.size)
                                             - (file.position - answer.nread)))'
    <3> HIDE DEF m
    <3> QED
      BY <1>5, <2>1, <2>5, <2>6
  <2> QED
    BY <2>7, <2>8, <2>9, <2>10
<1>10. CASE Goes
  <2> DEFINE r == RunHere
  <2>1. ~ReadDone /\ InDevice(FileOffset, r.read) /\ got' = Extend(got, FileOffset, r.read)
        /\ file' = [file EXCEPT !.position = @ + r.read, !.pos = r.next]
        /\ call' = [call EXCEPT !.left = @ - r.read]
    BY <1>10 DEF Goes, FileAfter
  <2>2. ~Done'
    <3> HIDE DEF r
    <3>1. call'.op = "read"
      BY <1>3, <2>1
    <3> QED
      BY <3>1 DEF Done, Idle
  <2>3. file'.cluster = c /\ file'.size = s /\ file'.position = n + r.read /\ file'.pos = r.next
    <3> HIDE DEF r
    <3> QED
      BY <1>3, <2>1 DEF FileType
  <2> SUFFICES ASSUME Safe(ToSet(ChainOf(file.cluster, file.size)))'
      PROVE  /\ (file.position <= WholeOf(file.cluster, file.size))'
             /\ (got = Pieces(file.cluster, file.position))'
             /\ (file.pos = At(file.cluster, file.position))'
    BY <2>2 DEF ReadInv
  <2>4. Safe(ToSet(ChainOf(c, s)))
    BY <1>4, <2>3
  <2>5. /\ SafeChain(c, s) /\ n <= w /\ got = Pieces(c, n) /\ file.pos = At(c, n)
        /\ w <= CB * Len(ChainOf(c, s)) /\ w \in Nat
    BY <1>8, <2>4
  <2> DEFINE max == Least(s - n, call.left)
             o == n % CB
  <2>6. max \in Nat \ {0} /\ n + max <= s /\ file.pos < EndMark
    <3>1. ~(call.left = 0) /\ ~(n >= s) /\ ~(file.pos >= EndMark)
      BY <1>2, <2>1 DEF ReadDone
    <3> HIDE DEF n, s
    <3> QED
      BY <1>2, <1>6, <3>1 DEF Least
  <2>7. r = Run(At(c, n), o, max) /\ FileOffset = ClusterOffset(At(c, n)) + o
    <3>1. InCluster = o
      BY <1>2 DEF InCluster
    <3> QED
      BY <2>5, <3>1 DEF RunHere, FileOffset
  <2> HIDE DEF r, c, s, n, w, max
  <2>8. n <= CB * Len(ChainOf(c, s))
    <3> DEFINE b == CB * Len(ChainOf(c, s))
    <3>1. b \in Nat
      <4> DEFINE l == Len(ChainOf(c, s))
      <4>1. l \in Nat
        <5>1. l \in 0..CeilDiv(s, CB) /\ CeilDiv(s, CB) \in Nat
          BY <1>2, <1>6, <2>5, CeilIs DEF SafeChain
        <5> QED
          BY <5>1
      <4> HIDE DEF l
      <4>2. CB * l \in Nat
        BY <1>2, <4>1
      <4> QED
        BY <4>2 DEF l
    <3>2. n <= w /\ w <= b
      BY <2>5
    <3> HIDE DEF b
    <3>3. n <= b
      BY <1>6, <2>5, <3>1, <3>2
    <3> QED
      BY <3>3 DEF b
  <2>9. At(c, n) < EndMark
    BY <2>5, <2>6
  <2>10. InDevice(ClusterOffset(At(c, n)) + o, Run(At(c, n), o, max).read)
    BY <2>1, <2>7
  <2>11. Advances(c, s, n, max, Run(At(c, n), n % CB, max))
    BY <1>6, <2>5, <2>6, <2>8, <2>9, <2>10, RunAdvances
  <2>12. Advances(c, s, n, max, r)
    BY <2>7, <2>11
  <2>13. /\ n + r.read <= w
         /\ Extend(Pieces(c, n), ClusterOffset(At(c, n)) + (n % CB), r.read) = Pieces(c, n + r.read)
         /\ r.next = At(c, n + r.read)
    BY <2>12 DEF Advances, w, WholeOf
  <2>14. (file.position <= WholeOf(file.cluster, file.size))'
    BY <1>5, <2>3, <2>13 DEF w
  <2>15. (got = Pieces(file.cluster, file.position))'
    BY <1>4, <2>1, <2>3, <2>5, <2>7, <2>13
  <2>16. (file.pos = At(file.cluster, file.position))'
    BY <1>4, <2>3, <2>13
  <2> QED
    BY <2>14, <2>15, <2>16
<1> QED
  BY <1>1, <1>7, <1>9, <1>10

(* Every step keeps the types.                                             *)
LEMMA FatKeeps == FatTypes /\ [Next]_vars => FatTypes'
<1> SUFFICES ASSUME FatTypes, [Next]_vars PROVE FatTypes'
  OBVIOUS
<1>1. CASE Open
  BY <1>1, FatOpen
<1>2. CASE ReadRun
  BY <1>2, FatReadRun
<1>3. CASE Search
  BY <1>3, FatSearch
<1>4. CASE Mount
  BY <1>4, FatMount
<1>5. CASE \E path \in Paths : Start("open", path) \/ Start("opendir", path)
  BY <1>5, FatStart1
<1>6. CASE \E n \in Sizes : Read(n)
  BY <1>6, FatRead
<1>7. CASE ReadDir \/ Close \/ CloseDir \/ OpenDir \/ ReadDirTurn \/ DeviceFails \/ UNCHANGED vars
  BY <1>7, FatOthers
<1> QED
  BY <1>1, <1>2, <1>3, <1>4, <1>5, <1>6, <1>7 DEF Next, Step

(* However a file is cut into reads, on whatever volume, they return its   *)
(* bytes one after the other, to the end of the file or of its chain.      *)
THEOREM FilesAreRead == Spec => []ReadsFile
<1>1. Init => FatTypes /\ ReadInv
  BY FatInit, ReadInit
<1>2. FatTypes /\ ReadInv /\ [Next]_vars => (FatTypes /\ ReadInv)'
  <2> SUFFICES ASSUME FatTypes, ReadInv, [Next]_vars PROVE FatTypes' /\ ReadInv'
    OBVIOUS
  <2>1. FatTypes'
    BY FatKeeps
  <2>2. CASE Open
    BY <2>1, <2>2, ReadOpen
  <2>3. CASE ReadRun
    BY <2>1, <2>3, ReadReadRun
  <2>4. CASE ~Open /\ ~ReadRun
    BY <2>1, <2>4, ReadOthers DEF Next, Step
  <2> QED
    BY <2>2, <2>3, <2>4
<1>3. FatTypes /\ ReadInv => ReadsFile
  BY ReadInvIs
<1> QED
  BY <1>1, <1>2, <1>3, PTL DEF Spec
----------------------------------------------------------------------------
(* Names.                                                                  *)

LEMMA MaxIs ==
  ASSUME NEW S, NEW m \in S, S \subseteq Nat, \A k \in S : k <= m
  PROVE  Max(S) = m
<1>1. m \in S /\ \A y \in S : m >= y
  OBVIOUS
<1>2. \A x : x \in S /\ (\A y \in S : x >= y) => x = m
  <2> SUFFICES ASSUME NEW x, x \in S, \A y \in S : x >= y PROVE x = m
    OBVIOUS
  <2>1. x \in Nat /\ m \in Nat /\ x >= m /\ m >= x
    BY <1>1
  <2> QED
    BY <2>1
<1> QED
  BY <1>1, <1>2 DEF Max

(* A finite set of numbers with a bound has a greatest element.            *)
LEMMA Greatest ==
  ASSUME NEW n \in Nat, NEW S, S \subseteq 0..n, S # {}
  PROVE  \E m \in S : \A k \in S : k <= m
<1> DEFINE T == {n - k : k \in S}
<1>1. T \in SUBSET Nat /\ T # {}
  <2>1. \A k \in S : n - k \in Nat
    OBVIOUS
  <2>2. PICK k \in S : TRUE
    OBVIOUS
  <2>3. n - k \in T
    BY <2>2
  <2> QED
    BY <2>1, <2>3
<1>2. PICK t \in T : \A u \in T : t <= u
  <2> HIDE DEF T
  <2> QED
    BY <1>1, LeastElement
<1>3. PICK m \in S : t = n - m
  BY <1>2
<1>4. \A k \in S : k <= m
  <2> TAKE k \in S
  <2>1. n - k \in T /\ k \in 0..n /\ m \in 0..n
    OBVIOUS
  <2>2. t <= n - k
    <3> HIDE DEF T
    <3> QED
      BY <1>2, <2>1
  <2> QED
    BY <1>3, <2>1, <2>2
<1> QED
  BY <1>4

(* What is left of a name of n characters without the spaces behind it.    *)
LEMMA TrimIs ==
  ASSUME NEW n \in Nat \ {0}, NEW s \in [1..n -> STRING]
  PROVE  /\ Trim(s) \in Seq(STRING) /\ Len(Trim(s)) \in 0..n
         /\ \A i \in 1..Len(Trim(s)) : Trim(s)[i] = s[i]
         /\ s[1] # Space => Len(Trim(s)) > 0
<1> DEFINE S == {0} \cup {i \in DOMAIN s : s[i] # Space}
<1>1. S \subseteq 0..n /\ 0 \in S /\ (s[1] # Space => 1 \in S)
  OBVIOUS
<1>2. PICK m \in S : \A k \in S : k <= m
  <2> HIDE DEF S
  <2> QED
    BY <1>1, Greatest
<1>3. m \in 0..n /\ (s[1] # Space => 1 <= m)
  <2> HIDE DEF S
  <2> QED
    BY <1>1, <1>2
<1>4. Max(S) = m
  <2>1. S \subseteq Nat
    BY <1>1
  <2> HIDE DEF S
  <2> QED
    BY <1>2, <2>1, MaxIs
<1>5. Trim(s) = SubSeq(s, 1, m)
  BY <1>4 DEF Trim
<1>6. s \in Seq(STRING) /\ Len(s) = n
  OBVIOUS
<1>7. CASE m = 0
  <2>1. SubSeq(s, 1, 0) = <<>>
    BY <1>6, SubSeqProperties
  <2> QED
    BY <1>3, <1>5, <1>7, <2>1
<1>8. CASE m # 0
  <2>1. m \in 1..n /\ 1 \in 1..n + 1 /\ 1 <= m
    BY <1>3, <1>8
  <2>2. \A i \in 1..m : s[i] \in STRING
    BY <2>1
  <2>3. /\ SubSeq(s, 1, m) \in Seq(STRING) /\ Len(SubSeq(s, 1, m)) = m - 1 + 1
        /\ \A i \in 1..(m - 1 + 1) : SubSeq(s, 1, m)[i] = s[1 + i - 1]
    BY <2>1, <2>2, SubSeqProperties
  <2>4. m - 1 + 1 = m /\ \A i \in 1..m : 1 + i - 1 = i
    BY <2>1
  <2> QED
    BY <1>3, <1>5, <2>1, <2>3, <2>4
<1> QED
  BY <1>7, <1>8

(* The characters of names, and those that First and AllocSFN put there.   *)
Signs == STRING \cup {"E5", "."}

(* The two parts of the name of an entry, and how a text is like them.     *)
Base(e) == First(Trim(e.base))
Ext(e) == Trim(e.ext)

LEMMA ShortIs ==
  ASSUME NEW e, ShortName(e)
  PROVE  /\ Base(e) \in Seq(Signs) /\ Len(Base(e)) >= 1 /\ Len(Base(e)) <= 8
         /\ Ext(e) \in Seq(Signs) /\ Len(Ext(e)) <= 3
<1> DEFINE t == Trim(e.base)
<1>1. e.base \in [1..8 -> STRING] /\ e.ext \in [1..3 -> STRING] /\ e.base[1] # Space
  BY DEF ShortName
<1>2. t \in Seq(Signs) /\ Len(t) \in Nat /\ Len(t) >= 1 /\ Len(t) <= 8
  <2> DEFINE n == 8  s == e.base
  <2>1. n \in Nat \ {0} /\ s \in [1..n -> STRING] /\ s[1] # Space
    BY <1>1
  <2> HIDE DEF n, s
  <2>2. Trim(s) \in Seq(STRING) /\ Len(Trim(s)) \in 0..n /\ Len(Trim(s)) > 0
    BY <2>1, TrimIs
  <2>3. Trim(s) \in Seq(Signs)
    BY <2>2 DEF Signs
  <2>4. Len(Trim(s)) \in Nat /\ Len(Trim(s)) >= 1 /\ Len(Trim(s)) <= n
    BY <2>1, <2>2
  <2> QED
    BY <2>3, <2>4 DEF n, s
<1>3. Ext(e) \in Seq(Signs) /\ Len(Ext(e)) <= 3
  <2> DEFINE n == 3  s == e.ext
  <2>1. n \in Nat \ {0} /\ s \in [1..n -> STRING]
    BY <1>1
  <2> HIDE DEF n, s
  <2>2. Trim(s) \in Seq(STRING) /\ Len(Trim(s)) \in 0..n
    BY <2>1, TrimIs
  <2>3. Trim(s) \in Seq(Signs) /\ Len(Trim(s)) <= n
    BY <2>1, <2>2 DEF Signs
  <2> QED
    BY <2>3 DEF n, s, Ext
<1> HIDE DEF t
<1>4. First(t) \in Seq(Signs) /\ Len(First(t)) = Len(t)
  <2>1. [t EXCEPT ![1] = "E5"] \in Seq(Signs) /\ Len([t EXCEPT ![1] = "E5"]) = Len(t)
    <3>1. 1 \in 1..Len(t)
      BY <1>2
    <3>2. "E5" \in Signs
      BY DEF Signs
    <3> QED
      BY <1>2, <3>1, <3>2, ExceptSeq
  <2> QED
    BY <1>2, <2>1 DEF First
<1> QED
  BY <1>2, <1>3, <1>4 DEF Base, t

Like(w, b, x) ==
  /\ Len(w) >= Len(b) /\ \A i \in 1..Len(b) : Conv(w[i]) = Conv(b[i])
  /\ \/ x = <<>> /\ Len(w) = Len(b)
     \/ x = <<>> /\ Len(w) = Len(b) + 1 /\ w[Len(b) + 1] = "."
     \/ /\ x # <<>> /\ Len(w) = Len(b) + 1 + Len(x) /\ w[Len(b) + 1] = "."
        /\ \A j \in 1..Len(x) : Conv(w[Len(b) + 1 + j]) = Conv(x[j])

LEMMA Dot == \A ch : Conv(ch) = Conv(".") <=> ch = "."
BY DEF Conv, Upcase

LEMMA SameIs ==
  ASSUME NEW s \in Seq(Signs), NEW t \in Seq(Signs)
  PROVE  SameText(s, t) <=> Len(s) = Len(t) /\ \A i \in 1..Len(t) : Conv(s[i]) = Conv(t[i])
<1>1. DOMAIN s = 1..Len(s)
  BY LenProperties
<1> QED
  BY <1>1 DEF SameText

LEMMA CmpIs ==
  ASSUME NEW e, ShortName(e), e.base[1] \notin {END, FREE}, NEW w \in Seq(Signs)
  PROVE  FilenameCmp(w, e) <=> Like(w, Base(e), Ext(e))
<1> DEFINE b == Base(e)
           x == Ext(e)
           n == Len(w)
           rest == SubSeq(w, Len(b) + 1, n)
           dot == rest # <<>> /\ rest[1] = "."
           tail == IF dot THEN Tail(rest) ELSE rest
<1>1. /\ b \in Seq(Signs) /\ Len(b) \in Nat /\ Len(b) >= 1 /\ Len(b) <= 8
      /\ x \in Seq(Signs) /\ Len(x) \in Nat /\ Len(x) <= 3 /\ n \in Nat
  BY ShortIs, LenProperties
<1>2. FilenameCmp(w, e) <=>
        /\ n \in 1..12 /\ n >= Len(b) /\ SameText(SubSeq(w, 1, Len(b)), b)
        /\ (x # <<>> => dot) /\ SameText(tail, x)
  BY DEF FilenameCmp, ShortName, Base, Ext
<1> HIDE DEF b, x
<1>3. CASE n >= Len(b)
  <2>1. /\ SubSeq(w, 1, Len(b)) \in Seq(Signs) /\ Len(SubSeq(w, 1, Len(b))) = Len(b)
        /\ \A i \in 1..Len(b) : SubSeq(w, 1, Len(b))[i] = w[i]
    <3>1. \A i \in 1..Len(b) : w[i] \in Signs
      BY <1>1, <1>3
    <3>2. Len(b) - 1 + 1 = Len(b) /\ \A i \in 1..Len(b) : 1 + i - 1 = i
      BY <1>1
    <3> QED
      BY <1>1, <3>1, <3>2, SubSeqProperties
  <2>2. SameText(SubSeq(w, 1, Len(b)), b) <=> \A i \in 1..Len(b) : Conv(w[i]) = Conv(b[i])
    <3> DEFINE u == SubSeq(w, 1, Len(b))
    <3>1. u \in Seq(Signs) /\ Len(u) = Len(b) /\ \A i \in 1..Len(b) : u[i] = w[i]
      BY <2>1
    <3> HIDE DEF u
    <3>2. SameText(u, b) <=> \A i \in 1..Len(b) : Conv(u[i]) = Conv(b[i])
      BY <1>1, <3>1, SameIs
    <3>3. SameText(u, b) <=> \A i \in 1..Len(b) : Conv(w[i]) = Conv(b[i])
      BY <3>1, <3>2
    <3> QED
      BY <3>3 DEF u
  <2> DEFINE m == n - Len(b)
  <2>3. /\ rest \in Seq(Signs) /\ Len(rest) = m
        /\ \A i \in 1..m : rest[i] = w[Len(b) + i]
    <3>1. \A i \in (Len(b) + 1)..n : w[i] \in Signs
      BY <1>1
    <3>2. CASE m = 0
      <4>1. n < Len(b) + 1
        BY <1>1, <3>2
      <4>2. rest = <<>>
        BY <1>1, <4>1, SubSeqEmpty
      <4> QED
        BY <3>2, <4>2
    <3>3. CASE m # 0
      <4>1. Len(b) + 1 <= n /\ Len(b) + 1 \in Int /\ n \in Int
        BY <1>1, <1>3, <3>3
      <4>2. n - (Len(b) + 1) + 1 = m /\ \A i \in 1..m : (Len(b) + 1) + i - 1 = Len(b) + i
        BY <1>1
      <4> HIDE DEF n, m
      <4> QED
        BY <3>1, <4>1, <4>2, SubSeqProperties
    <3> QED
      BY <3>2, <3>3
  <2>4. dot <=> m > 0 /\ w[Len(b) + 1] = "."
    <3> HIDE DEF rest
    <3>1. rest # <<>> <=> m > 0
      <4>1. rest = <<>> <=> Len(rest) = 0
        BY <2>3, EmptySeq
      <4>2. m \in Nat
        BY <1>1, <1>3
      <4> QED
        BY <2>3, <4>1, <4>2
    <3>2. m > 0 => rest[1] = w[Len(b) + 1]
      BY <1>1, <1>3, <2>3
    <3> QED
      BY <3>1, <3>2
  <2>5. /\ tail \in Seq(Signs) /\ Len(tail) = IF dot THEN m - 1 ELSE m
        /\ dot => \A i \in 1..(m - 1) : tail[i] = w[Len(b) + 1 + i]
    <3>1. CASE dot
      <4>1. Tail(rest) \in Seq(Signs) /\ Len(Tail(rest)) = Len(rest) - 1
            /\ \A i \in 1..(m - 1) : Tail(rest)[i] = rest[i + 1]
        BY <2>3, <3>1, HeadTailProperties
      <4>2. \A i \in 1..(m - 1) : rest[i + 1] = w[Len(b) + (i + 1)] /\ Len(b) + (i + 1) = Len(b) + 1 + i
        <5> HIDE DEF rest
        <5> QED
          BY <1>1, <2>3
      <4> HIDE DEF rest
      <4> QED
        BY <2>3, <3>1, <4>1, <4>2
    <3>2. CASE ~dot
      BY <2>3, <3>2
    <3> QED
      BY <3>1, <3>2
  <2> HIDE DEF rest, dot, tail
  <2>6. SameText(tail, x) <=> Len(tail) = Len(x) /\ \A i \in 1..Len(tail) : Conv(tail[i]) = Conv(x[i])
    <3>1. SameText(tail, x) <=> Len(tail) = Len(x) /\ \A i \in 1..Len(x) : Conv(tail[i]) = Conv(x[i])
      BY <1>1, <2>5, SameIs
    <3> QED
      BY <3>1
  <2> HIDE DEF m
  <2>7. m \in Nat /\ n = Len(b) + m
    BY <1>1, <1>3 DEF m
  <2>8. x # <<>> <=> Len(x) > 0
    BY <1>1, EmptySeq
  <2> DEFINE text == \A i \in 1..Len(b) : Conv(w[i]) = Conv(b[i])
             here == \A j \in 1..Len(x) : Conv(w[Len(b) + 1 + j]) = Conv(x[j])
  <2>9. FilenameCmp(w, e) <=>
          /\ n \in 1..12 /\ text /\ (x # <<>> => dot) /\ Len(tail) = Len(x)
          /\ \A i \in 1..Len(x) : Conv(tail[i]) = Conv(x[i])
    BY <1>2, <1>3, <2>2, <2>6
  <2>10. dot /\ Len(tail) = Len(x) =>
           ((\A i \in 1..Len(x) : Conv(tail[i]) = Conv(x[i])) <=> here)
    BY <2>5
  <2>11. Like(w, b, x) <=>
           /\ text
           /\ \/ x = <<>> /\ n = Len(b)
              \/ x = <<>> /\ n = Len(b) + 1 /\ w[Len(b) + 1] = "."
              \/ x # <<>> /\ n = Len(b) + 1 + Len(x) /\ w[Len(b) + 1] = "." /\ here
    BY <1>3 DEF Like
  <2> HIDE DEF text, here, n
  <2>12. CASE x = <<>>
    <3>1. Len(x) = 0
      BY <1>1, <2>8, <2>12
    <3>2. FilenameCmp(w, e) <=> n \in 1..12 /\ text /\ Len(tail) = 0
      BY <2>9, <2>12, <3>1
    <3>3. Len(tail) = 0 <=> m = 0 \/ (m = 1 /\ w[Len(b) + 1] = ".")
      BY <2>4, <2>5, <2>7
    <3> QED
      BY <1>1, <2>7, <2>11, <2>12, <3>2, <3>3 DEF b, x
  <2>13. CASE x # <<>>
    <3>1. FilenameCmp(w, e) <=> n \in 1..12 /\ text /\ dot /\ m - 1 = Len(x) /\ here
      BY <2>5, <2>9, <2>10, <2>13
    <3>2. dot /\ m - 1 = Len(x) <=> n = Len(b) + 1 + Len(x) /\ w[Len(b) + 1] = "."
      BY <1>1, <2>4, <2>7
    <3>3. n = Len(b) + 1 + Len(x) => n \in 1..12
      BY <1>1
    <3> QED
      BY <2>11, <2>13, <3>1, <3>2, <3>3 DEF b, x
  <2> QED
    BY <2>12, <2>13
<1>4. CASE ~(n >= Len(b))
  BY <1>1, <1>2, <1>4 DEF Like, b, x
<1> QED
  BY <1>3, <1>4

(* The name the driver gives an entry.                                     *)
LEMMA SfnIs ==
  ASSUME NEW e, ShortName(e), NEW s, s = AllocSFN(e), NEW b, b = Base(e), NEW x, x = Ext(e)
  PROVE  /\ s \in Seq(Signs) /\ (x = <<>> => s = b)
         /\ x # <<>> =>
              /\ Len(s) = Len(b) + 1 + Len(x) /\ s[Len(b) + 1] = "."
              /\ \A i \in 1..Len(b) : s[i] = b[i]
              /\ \A j \in 1..Len(x) : s[Len(b) + 1 + j] = x[j]
<1>1. b \in Seq(Signs) /\ x \in Seq(Signs) /\ Len(b) \in Nat /\ Len(x) \in Nat
  BY ShortIs, LenProperties
<1>2. s = b \o (IF x = <<>> THEN <<>> ELSE <<".">> \o x)
  BY DEF AllocSFN, Base, Ext
<1>3. CASE x = <<>>
  BY <1>1, <1>2, <1>3, ConcatEmptySeq
<1>4. CASE x # <<>>
  <2> DEFINE d == <<".">>  y == d \o x
  <2>1. d \in Seq(Signs) /\ Len(d) = 1 /\ d[1] = "."
    BY DEF Signs
  <2> HIDE DEF d
  <2>2. /\ y \in Seq(Signs) /\ Len(y) = 1 + Len(x)
        /\ \A i \in 1..(1 + Len(x)) : y[i] = IF i <= 1 THEN d[i] ELSE x[i - 1]
    <3>1. /\ y \in Seq(Signs) /\ Len(y) = Len(d) + Len(x)
          /\ \A i \in 1..(Len(d) + Len(x)) : y[i] = IF i <= Len(d) THEN d[i] ELSE x[i - Len(d)]
      BY <1>1, <2>1, ConcatProperties
    <3> HIDE DEF y
    <3> QED
      BY <2>1, <3>1
  <2>3. y[1] = "." /\ \A j \in 1..Len(x) : y[1 + j] = x[j]
    BY <1>1, <2>1, <2>2
  <2> HIDE DEF y
  <2>4. s = b \o y
    BY <1>2, <1>4 DEF y, d
  <2>5. /\ s \in Seq(Signs) /\ Len(s) = Len(b) + Len(y)
        /\ \A i \in 1..(Len(b) + Len(y)) : s[i] = IF i <= Len(b) THEN b[i] ELSE y[i - Len(b)]
    <3> DEFINE u == b \o y
    <3>1. /\ u \in Seq(Signs) /\ Len(u) = Len(b) + Len(y)
          /\ \A i \in 1..(Len(b) + Len(y)) : u[i] = IF i <= Len(b) THEN b[i] ELSE y[i - Len(b)]
      BY <1>1, <2>2, ConcatProperties
    <3>2. s = u
      BY <2>4
    <3> HIDE DEF u
    <3> QED
      BY <3>1, <3>2
  <2>6. \A i \in 1..Len(b) : s[i] = b[i]
    BY <1>1, <2>2, <2>5
  <2>7. s[Len(b) + 1] = "."
    <3>1. Len(b) + 1 \in 1..(Len(b) + Len(y)) /\ ~(Len(b) + 1 <= Len(b)) /\ (Len(b) + 1) - Len(b) = 1
      BY <1>1, <2>2
    <3> QED
      BY <2>3, <2>5, <3>1
  <2>8. ASSUME NEW j \in 1..Len(x) PROVE s[Len(b) + 1 + j] = x[j]
    <3> DEFINE i == Len(b) + 1 + j
    <3>1. i \in 1..(Len(b) + Len(y)) /\ ~(i <= Len(b)) /\ i - Len(b) = 1 + j
      BY <1>1, <2>2
    <3> HIDE DEF i
    <3>2. s[i] = y[1 + j]
      BY <2>5, <3>1
    <3> QED
      BY <2>3, <3>2 DEF i
  <2> QED
    BY <1>4, <2>2, <2>5, <2>6, <2>7, <2>8
<1> QED
  BY <1>3, <1>4

LEMMA NamedIs ==
  ASSUME NEW e, ShortName(e), NEW w \in Seq(Signs)
  PROVE  Named(e, w) <=> Like(w, Base(e), Ext(e))
<1> DEFINE b == Base(e)
           x == Ext(e)
           s == AllocSFN(e)
           t == Append(s, ".")
<1>1. /\ b \in Seq(Signs) /\ Len(b) \in Nat /\ x \in Seq(Signs) /\ Len(x) \in Nat /\ Len(w) \in Nat
  BY ShortIs, LenProperties
<1>2. /\ s \in Seq(Signs) /\ (x = <<>> => s = b)
      /\ x # <<>> =>
           /\ Len(s) = Len(b) + 1 + Len(x) /\ s[Len(b) + 1] = "."
           /\ \A i \in 1..Len(b) : s[i] = b[i]
           /\ \A j \in 1..Len(x) : s[Len(b) + 1 + j] = x[j]
  <2> HIDE DEF s, b, x
  <2> QED
    BY SfnIs DEF s, b, x
<1>3. Named(e, w) <=> SameText(w, s) \/ (x = <<>> /\ SameText(w, t))
  BY DEF Named, Ext
<1>4. /\ t \in Seq(Signs) /\ Len(t) = Len(s) + 1 /\ t[Len(s) + 1] = "."
      /\ \A i \in 1..Len(s) : t[i] = s[i]
  <2> HIDE DEF s
  <2>1. "." \in Signs
    BY DEF Signs
  <2> QED
    BY <1>2, <2>1, AppendProperties
<1> HIDE DEF b, x, s, t
<1>5. Len(s) \in Nat
  BY <1>2, LenProperties
<1>6. SameText(w, s) <=> Len(w) = Len(s) /\ \A i \in 1..Len(s) : Conv(w[i]) = Conv(s[i])
  BY <1>2, SameIs
<1>7. SameText(w, t) <=> Len(w) = Len(t) /\ \A i \in 1..Len(t) : Conv(w[i]) = Conv(t[i])
  BY <1>4, SameIs
<1>8. CASE x = <<>>
  <2>1. s = b
    BY <1>2, <1>8
  <2>2. SameText(w, s) <=> Len(w) = Len(b) /\ \A i \in 1..Len(b) : Conv(w[i]) = Conv(b[i])
    BY <1>6, <2>1
  <2>3. SameText(w, t) <=> /\ Len(w) = Len(b) + 1 /\ \A i \in 1..Len(b) : Conv(w[i]) = Conv(b[i])
                           /\ w[Len(b) + 1] = "."
    <3>1. (\A i \in 1..Len(t) : Conv(w[i]) = Conv(t[i])) <=>
            (\A i \in 1..Len(b) : Conv(w[i]) = Conv(t[i])) /\ Conv(w[Len(b) + 1]) = Conv(t[Len(b) + 1])
      BY <1>4, <1>1, <2>1
    <3>2. Conv(w[Len(b) + 1]) = Conv(t[Len(b) + 1]) <=> w[Len(b) + 1] = "."
      BY <1>4, <2>1, Dot
    <3>3. (\A i \in 1..Len(b) : Conv(w[i]) = Conv(t[i])) <=> \A i \in 1..Len(b) : Conv(w[i]) = Conv(b[i])
      BY <1>4, <2>1
    <3>4. Len(t) = Len(b) + 1
      BY <1>4, <2>1
    <3> QED
      BY <1>7, <3>1, <3>2, <3>3, <3>4
  <2>4. Like(w, b, x) <=>
          /\ \A i \in 1..Len(b) : Conv(w[i]) = Conv(b[i])
          /\ Len(w) = Len(b) \/ (Len(w) = Len(b) + 1 /\ w[Len(b) + 1] = ".")
    BY <1>1, <1>8 DEF Like
  <2> QED
    BY <1>3, <1>8, <2>2, <2>3, <2>4 DEF b, x
<1>9. CASE x # <<>>
  <2> DEFINE text == \A i \in 1..Len(b) : Conv(w[i]) = Conv(b[i])
             here == \A j \in 1..Len(x) : Conv(w[Len(b) + 1 + j]) = Conv(x[j])
             all == \A i \in 1..Len(s) : Conv(w[i]) = Conv(s[i])
  <2>1. /\ Len(s) = Len(b) + 1 + Len(x) /\ s[Len(b) + 1] = "."
        /\ \A i \in 1..Len(b) : s[i] = b[i]
        /\ \A j \in 1..Len(x) : s[Len(b) + 1 + j] = x[j]
    BY <1>2, <1>9
  <2>2. ASSUME all PROVE text /\ w[Len(b) + 1] = "." /\ here
    <3>1. text
      BY <1>1, <2>1, <2>2
    <3>2. Len(b) + 1 \in 1..Len(s)
      BY <1>1, <2>1
    <3>3. w[Len(b) + 1] = "."
      BY <2>1, <2>2, <3>2, Dot
    <3>4. here
      <4> SUFFICES ASSUME NEW j \in 1..Len(x) PROVE Conv(w[Len(b) + 1 + j]) = Conv(x[j])
        OBVIOUS
      <4>1. Len(b) + 1 + j \in 1..Len(s)
        BY <1>1, <2>1
      <4> QED
        BY <2>1, <2>2, <4>1
    <3> QED
      BY <3>1, <3>3, <3>4
  <2>3. ASSUME text, w[Len(b) + 1] = ".", here PROVE all
    <3> SUFFICES ASSUME NEW i \in 1..Len(s) PROVE Conv(w[i]) = Conv(s[i])
      OBVIOUS
    <3>1. CASE i <= Len(b)
      BY <1>1, <2>1, <2>3, <3>1
    <3>2. CASE i = Len(b) + 1
      BY <2>1, <2>3, <3>2
    <3>3. CASE i > Len(b) + 1
      <4> DEFINE j == i - (Len(b) + 1)
      <4>1. j \in 1..Len(x) /\ i = Len(b) + 1 + j
        BY <1>1, <2>1, <3>3
      <4> HIDE DEF j
      <4> QED
        BY <2>1, <2>3, <4>1
    <3> QED
      BY <1>1, <3>1, <3>2, <3>3
  <2>4. Like(w, b, x) <=> text /\ Len(w) = Len(s) /\ w[Len(b) + 1] = "." /\ here
    BY <1>1, <1>9, <2>1 DEF Like
  <2> HIDE DEF text, here
  <2>5. SameText(w, s) <=> Len(w) = Len(s) /\ all
    BY <1>6
  <2> HIDE DEF all
  <2> QED
    BY <1>3, <1>9, <2>2, <2>3, <2>4, <2>5 DEF b, x
<1> QED
  BY <1>8, <1>9

(* The driver's comparison is the meaning of a name.                       *)
LEMMA CmpNamed ==
  ASSUME NEW e, ShortName(e), e.base[1] \notin {END, FREE}, NEW w \in Seq(Signs)
  PROVE  FilenameCmp(w, e) <=> Named(e, w)
BY CmpIs, NamedIs

LEMMA OwnName ==
  ASSUME NEW e, ShortName(e), e.base[1] \notin {END, FREE}
  PROVE  FilenameCmp(AllocSFN(e), e)
<1> DEFINE s == AllocSFN(e)
<1>1. s \in Seq(Signs)
  <2> HIDE DEF s
  <2> QED
    BY SfnIs DEF s
<1>2. Named(e, s)
  <2>1. SameText(s, s)
    <3> HIDE DEF s
    <3> QED
      BY <1>1, SameIs
  <2> QED
    BY <2>1 DEF Named
<1> HIDE DEF s
<1>3. FilenameCmp(s, e)
  BY <1>1, <1>2, CmpNamed
<1> QED
  BY <1>3 DEF s

(* Nothing but dots leads to the directory above.                          *)
LEMMA UpIsDots ==
  ASSUME NEW e, ShortName(e), AllocSFN(e) = <<".", ".">>, NEW w \in Seq(Signs), Named(e, w)
  PROVE  w \in Dots
<1> DEFINE s == AllocSFN(e)
<1>1. s \in Seq(Signs) /\ Len(s) = 2 /\ s[1] = "." /\ s[2] = "."
  BY DEF Signs
<1> DEFINE t == Append(s, ".")
<1>2. t \in Seq(Signs) /\ Len(t) = 3 /\ t[1] = "." /\ t[2] = "." /\ t[3] = "."
  BY DEF Signs
<1>3. Named(e, w) => SameText(w, s) \/ SameText(w, t)
  BY DEF Named
<1> HIDE DEF s, t
<1>4. CASE SameText(w, s)
  <2>1. Len(w) = Len(s) /\ \A i \in 1..Len(s) : Conv(w[i]) = Conv(s[i])
    BY <1>1, <1>4, SameIs
  <2>2. w[1] = "." /\ w[2] = "."
    BY <1>1, <2>1, Dot
  <2>3. w = <<".", ".">>
    BY <1>1, <2>1, <2>2
  <2> QED
    BY <2>3 DEF Dots
<1>5. CASE SameText(w, t)
  <2>1. Len(w) = Len(t) /\ \A i \in 1..Len(t) : Conv(w[i]) = Conv(t[i])
    BY <1>2, <1>5, SameIs
  <2>2. w[1] = "." /\ w[2] = "." /\ w[3] = "."
    BY <1>2, <2>1, Dot
  <2>3. w = <<".", ".", ".">>
    BY <1>2, <2>1, <2>2
  <2> QED
    BY <2>3 DEF Dots
<1> QED
  BY <1>3, <1>4, <1>5
----------------------------------------------------------------------------
(* The directories of a volume.                                            *)

Dirs == DOMAIN vol.dir \ {0}

LEMMA TreeIs ==
  ASSUME Meant
  PROVE  /\ IsFiniteSet(Dirs) /\ Type \in {12, 16, 32}
         /\ IF Type = 32 THEN BPB.root_cluster \in Dirs
            ELSE 0 \in DOMAIN vol.dir /\ Len(vol.dir[0]) <= BPB.root_entry_count
         /\ \A c \in Dirs : /\ c \in Nat /\ c >= 2 /\ c < EndMark
                            /\ 32 * Len(vol.dir[c]) <= CB
                            /\ Link(c) \in Dirs \/ Link(c) >= EndMark
         /\ \A c \in DOMAIN vol.dir : Len(vol.dir[c]) \in Nat
         /\ \A c \in DOMAIN vol.dir : \A i \in 1..Len(vol.dir[c]) :
              /\ ShortName(vol.dir[c][i])
              /\ vol.dir[c][i].cluster \in Nat /\ vol.dir[c][i].size \in Nat
              /\ IsDirectory(vol.dir[c][i]) =>
                   vol.dir[c][i].cluster \in Dirs \/ AllocSFN(vol.dir[c][i]) = <<".", ".">>
<1>1. name \in DOMAIN Volumes /\ Valid(Volumes[name].bpb) /\ vol = Volumes[name]
  BY DEF Meant, OnVolume, BPB, vol
<1>2. Trees(vol) /\ Numbers(vol)
  BY <1>1, TreesAssumption, VolumesAssumption
<1>3. Type \in {12, 16, 32} /\ Type = TypeOf(ClusterCount(vol.bpb))
  BY DEF Type, TypeOf
<1>4. EndOf(Type) \in Nat
  BY <1>3 DEF EndOf
<1>5. /\ IsFiniteSet(Dirs)
      /\ IF Type = 32 THEN BPB.root_cluster \in Dirs
         ELSE 0 \in DOMAIN vol.dir /\ Len(vol.dir[0]) <= BPB.root_entry_count
  BY <1>2, <1>3 DEF Trees, Dirs, BPB
<1>6. ASSUME NEW c \in Dirs
      PROVE  /\ c \in Nat /\ c >= 2 /\ c < EndMark
             /\ 32 * Len(vol.dir[c]) <= CB
             /\ Link(c) \in Dirs \/ Link(c) >= EndMark
  <2>1. /\ c \in 2..(EndOf(Type) - 1) /\ 32 * Len(vol.dir[c]) <= ClusterBytes(vol.bpb)
        /\ FatEntry(vol, c) % Mask28 \in Dirs \/ FatEntry(vol, c) % Mask28 >= EndOf(Type)
    BY <1>2, <1>3 DEF Trees, Dirs
  <2> QED
    BY <1>4, <2>1 DEF EndMark, Link, CB, BPB
<1>7. ASSUME NEW c \in DOMAIN vol.dir PROVE Len(vol.dir[c]) \in Nat
  BY <1>2 DEF Numbers
<1>8. ASSUME NEW c \in DOMAIN vol.dir, NEW i \in 1..Len(vol.dir[c])
      PROVE  /\ ShortName(vol.dir[c][i])
             /\ vol.dir[c][i].cluster \in Nat /\ vol.dir[c][i].size \in Nat
             /\ IsDirectory(vol.dir[c][i]) =>
                  vol.dir[c][i].cluster \in Dirs \/ AllocSFN(vol.dir[c][i]) = <<".", ".">>
  <2>1. {vol.dir[c][i].cluster, vol.dir[c][i].size} \subseteq Nat
    BY <1>2 DEF Numbers
  <2>2. /\ ShortName(vol.dir[c][i])
        /\ IsDirectory(vol.dir[c][i]) =>
             vol.dir[c][i].cluster \in Dirs \/ AllocSFN(vol.dir[c][i]) = <<".", ".">>
    BY <1>2 DEF Trees, Dirs
  <2> QED
    BY <2>1, <2>2
<1> QED
  BY <1>3, <1>5, <1>6, <1>7, <1>8

LEMMA RoomIs == Meant => Room \in Nat \ {0} /\ CB = 32 * Room
<1> SUFFICES ASSUME Meant PROVE Room \in Nat \ {0} /\ CB = 32 * Room
  OBVIOUS
<1> DEFINE n == BPB.bytes_per_sect  p == BPB.sects_per_cluster
<1>1. CB = p * n
  BY DEF CB, ClusterBytes, Bytes
<1>2. p \in Nat \ {0} /\ n \in {512, 1024, 2048, 4096}
  BY Fields
<1>3. PICK m \in Nat \ {0} : n = 32 * m
  <2>1. \E m \in {16, 32, 64, 128} : n = 32 * m
    BY <1>2
  <2> QED
    BY <2>1
<1> HIDE DEF n, p
<1> DEFINE k == p * m
<1>4. k \in Nat \ {0} /\ CB = 32 * k
  BY <1>1, <1>2, <1>3
<1> HIDE DEF k
<1>5. (32 * k) \div 32 = k
  BY <1>4
<1>6. Room = k
  BY <1>4, <1>5 DEF Room, CB, BPB
<1> QED
  BY <1>4, <1>6

(* The root area of FAT12 and FAT16.                                       *)
LEMMA RootIs ==
  Meant => /\ RootStart(BPB) \in Nat /\ DataStart(BPB) \in Nat
           /\ RootStart(BPB) + 32 * BPB.root_entry_count <= DataStart(BPB)
<1> SUFFICES ASSUME Meant
    PROVE  /\ RootStart(BPB) \in Nat /\ DataStart(BPB) \in Nat
           /\ RootStart(BPB) + 32 * BPB.root_entry_count <= DataStart(BPB)
  OBVIOUS
<1> DEFINE n == BPB.bytes_per_sect
           a == 32 * BPB.root_entry_count
           q == CeilDiv(a, n)
<1>1. n \in Nat \ {0} /\ a \in Nat
  BY Fields
<1>2. RootStart(BPB) \in Nat
  <2>1. BPB.reserved_sects \in Nat /\ BPB.fats \in Nat /\ FatSects(BPB) \in Nat
    BY Fields
  <2>2. \A x, y, z, m \in Nat : (x + y * z) * m \in Nat
    OBVIOUS
  <2> QED
    BY <1>1, <2>1, <2>2 DEF RootStart, Bytes
<1>3. DataStart(BPB) = RootStart(BPB) + q * n
  BY DEF DataStart, Bytes, RootDirSects
<1> HIDE DEF n, a
<1>4. q * n >= a
  BY <1>1, CeilIs
<1>5. q * n \in Nat
  BY <1>1, CeilIs
<1> DEFINE x == q * n
<1>6. x \in Nat /\ x >= a /\ DataStart(BPB) = RootStart(BPB) + x
  BY <1>3, <1>4, <1>5
<1> HIDE DEF x
<1>7. DataStart(BPB) \in Nat /\ RootStart(BPB) + a <= DataStart(BPB)
  BY <1>1, <1>2, <1>6
<1> QED
  BY <1>2, <1>7 DEF a

(* The entries the device holds at the places the driver reads.            *)
LEMMA DataEntry ==
  ASSUME Meant, NEW c \in Dirs, NEW o \in 0..(Room - 1)
  PROVE  EntryAt(vol, ClusterStart(BPB, c) + 32 * o) = Nth(c, o)
<1> DEFINE off == ClusterStart(BPB, c) + 32 * o
           D == DataStart(BPB)
           r == 32 * o
           q == c - 2
           cc == IF off >= D THEN 2 + (off - D) \div CB ELSE 0
           k == (IF off >= D THEN (off - D) % CB ELSE off - RootStart(BPB)) \div 32
<1>1. c \in Nat /\ q \in Nat /\ 2 + q = c /\ c \in DOMAIN vol.dir
  BY TreeIs DEF Dirs
<1>2. /\ CB \in Nat \ {0} /\ D \in Nat /\ Room \in Nat \ {0} /\ CB = 32 * Room
      /\ RootStart(BPB) \in Nat /\ RootStart(BPB) <= D
  <2>1. BPB.root_entry_count \in Nat
    BY Fields
  <2> QED
    BY <2>1, Clusters, RoomIs, RootIs
<1>3. ClusterStart(BPB, c) = D + q * CB
  BY DEF ClusterStart, CB
<1>4. r \in 0..(CB - 1) /\ r \div 32 = o /\ o \in Nat
  BY <1>2
<1>5. (q * CB + r) \div CB = q /\ (q * CB + r) % CB = r
  <2> HIDE DEF q, r
  <2> QED
    BY <1>1, <1>2, <1>4, DivUnique
<1> DEFINE z == q * CB
<1>6. z \in Nat /\ off = (D + z) + r
  BY <1>1, <1>2, <1>3
<1>7. (z + r) \div CB = q /\ (z + r) % CB = r
  BY <1>5
<1>8. EntryAt(vol, off) =
        IF off < RootStart(BPB) \/ cc \notin DOMAIN vol.dir THEN Blank("?")
        ELSE IF k < Len(vol.dir[cc]) THEN vol.dir[cc][k + 1] ELSE Blank(END)
  BY DEF EntryAt, BPB, CB
<1> HIDE DEF off, D, r, q, z
<1>9. off \in Nat /\ off >= D /\ off - D = z + r /\ ~(off < RootStart(BPB))
  BY <1>2, <1>4, <1>6
<1>10. cc = c
  BY <1>1, <1>7, <1>9
<1>11. k = o
  BY <1>4, <1>7, <1>9
<1> HIDE DEF cc, k
<1>12. EntryAt(vol, off) = Nth(c, o)
  BY <1>1, <1>8, <1>9, <1>10, <1>11 DEF Nth
<1> QED
  BY <1>12 DEF off

LEMMA RootEntryAt ==
  ASSUME Meant, Type # 32, NEW i \in Nat, i < BPB.root_entry_count
  PROVE  EntryAt(vol, RootStart(BPB) + 32 * i) = Nth(0, i)
<1> DEFINE off == RootStart(BPB) + 32 * i
           D == DataStart(BPB)
           R == RootStart(BPB)
           n == BPB.root_entry_count
           cc == IF off >= D THEN 2 + (off - D) \div CB ELSE 0
           k == (IF off >= D THEN (off - D) % CB ELSE off - R) \div 32
<1>1. R \in Nat /\ D \in Nat /\ n \in Nat /\ R + 32 * n <= D /\ 0 \in DOMAIN vol.dir
  BY RootIs, Fields, TreeIs
<1>2. EntryAt(vol, off) =
        IF off < R \/ cc \notin DOMAIN vol.dir THEN Blank("?")
        ELSE IF k < Len(vol.dir[cc]) THEN vol.dir[cc][k + 1] ELSE Blank(END)
  BY DEF EntryAt, BPB, CB
<1>3. i < n
  OBVIOUS
<1>4. off = R + 32 * i
  OBVIOUS
<1> HIDE DEF off, D, R, n
<1>5. ~(off >= D) /\ ~(off < R) /\ off - R = 32 * i
  BY <1>1, <1>3, <1>4
<1>6. (32 * i) \div 32 = i
  OBVIOUS
<1>7. cc = 0 /\ k = i
  BY <1>5, <1>6
<1> HIDE DEF cc, k
<1>8. EntryAt(vol, off) = Nth(0, i)
  BY <1>1, <1>2, <1>5, <1>7 DEF Nth
<1> QED
  BY <1>8 DEF off, R

LEMMA NthIs ==
  ASSUME Meant, NEW c, NEW i \in Nat
  PROVE  /\ Nth(c, i).cluster \in Nat /\ Nth(c, i).size \in Nat
         /\ Nth(c, i).base[1] # END =>
              /\ c \in DOMAIN vol.dir /\ i < Len(vol.dir[c]) /\ ShortName(Nth(c, i))
              /\ IsDirectory(Nth(c, i)) =>
                   Nth(c, i).cluster \in Dirs \/ AllocSFN(Nth(c, i)) = <<".", ".">>
<1>1. CASE c \in DOMAIN vol.dir /\ i < Len(vol.dir[c])
  <2>1. i + 1 \in 1..Len(vol.dir[c]) /\ Nth(c, i) = vol.dir[c][i + 1]
    BY <1>1, TreeIs DEF Nth
  <2> QED
    BY <1>1, <2>1, TreeIs
<1>2. CASE ~(c \in DOMAIN vol.dir /\ i < Len(vol.dir[c]))
  <2>1. Nth(c, i) = Blank(END)
    BY <1>2 DEF Nth
  <2>2. Blank(END).cluster = 0 /\ Blank(END).size = 0
    BY DEF Blank
  <2>3. Blank(END).base[1] = END
    <3> DEFINE s == <<END>>  t == [i2 \in 1..7 |-> Space]  T == {END, Space}
    <3>1. s \in Seq(T) /\ Len(s) = 1 /\ s[1] = END
      OBVIOUS
    <3>2. t \in Seq(T) /\ Len(t) = 7
      <4> DEFINE n == 7
      <4>1. n \in Nat /\ t = [i2 \in 1..n |-> Space]
        OBVIOUS
      <4> HIDE DEF n
      <4>2. t \in Seq(T) /\ Len(t) = n
        BY <4>1
      <4> QED
        BY <4>2 DEF n
    <3>3. Blank(END).base = s \o t
      BY DEF Blank
    <3> HIDE DEF s, t, T
    <3>4. 1 \in 1..(Len(s) + Len(t)) /\ 1 <= Len(s)
      BY <3>1, <3>2
    <3>5. \A j \in 1..(Len(s) + Len(t)) :
            (s \o t)[j] = IF j <= Len(s) THEN s[j] ELSE t[j - Len(s)]
      BY <3>1, <3>2, ConcatProperties
    <3>6. (s \o t)[1] = s[1]
      BY <3>4, <3>5
    <3> QED
      BY <3>1, <3>3, <3>6
  <2> QED
    BY <2>1, <2>2, <2>3
<1> QED
  BY <1>1, <1>2

LEMMA BlankEnd ==
  ASSUME Meant, NEW c, NEW i \in Nat, ~(c \in DOMAIN vol.dir /\ i < Len(vol.dir[c]))
  PROVE  Nth(c, i).base[1] = END
BY NthIs

LEMMA MarkIs == Meant => EndMark \in Nat \ {0}
<1> SUFFICES ASSUME Meant PROVE EndMark \in Nat \ {0}
  OBVIOUS
<1>1. Type \in {12, 16, 32}
  BY TreeIs
<1>2. CASE Type = 12
  BY <1>2 DEF EndMark, EndOf
<1>3. CASE Type = 16
  BY <1>3 DEF EndMark, EndOf
<1>4. CASE Type = 32
  BY <1>4 DEF EndMark, EndOf
<1> QED
  BY <1>1, <1>2, <1>3, <1>4

LEMMA SafeDirs ==
  ASSUME Mounted, Safe(Dirs), NEW c \in Dirs
  PROVE  ClusterOffset(c) = ClusterStart(BPB, c) /\ NextCluster(c) = Link(c)
<1>1. Meant /\ c \in Nat
  BY Driver, TreeIs
<1>2. ~SignLost(c) /\ ~Wraps(c)
  BY DEF Safe
<1>3. ClusterStart(BPB, c) \in 0..MaxU32
  BY <1>2 DEF Wraps, BPB
<1> QED
  BY <1>1, <1>2, <1>3, Driver, NextIs

(* What a turn does with the entry it has read.                            *)
MovesOn(t, it, e) ==
  /\ t.what = IF e.base[1] = FREE \/ IsLfn(e) THEN "skip" ELSE "entry"
  /\ t.it.entry = e /\ t.it.offset = it.offset + 32 /\ t.it.has_next
  /\ t.it.cluster = it.cluster /\ t.it.root16_12 = it.root16_12
  /\ t.it.r_entry = it.r_entry /\ t.it.count = it.count

LEMMA HandledIs ==
  ASSUME NEW it \in Iter(vol), NEW off, NEW e, e = EntryAt(vol, off),
         NEW r, r = ReadEntry(it, off), r.what # "fail"
  PROVE  /\ e.base[1] = END => r.what = "end"
         /\ e.base[1] # END => MovesOn(r, it, e)
<1>1. r = HandleDirEntry(it, e)
  BY DEF ReadEntry, Fail, Turn
<1>2. CASE e.base[1] = END
  BY <1>1, <1>2 DEF HandleDirEntry, End, Turn, END, FREE
<1>3. CASE e.base[1] # END
  <2> DEFINE next == [[it EXCEPT !.entry = e] EXCEPT !.offset = @ + 32, !.has_next = TRUE]
  <2>1. next.entry = e /\ next.offset = it.offset + 32 /\ next.has_next
        /\ next.cluster = it.cluster /\ next.root16_12 = it.root16_12
        /\ next.r_entry = it.r_entry /\ next.count = it.count
    BY DEF Iter
  <2> HIDE DEF next
  <2>2. r = Turn(IF e.base[1] = FREE \/ IsLfn(e) THEN "skip" ELSE "entry", next)
    BY <1>1, <1>3 DEF HandleDirEntry, next
  <2>3. r.what = (IF e.base[1] = FREE \/ IsLfn(e) THEN "skip" ELSE "entry") /\ r.it = next
    BY <2>2 DEF Turn
  <2> QED
    BY <1>3, <2>1, <2>3 DEF MovesOn
<1> QED
  BY <1>2, <1>3

(* The iterator is before entry s of the directory that starts at c.       *)
Standing(it, c, s) ==
  /\ s \in Nat
  /\ \/ /\ c = 0 /\ Type # 32 /\ it.root16_12 /\ it.count = BPB.root_entry_count
        /\ it.r_entry = s /\ it.offset = 32 * s
     \/ /\ c \in Dirs /\ ~it.root16_12 /\ it.cluster \in Dirs
        /\ \E q \in Nat, o \in 0..Room :
             it.cluster = Follow(c)[q] /\ it.offset = 32 * o /\ s = q * Room + o
Judged(t, c, s) ==
  LET e == Slot(c, s)
  IN /\ e.base[1] = END => t.what = "end"
     /\ e.base[1] # END =>
          /\ t.what = IF e.base[1] = FREE \/ IsLfn(e) THEN "skip" ELSE "entry"
          /\ t.it.entry = e /\ Standing(t.it, c, s + 1)

LEMMA RootTurn ==
  ASSUME Mounted, NEW it \in Iter(vol), it.root16_12, NEW c, NEW s, Standing(it, c, s),
         NEW t, t = TurnRoot(it), t.what # "fail"
  PROVE  Judged(t, c, s)
<1>1. Meant /\ BPB.root_entry_count \in Nat /\ RootStart(BPB) \in Nat
  BY Driver, Fields, RootIs
<1>2. /\ c = 0 /\ Type # 32 /\ it.count = BPB.root_entry_count
      /\ it.r_entry = s /\ it.offset = 32 * s /\ s \in Nat
  BY DEF Standing
<1>3. Slot(c, s) = Nth(0, s)
  BY <1>2 DEF Slot
<1>4. RootEntriesOffset = RootStart(BPB)
  BY DEF RootEntriesOffset, RootStart, Bytes, Mounted, FileSystem
<1>5. CASE s >= it.count
  <2>1. t.what = "end"
    BY <1>2, <1>5 DEF TurnRoot, End, Turn
  <2>2. Nth(0, s).base[1] = END
    <3>1. Len(vol.dir[0]) \in Nat /\ Len(vol.dir[0]) <= BPB.root_entry_count
      BY <1>1, <1>2, TreeIs
    <3> QED
      BY <1>1, <1>2, <1>5, <3>1, BlankEnd
  <2> QED
    BY <1>3, <2>1, <2>2 DEF Judged
<1>6. CASE ~(s >= it.count)
  <2> DEFINE off == RootEntriesOffset + it.offset
             r == ReadEntry(it, off)
             e == Slot(c, s)
  <2>1. EntryAt(vol, off) = e
    <3>1. s < BPB.root_entry_count
      BY <1>1, <1>2, <1>6
    <3>2. EntryAt(vol, RootStart(BPB) + 32 * s) = Nth(0, s)
      BY <1>1, <1>2, <3>1, RootEntryAt
    <3>3. off = RootStart(BPB) + 32 * s
      BY <1>2, <1>4
    <3> QED
      BY <1>3, <3>2, <3>3
  <2> HIDE DEF off, e
  <2>2. t = [r EXCEPT !.it.r_entry = IF r.it.has_next THEN @ + 1 ELSE @]
    BY <1>2, <1>6 DEF TurnRoot, off
  <2>3. \E what : r = [what |-> what, it |-> r.it]
    BY DEF ReadEntry, HandleDirEntry, Fail, Turn, End
  <2>4. r.it \in Iter(vol)
    <3>1. off \in Int
      <4>1. it.offset \in Nat
        BY DEF Iter
      <4> QED
        BY <1>1, <1>4, <4>1 DEF off
    <3> QED
      BY <3>1, ReadsIt
  <2> DEFINE d == r.it
  <2> HIDE DEF r, d
  <2>5. t.what = r.what /\ t.it = [d EXCEPT !.r_entry = IF d.has_next THEN @ + 1 ELSE @]
    BY <2>2, <2>3 DEF d
  <2>6. /\ e.base[1] = END => r.what = "end"
        /\ e.base[1] # END => MovesOn(r, it, e)
    BY <2>1, <2>5, HandledIs DEF r
  <2>7. ASSUME e.base[1] # END
        PROVE  /\ t.what = IF e.base[1] = FREE \/ IsLfn(e) THEN "skip" ELSE "entry"
               /\ t.it.entry = e /\ Standing(t.it, c, s + 1)
    <3>1. MovesOn(r, it, e) /\ d \in Iter(vol)
      BY <2>4, <2>6, <2>7 DEF d
    <3>2. /\ d.entry = e /\ d.offset = it.offset + 32 /\ d.has_next
          /\ d.root16_12 /\ d.r_entry = it.r_entry /\ d.count = it.count
      BY <3>1 DEF MovesOn, d
    <3>3. t.it = [d EXCEPT !.r_entry = d.r_entry + 1]
      BY <2>5, <3>2
    <3> DEFINE u == t.it
    <3>4. /\ u.entry = e /\ u.root16_12 /\ u.count = it.count
          /\ u.offset = it.offset + 32 /\ u.r_entry = it.r_entry + 1
      BY <3>1, <3>2, <3>3 DEF Iter
    <3> HIDE DEF u
    <3>5. 32 * s + 32 = 32 * (s + 1) /\ s + 1 \in Nat
      BY <1>2
    <3>6. Standing(u, c, s + 1)
      BY <1>2, <3>4, <3>5 DEF Standing
    <3> QED
      BY <2>5, <3>1, <3>4, <3>6 DEF MovesOn, u
  <2> QED
    BY <2>5, <2>6, <2>7 DEF Judged, e
<1> QED
  BY <1>5, <1>6

(* A turn in a directory of clusters: within one, and into the next.       *)
LEMMA SlotAt ==
  ASSUME Meant, NEW c \in Dirs, NEW q \in Nat, NEW o \in 0..(Room - 1), NEW s, s = q * Room + o
  PROVE  Slot(c, s) = Nth(Follow(c)[q], o)
<1>1. c # 0
  BY DEF Dirs
<1>2. s \div Room = q /\ s % Room = o
  BY RoomIs, DivUnique
<1> QED
  BY <1>1, <1>2 DEF Slot

LEMMA WithinCluster ==
  ASSUME Mounted, Safe(Dirs), NEW it \in Iter(vol), ~it.root16_12,
         NEW c \in Dirs, it.cluster \in Dirs,
         NEW q \in Nat, NEW o \in 0..(Room - 1),
         it.cluster = Follow(c)[q], it.offset = 32 * o,
         NEW off, off = ClusterOffset(it.cluster) + it.offset,
         NEW t, t = ReadEntry(it, off), t.what # "fail"
  PROVE  Judged(t, c, q * Room + o)
<1> DEFINE s == q * Room + o
           e == Slot(c, s)
           d == t.it
<1>1. Meant /\ Room \in Nat \ {0}
  BY Driver, RoomIs
<1>2. EntryAt(vol, off) = Nth(it.cluster, o)
  <2>1. EntryAt(vol, ClusterStart(BPB, it.cluster) + 32 * o) = Nth(it.cluster, o)
    BY <1>1, DataEntry
  <2>2. off = ClusterStart(BPB, it.cluster) + 32 * o
    BY SafeDirs
  <2> QED
    BY <2>1, <2>2
<1>3. e = Nth(Follow(c)[q], o)
  BY <1>1, SlotAt
<1>4. s \in Nat /\ s + 1 = q * Room + (o + 1)
  BY <1>1
<1> HIDE DEF s, e
<1>5. /\ e.base[1] = END => t.what = "end"
      /\ e.base[1] # END => MovesOn(t, it, e)
  BY <1>2, <1>3, HandledIs
<1>6. ASSUME e.base[1] # END PROVE Standing(d, c, s + 1)
  <2>1. /\ d.offset = it.offset + 32 /\ d.cluster = it.cluster
        /\ ~d.root16_12
    BY <1>5, <1>6 DEF MovesOn, d
  <2> HIDE DEF d
  <2>2. o + 1 \in 0..Room /\ d.offset = 32 * (o + 1) /\ s + 1 \in Nat
    BY <1>1, <1>4, <2>1
  <2>3. \E q1 \in Nat, o1 \in 0..Room :
          d.cluster = Follow(c)[q1] /\ d.offset = 32 * o1 /\ s + 1 = q1 * Room + o1
    <3>1. d.cluster = Follow(c)[q] /\ d.offset = 32 * (o + 1) /\ s + 1 = q * Room + (o + 1)
      BY <1>4, <2>1, <2>2
    <3> DEFINE p == o + 1
    <3>2. p \in 0..Room /\ d.cluster = Follow(c)[q] /\ d.offset = 32 * p /\ s + 1 = q * Room + p
      BY <2>2, <3>1
    <3> HIDE DEF p
    <3> QED
      BY <3>2
  <2> QED
    BY <2>1, <2>2, <2>3 DEF Standing
<1>7. Judged(t, c, s)
  BY <1>5, <1>6 DEF Judged, MovesOn, e, d
<1> QED
  BY <1>7 DEF s

LEMMA ClusterTurn ==
  ASSUME Mounted, Safe(Dirs), NEW it \in Iter(vol), ~it.root16_12, NEW c, NEW s, Standing(it, c, s),
         NEW t, t = TurnCluster(it), t.what # "fail"
  PROVE  Judged(t, c, s)
<1>1. Meant /\ Room \in Nat \ {0} /\ CB = 32 * Room /\ ClusterSize = CB /\ Limit = EndMark /\ OnVolume
  BY Driver, RoomIs DEF Mounted
<1>2. c \in Dirs /\ c \in Nat /\ it.cluster \in Dirs /\ it.cluster \in Nat
  BY <1>1, TreeIs DEF Standing
<1>3. PICK q \in Nat, o \in 0..Room :
        it.cluster = Follow(c)[q] /\ it.offset = 32 * o /\ s = q * Room + o
  BY DEF Standing
<1>4. CASE o < Room
  <2>1. o \in 0..(Room - 1) /\ it.offset < ClusterSize
    BY <1>1, <1>3, <1>4
  <2> DEFINE off == ClusterOffset(it.cluster) + it.offset
  <2>2. t = ReadEntry(it, off)
    BY <2>1 DEF TurnCluster
  <2> HIDE DEF off
  <2>3. Judged(t, c, q * Room + o)
    BY <1>2, <1>3, <2>1, <2>2, WithinCluster DEF off
  <2> QED
    BY <1>3, <2>3
<1>5. CASE o = Room
  <2> DEFINE n == NextCluster(it.cluster)
             end == [it EXCEPT !.cluster = n]
             back == [it EXCEPT !.cluster = n, !.offset = 0]
  <2>1. t = IF n >= EndMark THEN End(end) ELSE ReadEntry(back, ClusterOffset(n))
    <3>1. ~(it.offset < ClusterSize)
      BY <1>1, <1>3, <1>5
    <3> QED
      BY <1>1, <3>1 DEF TurnCluster, EnterCluster
  <2>2. n = Link(it.cluster) /\ n = Follow(c)[q + 1]
    <3>1. Follow(c)[q + 1] = Link(Follow(c)[q])
      BY <1>1, <1>2, FollowIs
    <3> QED
      BY <1>2, <1>3, <3>1, SafeDirs
  <2>3. n \in Dirs \/ n >= EndMark
    BY <1>1, <1>2, <2>2, TreeIs
  <2>4. s = (q + 1) * Room + 0 /\ q + 1 \in Nat /\ 0 \in 0..(Room - 1)
    BY <1>1, <1>3, <1>5
  <2>5. EndMark \in Nat \ {0} /\ n \in Nat
    <3>1. EndMark \in Nat \ {0}
      BY <1>1, MarkIs
    <3> QED
      BY <1>1, <1>2, <2>2, <3>1, LinkIs
  <2>6. back \in Iter(vol)
    <3> HIDE DEF n
    <3> QED
      BY <2>5 DEF Iter
  <2>7. CASE n >= EndMark
    <3>1. t.what = "end"
      BY <2>1, <2>7 DEF End, Turn
    <3>2. n \notin DOMAIN vol.dir
      <4>1. n # 0 /\ n \notin Dirs
        BY <1>1, <2>5, <2>7, TreeIs
      <4> QED
        BY <4>1 DEF Dirs
    <3>3. Slot(c, s) = Nth(n, 0)
      BY <1>1, <1>2, <2>2, <2>4, SlotAt
    <3>4. Nth(n, 0).base[1] = END
      BY <1>1, <3>2, BlankEnd
    <3> QED
      BY <3>1, <3>3, <3>4 DEF Judged
  <2>8. CASE ~(n >= EndMark)
    <3>1. n \in Dirs /\ t = ReadEntry(back, ClusterOffset(n))
      BY <2>1, <2>3, <2>8
    <3>2. back.cluster = n /\ back.offset = 0 /\ ~back.root16_12
      BY DEF Iter
    <3>3. ClusterOffset(n) = ClusterOffset(back.cluster) + back.offset
      <4>1. ClusterOffset(n) \in Int
        BY <2>5, OffsetIs
      <4> QED
        BY <3>2, <4>1
    <3> HIDE DEF back, n
    <3> DEFINE off == ClusterOffset(n)  p == q + 1  z == 0
    <3>4. z \in 0..(Room - 1) /\ back.offset = 32 * z /\ p \in Nat /\ back.cluster = Follow(c)[p]
      BY <2>2, <2>4, <3>2
    <3>5. off = ClusterOffset(back.cluster) + back.offset /\ t = ReadEntry(back, off) /\ back.cluster \in Dirs
      BY <3>1, <3>2, <3>3
    <3> HIDE DEF off, p, z
    <3>6. Judged(t, c, p * Room + z)
      BY <1>2, <2>6, <3>2, <3>4, <3>5, WithinCluster
    <3> QED
      BY <2>4, <3>6 DEF p, z
  <2> QED
    BY <2>7, <2>8
<1> QED
  BY <1>1, <1>4, <1>5

(* A turn of the iterator gives the entry it stands before.                *)
LEMMA TurnIs ==
  ASSUME Mounted, Safe(Dirs), NEW it \in Iter(vol), NEW c, NEW s, Standing(it, c, s),
         NEW t, t = NextTurn(it), t.what # "fail"
  PROVE  Judged(t, c, s)
<1>1. CASE it.root16_12
  BY <1>1, RootTurn DEF NextTurn
<1>2. CASE ~it.root16_12
  BY <1>2, ClusterTurn DEF NextTurn
<1> QED
  BY <1>1, <1>2
----------------------------------------------------------------------------
(* The slots of a directory, and that a search comes to its first match    *)
(* within as many clusters as there are.                                   *)

Places(c) == (c = 0 /\ 0 \in DOMAIN vol.dir) \/ c \in Dirs
Clear(c, s) == \A j \in 0..(s - 1) : Slot(c, j).base[1] # END

LEMMA SlotIs ==
  ASSUME Meant, NEW c, NEW i \in Nat
  PROVE  /\ Slot(c, i).cluster \in Nat /\ Slot(c, i).size \in Nat
         /\ Slot(c, i).base[1] # END =>
              /\ ShortName(Slot(c, i))
              /\ IsDirectory(Slot(c, i)) =>
                   Slot(c, i).cluster \in Dirs \/ AllocSFN(Slot(c, i)) = <<".", ".">>
              /\ c = 0 => 0 \in DOMAIN vol.dir /\ i < Len(vol.dir[0])
              /\ c # 0 => Follow(c)[i \div Room] \in DOMAIN vol.dir
<1>1. i % Room \in Nat
  <2>1. Room \in Nat \ {0}
    BY RoomIs
  <2>2. i % Room \in 0..(Room - 1)
    BY <2>1, DivMod
  <2> QED
    BY <2>1, <2>2
<1>2. CASE c = 0
  <2>1. Slot(c, i) = Nth(0, i)
    BY <1>2 DEF Slot
  <2> QED
    BY <1>2, <2>1, NthIs
<1>3. CASE c # 0
  <2> DEFINE d == Follow(c)[i \div Room]  o == i % Room
  <2>1. Slot(c, i) = Nth(d, o) /\ o \in Nat
    BY <1>1, <1>3 DEF Slot
  <2> HIDE DEF d, o
  <2>2. /\ Nth(d, o).cluster \in Nat /\ Nth(d, o).size \in Nat
        /\ Nth(d, o).base[1] # END =>
             /\ d \in DOMAIN vol.dir /\ ShortName(Nth(d, o))
             /\ IsDirectory(Nth(d, o)) =>
                  Nth(d, o).cluster \in Dirs \/ AllocSFN(Nth(d, o)) = <<".", ".">>
    BY <2>1, NthIs
  <2> QED
    BY <1>3, <2>1, <2>2 DEF d
<1> QED
  BY <1>2, <1>3

(* Links that meet once go on together.                                    *)
LEMMA Together ==
  ASSUME OnVolume, NEW c \in Nat, NEW a \in Nat, NEW b \in Nat, Follow(c)[a] = Follow(c)[b],
         NEW t \in Nat
  PROVE  Follow(c)[a + t] = Follow(c)[b + t]
<1> DEFINE T == {i \in Nat : Follow(c)[a + i] # Follow(c)[b + i]}
<1> SUFFICES ASSUME T # {} PROVE FALSE
  OBVIOUS
<1>1. PICK j \in T : \A l \in T : j <= l
  <2>1. T \in SUBSET Nat
    OBVIOUS
  <2> HIDE DEF T
  <2> QED
    BY <2>1, LeastElement
<1>2. j \in Nat /\ Follow(c)[a + j] # Follow(c)[b + j]
  BY <1>1
<1>3. j # 0
  <2>1. a + 0 = a /\ b + 0 = b
    OBVIOUS
  <2> QED
    BY <1>2, <2>1
<1>4. j - 1 \in Nat /\ ~(j <= j - 1) /\ (a + (j - 1)) + 1 = a + j /\ (b + (j - 1)) + 1 = b + j
      /\ a + (j - 1) \in Nat /\ b + (j - 1) \in Nat
  BY <1>2, <1>3
<1>5. Follow(c)[a + (j - 1)] = Follow(c)[b + (j - 1)]
  <2>1. j - 1 \notin T
    <3> HIDE DEF T
    <3> QED
      BY <1>1, <1>4
  <2> QED
    BY <1>4, <2>1
<1>6. /\ Follow(c)[(a + (j - 1)) + 1] = Link(Follow(c)[a + (j - 1)])
      /\ Follow(c)[(b + (j - 1)) + 1] = Link(Follow(c)[b + (j - 1)])
  <2> DEFINE x == a + (j - 1)  y == b + (j - 1)
  <2>1. x \in Nat /\ y \in Nat
    BY <1>4
  <2> HIDE DEF x, y
  <2>2. Follow(c)[x + 1] = Link(Follow(c)[x]) /\ Follow(c)[y + 1] = Link(Follow(c)[y])
    BY <2>1, FollowIs
  <2> QED
    BY <2>2 DEF x, y
<1> QED
  BY <1>2, <1>4, <1>5, <1>6

LEMMA DirsFinite ==
  Meant => IsFiniteSet(DOMAIN vol.dir) /\ Cardinality(DOMAIN vol.dir) \in Nat
<1> SUFFICES ASSUME Meant
    PROVE  IsFiniteSet(DOMAIN vol.dir) /\ Cardinality(DOMAIN vol.dir) \in Nat
  OBVIOUS
<1>1. IsFiniteSet(Dirs)
  BY TreeIs
<1>2. IsFiniteSet(Dirs \cup {0})
  BY <1>1, FS_AddElement
<1>3. DOMAIN vol.dir \in SUBSET (Dirs \cup {0})
  BY DEF Dirs
<1>4. IsFiniteSet(DOMAIN vol.dir)
  BY <1>2, <1>3, FS_Subset
<1> QED
  BY <1>4, FS_CardinalityType

(* The clusters of the slots up to one that none ends.                     *)
LEMMA OnWay ==
  ASSUME Meant, NEW c \in Dirs, NEW s \in Nat, Clear(c, s + 1),
         NEW p \in Nat, p <= s \div Room
  PROVE  Follow(c)[p] \in DOMAIN vol.dir
<1> DEFINE q == s \div Room  i == p * Room + 0
<1>1. Room \in Nat \ {0} /\ c # 0 /\ 0 \in 0..(Room - 1)
  BY RoomIs DEF Dirs
<1>2. q \in Nat /\ s % Room \in 0..(Room - 1) /\ s = Room * q + (s % Room)
  BY <1>1, DivMod
<1>3. i \div Room = p
  BY <1>1, DivUnique
<1>4. i \in 0..s
  <2>1. p * Room <= q * Room /\ p * Room \in Nat /\ q * Room = Room * q
    BY <1>1, <1>2
  <2> QED
    BY <1>1, <1>2, <2>1
<1> HIDE DEF i
<1>5. i \in 0..((s + 1) - 1) /\ i \in Nat
  BY <1>4
<1>6. Slot(c, i).base[1] # END
  BY <1>5 DEF Clear
<1>7. Follow(c)[i \div Room] \in DOMAIN vol.dir
  BY <1>1, <1>5, <1>6, SlotIs
<1> QED
  BY <1>3, <1>7

LEMMA MeetsAgain ==
  ASSUME Meant, NEW c \in Dirs, NEW s \in Nat, Clear(c, s + 1),
         s \div Room >= Cardinality(DOMAIN vol.dir)
  PROVE  \E a, b \in 0..(s \div Room) : a < b /\ Follow(c)[a] = Follow(c)[b]
<1> DEFINE q == s \div Room
           f == [p \in 0..q |-> Follow(c)[p]]
           D == DOMAIN vol.dir
<1>1. q \in Nat
  BY RoomIs, DivMod
<1>2. f \in [0..q -> D]
  <2>1. \A p \in 0..q : Follow(c)[p] \in D
    <3> TAKE p \in 0..q
    <3>1. p \in Nat /\ p <= s \div Room
      BY <1>1
    <3> QED
      BY <3>1, OnWay
  <2> QED
    BY <2>1
<1>3. IsFiniteSet(D) /\ Cardinality(D) \in Nat /\ q >= Cardinality(D)
  BY DirsFinite
<1>4. IsFiniteSet(0..q) /\ Cardinality(0..q) = q + 1
  BY <1>1, FS_Interval
<1> HIDE DEF f, D, q
<1>5. PICK x \in 0..q, y \in 0..q : x # y /\ f[x] = f[y]
  <2>1. Cardinality(D) < Cardinality(0..q)
    BY <1>1, <1>3, <1>4
  <2> QED
    BY <1>2, <1>3, <1>4, <2>1, FS_PigeonHole
<1>6. Follow(c)[x] = Follow(c)[y]
  BY <1>5 DEF f
<1>7. x < y \/ y < x
  BY <1>1, <1>5
<1> QED
  BY <1>6, <1>7 DEF q

(* An entry that has not been met before is among the slots.               *)
LEMMA InSlots ==
  ASSUME Meant, NEW c, Places(c), NEW s \in Nat, Clear(c, s + 1),
         \A j \in 0..(s - 1) : Slot(c, j) # Slot(c, s)
  PROVE  s < Slots(c)
<1>1. CASE c = 0
  <2>1. s \in 0..((s + 1) - 1)
    OBVIOUS
  <2>2. s < Len(vol.dir[0])
    BY <1>1, <2>1, SlotIs DEF Clear
  <2> QED
    BY <1>1, <2>2 DEF Slots
<1>2. CASE c # 0
  <2> DEFINE q == s \div Room
             N == Cardinality(DOMAIN vol.dir)
  <2>1. c \in Dirs /\ c \in Nat /\ OnVolume /\ Room \in Nat \ {0} /\ N \in Nat
    BY <1>2, TreeIs, RoomIs, DirsFinite DEF Places, Meant
  <2>2. q \in Nat /\ s % Room \in 0..(Room - 1) /\ s = Room * q + (s % Room)
    BY <2>1, DivMod
  <2>3. CASE q < N
    <3> HIDE DEF q, N
    <3> DEFINE x == Room * q  y == Room * N
    <3>1. x \in Nat /\ y \in Nat /\ x + Room <= y
      <4>1. q + 1 <= N
        BY <2>1, <2>2, <2>3
      <4>2. Room * (q + 1) <= Room * N /\ Room * (q + 1) = Room * q + Room
        BY <2>1, <2>2, <4>1
      <4> QED
        BY <2>1, <2>2, <4>2
    <3>2. s = x + (s % Room)
      BY <2>2
    <3> HIDE DEF x, y
    <3>3. s < y
      BY <2>1, <2>2, <3>1, <3>2
    <3> QED
      BY <1>2, <3>3 DEF Slots, y, N
  <2>4. CASE q >= N
    <3>1. PICK a \in 0..q, b \in 0..q : a < b /\ Follow(c)[a] = Follow(c)[b]
      BY <2>1, <2>4, MeetsAgain
    <3> DEFINE t == q - b
               p == a + t
               o == s % Room
               i == p * Room + o
    <3>2. t \in Nat /\ b + t = q /\ p \in Nat /\ p < q
      BY <2>2, <3>1
    <3>3. Follow(c)[p] = Follow(c)[q]
      <4>1. a \in Nat /\ b \in Nat
        BY <2>2, <3>1
      <4> HIDE DEF t, q
      <4>2. Follow(c)[a + t] = Follow(c)[b + t]
        BY <2>1, <3>1, <3>2, <4>1, Together
      <4> QED
        BY <3>2, <4>2
    <3>4. i \div Room = p /\ i % Room = o
      <4> HIDE DEF p, o
      <4> QED
        BY <2>1, <2>2, <3>2, DivUnique DEF o
    <3>5. i \in Nat /\ i < s
      <4>1. p + 1 <= q
        BY <2>2, <3>2
      <4> HIDE DEF p, q, o
      <4>2. Room * (p + 1) <= Room * q /\ Room * (p + 1) = Room * p + Room
        BY <2>1, <2>2, <3>2, <4>1
      <4> DEFINE x == Room * q  y == Room * p
      <4>3. x \in Nat /\ y \in Nat /\ y + Room <= x /\ p * Room = y
        BY <2>1, <2>2, <3>2, <4>2
      <4>4. s = x + o /\ i = y + o
        BY <2>2, <4>3 DEF o
      <4>5. o \in Nat
        BY <2>1, <2>2 DEF o
      <4> HIDE DEF x, y, i
      <4> QED
        BY <2>1, <4>3, <4>4, <4>5
    <3>6. Slot(c, i) = Slot(c, s)
      <4>1. Slot(c, i) = Nth(Follow(c)[p], o)
        <5> HIDE DEF i, p, o
        <5> QED
          BY <1>2, <3>4 DEF Slot
      <4>2. Slot(c, s) = Nth(Follow(c)[q], o)
        BY <1>2 DEF Slot
      <4> QED
        BY <3>3, <4>1, <4>2
    <3> HIDE DEF i
    <3>7. i \in 0..(s - 1)
      BY <3>5
    <3> QED
      BY <3>6, <3>7
  <2> QED
    BY <2>1, <2>2, <2>3, <2>4
<1> QED
  BY <1>1, <1>2

LEMMA SlotsNat ==
  ASSUME Meant, NEW c, Places(c)
  PROVE  Slots(c) \in Nat
<1>1. CASE c = 0
  BY <1>1, TreeIs DEF Slots, Places, Dirs
<1>2. CASE c # 0
  <2> DEFINE n == Cardinality(DOMAIN vol.dir)
  <2>1. Room \in Nat /\ n \in Nat
    BY RoomIs, DirsFinite
  <2> HIDE DEF n
  <2>2. Room * n \in Nat
    BY <2>1
  <2> QED
    BY <1>2, <2>2 DEF Slots, n
<1> QED
  BY <1>1, <1>2

LEMMA StopIs ==
  ASSUME Meant, NEW c, Places(c)
  PROVE  /\ Stop(c) \in 0..Slots(c) /\ Clear(c, Stop(c))
         /\ Stop(c) = Slots(c) \/ Slot(c, Stop(c)).base[1] = END
<1> DEFINE n == Slots(c)
           S == {i \in 0..n : i = n \/ Slot(c, i).base[1] = END}
<1>1. n \in Nat
  BY SlotsNat
<1> HIDE DEF n
<1>2. S \in SUBSET Nat /\ n \in S
  BY <1>1
<1>3. Min(S) \in S /\ \A x \in S : Min(S) <= x
  <2> HIDE DEF S
  <2> QED
    BY <1>2, MinIs
<1> DEFINE m == Min(S)
<1>4. m \in 0..n /\ (m = n \/ Slot(c, m).base[1] = END)
  <2>1. \A x \in S : x \in 0..n /\ (x = n \/ Slot(c, x).base[1] = END)
    OBVIOUS
  <2> HIDE DEF S, m
  <2> QED
    BY <1>3, <2>1 DEF m
<1>5. ASSUME NEW j \in 0..(m - 1) PROVE Slot(c, j).base[1] # END
  <2>1. j \in 0..n /\ ~(m <= j)
    <3> HIDE DEF m
    <3> QED
      BY <1>1, <1>4
  <2>2. j \notin S
    <3> HIDE DEF S
    <3> QED
      BY <1>3, <2>1
  <2> QED
    BY <2>1, <2>2
<1>6. Stop(c) = m
  BY DEF Stop, n
<1> HIDE DEF m
<1> QED
  BY <1>4, <1>5, <1>6 DEF Clear, n

(* Up to slot s a search has found nothing that has name w.                *)
Misses(c, w, s) ==
  \A j \in 0..(s - 1) : /\ Slot(c, j).base[1] # END
                        /\ ~(Live(Slot(c, j)) /\ Named(Slot(c, j), w))

LEMMA FirstMatch ==
  ASSUME Meant, NEW c, Places(c), NEW w, NEW s \in Nat, Misses(c, w, s),
         Slot(c, s).base[1] # END, Live(Slot(c, s)), Named(Slot(c, s), w)
  PROVE  Matches(c, w) # {} /\ Min(Matches(c, w)) = s
<1>1. Clear(c, s + 1)
  <2>1. \A j \in 0..((s + 1) - 1) : j \in 0..(s - 1) \/ j = s
    OBVIOUS
  <2> QED
    BY <2>1 DEF Clear, Misses
<1>2. s < Slots(c)
  <2>1. \A j \in 0..(s - 1) : Slot(c, j) # Slot(c, s)
    BY DEF Misses
  <2> QED
    BY <1>1, <2>1, InSlots
<1> DEFINE m == Stop(c)
<1>3. m \in 0..Slots(c) /\ (m = Slots(c) \/ Slot(c, m).base[1] = END) /\ Slots(c) \in Nat
  BY StopIs, SlotsNat
<1> HIDE DEF m
<1>4. s \in 0..(m - 1)
  <2>1. CASE m <= s
    <3>1. m \in 0..((s + 1) - 1)
      BY <1>3, <2>1
    <3>2. Slot(c, m).base[1] # END
      BY <1>1, <3>1 DEF Clear
    <3> QED
      BY <1>2, <1>3, <2>1, <3>2
  <2> QED
    BY <1>3, <2>1
<1>5. s \in Matches(c, w)
  BY <1>4 DEF Matches, InUse, m
<1>6. Matches(c, w) \in SUBSET Nat
  BY <1>3 DEF Matches, InUse, m
<1>7. ASSUME NEW i \in Matches(c, w) PROVE s <= i
  <2>1. Live(Slot(c, i)) /\ Named(Slot(c, i), w) /\ i \in Nat
    BY <1>6 DEF Matches, InUse
  <2>2. i \notin 0..(s - 1)
    BY <2>1 DEF Misses
  <2> QED
    BY <2>1, <2>2
<1>8. Min(Matches(c, w)) \in Matches(c, w) /\ \A x \in Matches(c, w) : Min(Matches(c, w)) <= x
  BY <1>5, <1>6, MinIs
<1>9. Min(Matches(c, w)) = s
  <2> DEFINE x == Min(Matches(c, w))
  <2>1. x \in Nat /\ x <= s /\ s <= x
    BY <1>5, <1>6, <1>7, <1>8
  <2> HIDE DEF x
  <2> QED
    BY <2>1 DEF x
<1> QED
  BY <1>5, <1>9

LEMMA NoMatch ==
  ASSUME Meant, NEW c, Places(c), NEW w, NEW s \in Nat, Misses(c, w, s), Slot(c, s).base[1] = END
  PROVE  Matches(c, w) = {}
<1> SUFFICES ASSUME NEW i \in Matches(c, w) PROVE FALSE
  OBVIOUS
<1>1. i \in 0..(Stop(c) - 1) /\ Live(Slot(c, i)) /\ Named(Slot(c, i), w)
  BY DEF Matches, InUse
<1>2. Stop(c) \in Nat /\ Clear(c, Stop(c))
  BY StopIs, SlotsNat
<1>3. i \notin 0..(s - 1)
  BY <1>1 DEF Misses
<1>4. s \in 0..(Stop(c) - 1)
  BY <1>1, <1>2, <1>3
<1> QED
  BY <1>2, <1>4 DEF Clear
----------------------------------------------------------------------------
(* Paths.                                                                  *)

(* What the components of a path lead to, one after the other.             *)
Leads == [entry : {RootEntry} \cup {Slot(c, i) : c \in Nat, i \in Nat},
          error : {"NONE", "NOTDIR", "NOENT"}]

LEMMA FromZero == \A n : 0..n \in SUBSET Nat
OBVIOUS

LEMMA InUseNat == \A c, w : InUse(c) \in SUBSET Nat /\ Matches(c, w) \in SUBSET Nat
BY FromZero DEF InUse, Matches

LEMMA LeadsIs ==
  ASSUME Meant, NEW r \in Leads
  PROVE  r.entry.cluster \in Nat
<1>1. CASE r.entry = RootEntry
  <2>1. RootEntry.cluster = IF Type = 32 THEN BPB.root_cluster ELSE 0
    BY DEF RootEntry, Blank, BPB
  <2> QED
    BY <1>1, <2>1, Fields
<1>2. CASE \E c \in Nat, i \in Nat : r.entry = Slot(c, i)
  BY <1>2, SlotIs
<1> QED
  BY <1>1, <1>2 DEF Leads

LEMMA BelowLeads ==
  ASSUME Meant, NEW r \in Leads, NEW w
  PROVE  Below(r, w) \in Leads
<1> DEFINE c == r.entry.cluster  m == Min(Matches(c, w))
<1>1. c \in Nat
  BY LeadsIs
<1>2. r.entry \in {RootEntry} \cup {Slot(x, i) : x \in Nat, i \in Nat}
  BY DEF Leads
<1>3. CASE r.error # "NONE" \/ ~IsDirectory(r.entry) \/ Matches(c, w) = {}
  <2>1. Below(r, w) \in {r, Found(r.entry, "NOTDIR"), Found(r.entry, "NOENT")}
    BY <1>3 DEF Below
  <2>2. Found(r.entry, "NOTDIR") \in Leads /\ Found(r.entry, "NOENT") \in Leads
    BY <1>2 DEF Found, Leads
  <2> QED
    BY <2>1, <2>2
<1>4. CASE ~(r.error # "NONE" \/ ~IsDirectory(r.entry) \/ Matches(c, w) = {})
  <2>1. Below(r, w) = Found(Slot(c, m), "NONE")
    BY <1>4 DEF Below
  <2>2. m \in Nat
    <3>1. Matches(c, w) \in SUBSET Nat /\ Matches(c, w) # {}
      BY <1>4, InUseNat
    <3>2. m \in Matches(c, w)
      BY <3>1, MinIs
    <3> QED
      BY <3>1, <3>2
  <2> HIDE DEF m
  <2>3. Found(Slot(c, m), "NONE") \in Leads
    BY <1>1, <2>2 DEF Found, Leads
  <2> QED
    BY <2>1, <2>3
<1> QED
  BY <1>3, <1>4

LEMMA ReachedIs ==
  ASSUME Meant, NEW path
  PROVE  /\ Reached(path)[0] = Found(RootEntry, "NONE")
         /\ \A k \in Nat : /\ Reached(path)[k] \in Leads
                           /\ Reached(path)[k + 1] = Below(Reached(path)[k], path.names[k + 1])
<1> DEFINE f0 == Found(RootEntry, "NONE")
           g == [k \in Nat |-> [r \in Leads |-> Below(r, path.names[k + 1])]]
           at[k \in Nat] == IF k = 0 THEN f0 ELSE Below(at[k - 1], path.names[k])
<1>1. f0 \in Leads
  BY DEF Found, Leads
<1>2. \A k \in Nat : \A r \in Leads : Below(r, path.names[k + 1]) \in Leads
  BY BelowLeads
<1>3. g \in [Nat -> [Leads -> Leads]]
  BY <1>2
<1>4. \A k \in Nat : \A r \in Leads : g[k][r] = Below(r, path.names[k + 1])
  OBVIOUS
<1>5. Reached(path) = at
  BY DEF Reached
<1> HIDE DEF f0, g
<1>6. PICK h : GoesOnForEver(h, Leads, f0, g)
  BY <1>1, <1>3, GoesOnThere
<1>7. h \in [Nat -> Leads] /\ h[0] = f0 /\ \A i \in Nat : h[i + 1] = g[i][h[i]]
  BY <1>6 DEF GoesOnForEver
<1>8. \A i \in Nat : h[i + 1] = Below(h[i], path.names[i + 1])
  BY <1>4, <1>7
<1>9. ASSUME NEW k \in Nat
      PROVE  h[k] = IF k = 0 THEN f0 ELSE Below(h[k - 1], path.names[k])
  <2>1. CASE k = 0
    BY <1>7, <2>1
  <2>2. CASE k # 0
    <3>1. k - 1 \in Nat /\ (k - 1) + 1 = k
      BY <2>2
    <3>2. h[(k - 1) + 1] = Below(h[k - 1], path.names[(k - 1) + 1])
      BY <1>8, <3>1
    <3> QED
      BY <2>2, <3>1, <3>2
  <2> QED
    BY <2>1, <2>2
<1>10. h = [k \in Nat |-> IF k = 0 THEN f0 ELSE Below(h[k - 1], path.names[k])]
  BY <1>7, <1>9
<1>11. at = [k \in Nat |-> IF k = 0 THEN f0 ELSE Below(at[k - 1], path.names[k])]
  BY <1>10
<1> HIDE DEF at
<1>12. ASSUME NEW k \in Nat
       PROVE  at[k] = IF k = 0 THEN f0 ELSE Below(at[k - 1], path.names[k])
  BY <1>11
<1>13. at[0] = f0
  BY <1>12
<1>14. ASSUME NEW k \in Nat PROVE at[k + 1] = Below(at[k], path.names[k + 1])
  <2>1. k + 1 \in Nat /\ k + 1 # 0 /\ (k + 1) - 1 = k
    OBVIOUS
  <2>2. at[k + 1] = Below(at[(k + 1) - 1], path.names[k + 1])
    BY <1>12, <2>1
  <2> QED
    BY <2>1, <2>2
<1>15. \A k \in Nat : at[k] \in Leads
  <2> DEFINE T == {k \in Nat : at[k] \notin Leads}
  <2> SUFFICES ASSUME T # {} PROVE FALSE
    OBVIOUS
  <2>1. PICK j \in T : \A l \in T : j <= l
    <3>1. T \in SUBSET Nat
      OBVIOUS
    <3> HIDE DEF T
    <3> QED
      BY <3>1, LeastElement
  <2>2. j \in Nat /\ j # 0
    BY <1>1, <1>13, <2>1
  <2>3. j - 1 \in Nat /\ (j - 1) + 1 = j /\ ~ (j <= j - 1)
    BY <2>2
  <2>4. j - 1 \notin T
    <3> HIDE DEF T
    <3> QED
      BY <2>1, <2>3
  <2>5. at[j - 1] \in Leads
    BY <2>3, <2>4
  <2>6. at[(j - 1) + 1] = Below(at[j - 1], path.names[(j - 1) + 1])
    BY <1>14, <2>3
  <2>7. at[j] \in Leads
    BY <2>3, <2>5, <2>6, BelowLeads
  <2> QED
    BY <2>1, <2>7
<1> QED
  BY <1>5, <1>13, <1>14, <1>15 DEF f0

(* All this stays with the volume.                                         *)
LEMMA SameTree ==
  ASSUME name' = name
  PROVE  /\ Dirs' = Dirs /\ (Circular' <=> Circular) /\ RootEntry' = RootEntry /\ Type' = Type
         /\ \A c, i : Slot(c, i)' = Slot(c, i)
         /\ \A c : InUse(c)' = InUse(c) /\ (Places(c)' <=> Places(c))
         /\ \A path : Reached(path)' = Reached(path)
         /\ \A op, path : Outcome(op, path)' = Outcome(op, path)
         /\ \A c, s : Clear(c, s)' <=> Clear(c, s)
         /\ \A c, w, s : Misses(c, w, s)' <=> Misses(c, w, s)
         /\ \A it, c, s : Standing(it, c, s)' <=> Standing(it, c, s)
<1>1. vol' = vol
  BY DEF vol
<1>2. Type' = Type /\ Room' = Room /\ Dirs' = Dirs /\ BPB' = BPB
  BY <1>1 DEF Type, Room, Dirs, BPB
<1>3. \A c : Follow(c)' = Follow(c)
  BY <1>1, Zenon DEF Follow
<1>4. \A c, i : Nth(c, i)' = Nth(c, i)
  BY <1>1, Zenon DEF Nth
<1>5. \A c, i : Slot(c, i)' = Slot(c, i)
  BY <1>2, <1>3, <1>4, Zenon DEF Slot
<1>6. \A c : Slots(c)' = Slots(c)
  BY <1>1, <1>2, Zenon DEF Slots
<1>7. \A c : Stop(c)' = Stop(c)
  BY <1>5, <1>6, Zenon DEF Stop
<1>8. \A c : InUse(c)' = InUse(c)
  BY <1>5, <1>7, Zenon DEF InUse
<1>9. \A c, w : Matches(c, w)' = Matches(c, w)
  BY <1>5, <1>8, Zenon DEF Matches
<1>10. RootEntry' = RootEntry
  BY <1>1, <1>2, Zenon DEF RootEntry
<1>11. \A r, w : Below(r, w)' = Below(r, w)
  BY <1>5, <1>9, Zenon DEF Below
<1>12. \A path : Reached(path)' = Reached(path)
  BY <1>10, <1>11, Zenon DEF Reached
<1>13. \A op, path : Outcome(op, path)' = Outcome(op, path)
  BY <1>12, Zenon DEF Outcome
<1>14. Circular' <=> Circular
  BY <1>1, <1>3, Zenon DEF Circular
<1>15. \A c : Places(c)' <=> Places(c)
  BY <1>1, <1>2 DEF Places
<1>16. \A c, s : Clear(c, s)' <=> Clear(c, s)
  BY <1>5, Zenon DEF Clear
<1>17. \A c, w, s : Misses(c, w, s)' <=> Misses(c, w, s)
  BY <1>5, Zenon DEF Misses
<1>18. \A it, c, s : Standing(it, c, s)' <=> Standing(it, c, s)
  BY <1>2, <1>3 DEF Standing
<1> QED
  BY <1>2, <1>5, <1>8, <1>10, <1>12, <1>13, <1>14, <1>15, <1>16, <1>17, <1>18

LEMMA RootFields == /\ RootEntry.cluster = (IF Type = 32 THEN BPB.root_cluster ELSE 0)
                    /\ IsDirectory(RootEntry)
<1>2. RootEntry.cluster = (IF Type = 32 THEN BPB.root_cluster ELSE 0)
  BY DEF RootEntry, Blank, BPB
<1>3. RootEntry.attr = {"DIR"}
  BY DEF RootEntry, Blank
<1> QED
  BY <1>2, <1>3 DEF IsDirectory, IsVolumeId

(* Where an iterator is at first.                                          *)
LEMMA StandsFirst ==
  ASSUME Mounted, NEW c \in Dirs, NEW it, it.root16_12 = FALSE, it.cluster = c, it.offset = 0
  PROVE  Standing(it, c, 0) /\ Places(c)
<1>1. Room \in Nat \ {0} /\ OnVolume /\ c \in Nat
  BY Driver, RoomIs, TreeIs DEF Meant
<1>2. Follow(c)[0] = c
  BY <1>1, FollowIs
<1>3. 0 \in Nat /\ 0 \in 0..Room /\ 0 = 32 * 0 /\ 0 = 0 * Room + 0
  BY <1>1
<1> QED
  BY <1>2, <1>3 DEF Standing, Places

LEMMA StandsAtRoot ==
  Mounted => Standing(AtRoot, RootEntry.cluster, 0) /\ Places(RootEntry.cluster)
<1> SUFFICES ASSUME Mounted
    PROVE  Standing(AtRoot, RootEntry.cluster, 0) /\ Places(RootEntry.cluster)
  OBVIOUS
<1>1. /\ AtRoot.root16_12 = (fs.type # 32) /\ AtRoot.cluster = fs.root_cluster
      /\ AtRoot.offset = 0 /\ AtRoot.r_entry = 0 /\ AtRoot.count = fs.root_entry_count
  BY DEF AtRoot
<1>2. fs.type = Type /\ Meant
  BY Driver
<1>3. fs.root_cluster = BPB.root_cluster /\ fs.root_entry_count = BPB.root_entry_count
  BY DEF Mounted, FileSystem
<1>4. CASE Type = 32
  <2>1. BPB.root_cluster \in Dirs /\ RootEntry.cluster = BPB.root_cluster
    BY <1>2, <1>4, TreeIs, RootFields
  <2> QED
    BY <1>1, <1>2, <1>3, <1>4, <2>1, StandsFirst
<1>5. CASE Type # 32
  <2>1. 0 \in DOMAIN vol.dir /\ RootEntry.cluster = 0
    BY <1>2, <1>5, TreeIs, RootFields
  <2>2. 0 = 32 * 0 /\ 0 \in Nat
    OBVIOUS
  <2> QED
    BY <1>1, <1>2, <1>3, <1>5, <2>1, <2>2 DEF Standing, Places
<1> QED
  BY <1>4, <1>5

(* A directory that a name other than dots leads to is in the data area.   *)
LEMMA LeadsDown ==
  ASSUME Meant, NEW c, NEW s \in Nat, NEW e, e = Slot(c, s), e.base[1] # END,
         NEW w \in Seq(STRING), w \notin Dots, Named(e, w), IsDirectory(e)
  PROVE  e.cluster \in Dirs
<1>1. ShortName(e) /\ (e.cluster \in Dirs \/ AllocSFN(e) = <<".", ".">>)
  BY SlotIs
<1>2. w \in Seq(Signs)
  BY DEF Signs
<1> QED
  BY <1>1, <1>2, UpIsDots

(* What a turn of a search has to do with the meaning of the path.         *)
Hits(t, w) == t.what = "entry" /\ ~IsVolumeId(t.it.entry) /\ FilenameCmp(w, t.it.entry)

LEMMA TurnNamed ==
  ASSUME Meant, NEW c, NEW s \in Nat, NEW t, Judged(t, c, s), NEW w \in Seq(STRING),
         Slot(c, s).base[1] # END
  PROVE  Hits(t, w) <=> Live(Slot(c, s)) /\ Named(Slot(c, s), w)
<1> DEFINE e == Slot(c, s)
<1>1. t.what = (IF e.base[1] = FREE \/ IsLfn(e) THEN "skip" ELSE "entry") /\ t.it.entry = e
  BY DEF Judged
<1>2. ShortName(e) /\ e.base[1] # END
  BY SlotIs
<1>3. IsLfn(e) => IsVolumeId(e)
  BY DEF IsLfn, IsVolumeId
<1>4. w \in Seq(Signs)
  BY DEF Signs
<1>5. e.base[1] # FREE => (FilenameCmp(w, e) <=> Named(e, w))
  <2> HIDE DEF e
  <2> QED
    BY <1>2, <1>4, CmpNamed
<1> HIDE DEF e
<1>6. t.what = "entry" /\ ~IsVolumeId(e) <=> Live(e)
  BY <1>1, <1>3 DEF Live
<1>7. Live(e) => e.base[1] # FREE
  BY DEF Live
<1> QED
  BY <1>1, <1>5, <1>6, <1>7 DEF e, Hits

(* An error stays to the end of the path.                                  *)
LEMMA Persists ==
  ASSUME Meant, NEW path, NEW k \in Nat, Reached(path)[k].error # "NONE", NEW n \in Nat, k <= n
  PROVE  Reached(path)[n] = Reached(path)[k]
<1> DEFINE r == Reached(path)[k]
           T == {i \in Nat : k <= i /\ Reached(path)[i] # r}
<1> SUFFICES ASSUME T # {} PROVE FALSE
  OBVIOUS
<1>1. PICK j \in T : \A l \in T : j <= l
  <2>1. T \in SUBSET Nat
    OBVIOUS
  <2> HIDE DEF T
  <2> QED
    BY <2>1, LeastElement
<1>2. j \in Nat /\ k <= j /\ Reached(path)[j] # r
  BY <1>1
<1>3. j # k
  BY <1>2
<1>4. j - 1 \in Nat /\ k <= j - 1 /\ (j - 1) + 1 = j /\ ~(j <= j - 1)
  BY <1>2, <1>3
<1>5. Reached(path)[j - 1] = r
  <2>1. j - 1 \notin T
    <3> HIDE DEF T
    <3> QED
      BY <1>1, <1>4
  <2> QED
    BY <1>4, <2>1
<1>6. Reached(path)[(j - 1) + 1] = Below(r, path.names[(j - 1) + 1])
  BY <1>4, <1>5, ReachedIs
<1>7. Below(r, path.names[(j - 1) + 1]) = r
  BY DEF Below
<1> QED
  BY <1>2, <1>4, <1>6, <1>7

(* The search of a path before its component k: the ones before led to a   *)
(* directory, which has nothing of this name up to where the iterator is.  *)
Plain(path) == Safe(Dirs) /\ ToSet(path.names) \cap Dots = {}
InDir(r, w, it) ==
  /\ IsDirectory(r.entry) /\ Places(r.entry.cluster)
  /\ \E s \in Nat : Standing(it, r.entry.cluster, s) /\ Misses(r.entry.cluster, w, s)
AtTarget(r, path, it) ==
  /\ it.entry = r.entry /\ ~IsVolumeId(r.entry)
  /\ path.slash => IsDirectory(r.entry)
  /\ IsDirectory(r.entry) => r.entry.cluster \in Dirs
OnPath(path, k, it) ==
  /\ k >= 1 /\ k <= Len(path.names) + 1 /\ Reached(path)[k - 1].error = "NONE"
  /\ k <= Len(path.names) => InDir(Reached(path)[k - 1], path.names[k], it)
  /\ k = Len(path.names) + 1 /\ path.names # <<>> => AtTarget(Reached(path)[k - 1], path, it)

LEMMA PathIs ==
  ASSUME NEW path \in Paths
  PROVE  /\ Len(path.names) \in Nat /\ (path.names = <<>> <=> Len(path.names) = 0)
         /\ \A k \in Nat : k >= 1 /\ k <= Len(path.names) =>
              /\ path.names[k] \in Seq(STRING)
              /\ ToSet(path.names) \cap Dots = {} => path.names[k] \notin Dots
<1>1. path.names \in Seq(Seq(STRING))
  BY PathsAssumption
<1>2. Len(path.names) \in Nat /\ (path.names = <<>> <=> Len(path.names) = 0)
  BY <1>1
<1>3. ASSUME NEW k \in Nat, k >= 1, k <= Len(path.names)
      PROVE  /\ path.names[k] \in Seq(STRING)
             /\ ToSet(path.names) \cap Dots = {} => path.names[k] \notin Dots
  <2>1. k \in DOMAIN path.names /\ path.names[k] \in Seq(STRING)
    BY <1>1, <1>2, <1>3
  <2>2. path.names[k] \in ToSet(path.names)
    BY <2>1 DEF ToSet
  <2> QED
    BY <2>1, <2>2
<1> QED
  BY <1>2, <1>3

LEMMA SearchStarts ==
  ASSUME Mounted, NEW path \in Paths
  PROVE  OnPath(path, 1, AtRoot)
<1> DEFINE r == Reached(path)[0]
<1>1. r = Found(RootEntry, "NONE")
  BY Driver, ReachedIs
<1>2. r.entry = RootEntry /\ r.error = "NONE"
  BY <1>1 DEF Found
<1> HIDE DEF r
<1>3. IsDirectory(r.entry) /\ Places(r.entry.cluster) /\ Standing(AtRoot, r.entry.cluster, 0)
  BY <1>2, RootFields, StandsAtRoot
<1>4. Misses(r.entry.cluster, path.names[1], 0)
  BY DEF Misses
<1>5. InDir(r, path.names[1], AtRoot)
  <2>1. 0 \in Nat
    OBVIOUS
  <2> QED
    BY <1>3, <1>4, <2>1 DEF InDir
<1>6. 1 - 1 = 0 /\ 1 >= 1 /\ 1 <= Len(path.names) + 1
      /\ (1 = Len(path.names) + 1 => path.names = <<>>)
  BY PathIs
<1> QED
  BY <1>2, <1>5, <1>6 DEF OnPath, r

(* The turns of a search.                                                  *)
LEMMA SearchTurn ==
  ASSUME Mounted, NEW path \in Paths, Plain(path), NEW k \in Nat, NEW it \in Iter(vol),
         OnPath(path, k, it), k <= Len(path.names), NEW t, t = NextTurn(it), t.what # "fail",
         NEW r, r = Reached(path)[k - 1], NEW e, e = t.it.entry
  PROVE  /\ t.what = "end" => Reached(path)[k] = Found(r.entry, "NOENT")
         /\ Hits(t, path.names[k]) =>
              Reached(path)[k] = Found(e, "NONE") /\ (IsDirectory(e) => e.cluster \in Dirs)
         /\ t.what \in {"skip", "entry"} /\ ~Hits(t, path.names[k]) => OnPath(path, k, t.it)
<1> DEFINE w == path.names[k]  c == r.entry.cluster  hit == Hits(t, w)
<1> SUFFICES /\ t.what = "end" => Reached(path)[k] = Found(r.entry, "NOENT")
             /\ hit => Reached(path)[k] = Found(e, "NONE") /\ (IsDirectory(e) => e.cluster \in Dirs)
             /\ t.what \in {"skip", "entry"} /\ ~hit => OnPath(path, k, t.it)
  OBVIOUS
<1>1. Meant /\ Safe(Dirs) /\ w \in Seq(STRING) /\ w \notin Dots /\ k - 1 \in Nat /\ (k - 1) + 1 = k
  <2>1. k >= 1
    BY DEF OnPath
  <2> QED
    BY <2>1, Driver, PathIs DEF Plain
<1>2. r.error = "NONE" /\ IsDirectory(r.entry) /\ Places(c)
  BY DEF OnPath, InDir
<1>3. PICK s \in Nat : Standing(it, c, s) /\ Misses(c, w, s)
  BY DEF OnPath, InDir
<1>4. Reached(path)[k] = Below(r, w)
  BY <1>1, ReachedIs
<1>5. Below(r, w) = IF Matches(c, w) = {} THEN Found(r.entry, "NOENT")
                    ELSE Found(Slot(c, Min(Matches(c, w))), "NONE")
  BY <1>2 DEF Below
<1> HIDE DEF c, w, hit
<1>6. Judged(t, c, s)
  BY <1>1, <1>3, TurnIs
<1>7. CASE Slot(c, s).base[1] = END
  <2>1. t.what = "end" /\ ~hit
    BY <1>6, <1>7 DEF Judged, hit, Hits
  <2>2. Matches(c, w) = {}
    BY <1>1, <1>2, <1>3, <1>7, NoMatch
  <2> QED
    BY <1>4, <1>5, <2>1, <2>2
<1>8. CASE Slot(c, s).base[1] # END
  <2>1. t.what \in {"skip", "entry"} /\ e = Slot(c, s) /\ Standing(t.it, c, s + 1)
    BY <1>6, <1>8 DEF Judged
  <2>2. hit <=> Live(Slot(c, s)) /\ Named(Slot(c, s), w)
    BY <1>1, <1>6, <1>8, TurnNamed DEF hit
  <2>3. ASSUME hit PROVE Reached(path)[k] = Found(e, "NONE") /\ (IsDirectory(e) => e.cluster \in Dirs)
    <3>1. Matches(c, w) # {} /\ Min(Matches(c, w)) = s
      BY <1>1, <1>2, <1>3, <1>8, <2>2, <2>3, FirstMatch
    <3>2. IsDirectory(e) => e.cluster \in Dirs
      BY <1>1, <1>8, <2>1, <2>2, <2>3, LeadsDown
    <3> QED
      BY <1>4, <1>5, <2>1, <3>1, <3>2
  <2>4. ASSUME ~hit PROVE OnPath(path, k, t.it)
    <3>1. Misses(c, w, s + 1)
      <4>1. \A j \in 0..((s + 1) - 1) : j \in 0..(s - 1) \/ j = s
        OBVIOUS
      <4> QED
        BY <1>3, <1>8, <2>2, <2>4, <4>1 DEF Misses
    <3>2. s + 1 \in Nat
      OBVIOUS
    <3>3. InDir(r, w, t.it)
      BY <1>2, <2>1, <3>1, <3>2 DEF InDir, c
    <3>4. ~(k = Len(path.names) + 1)
      BY PathIs
    <3> QED
      BY <3>3, <3>4 DEF OnPath, w
  <2> QED
    BY <2>1, <2>3, <2>4
<1> QED
  BY <1>7, <1>8

LEMMA SearchHits ==
  ASSUME Mounted, NEW path \in Paths, NEW k \in Nat, NEW it \in Iter(vol), NEW e, e = it.entry,
         ~IsVolumeId(e), k >= 1, k <= Len(path.names),
         Reached(path)[k] = Found(e, "NONE"), IsDirectory(e) => e.cluster \in Dirs
  PROVE  /\ k < Len(path.names) \/ path.slash =>
              /\ IsDirectory(e) => OnPath(path, k + 1, Reset(it, e))
              /\ ~IsDirectory(e) => \A op : Outcome(op, path).error = "NOTDIR"
         /\ ~(k < Len(path.names) \/ path.slash) => OnPath(path, k + 1, it)
<1> DEFINE n == Len(path.names)  r == Reached(path)[k]
<1>1. n \in Nat /\ path.names # <<>> /\ (k + 1) - 1 = k /\ k + 1 >= 1 /\ k + 1 <= n + 1
  BY PathIs
<1>2. r.entry = e /\ r.error = "NONE" /\ Meant
  BY Driver DEF Found
<1> HIDE DEF r
<1>3. ASSUME k < n \/ path.slash, IsDirectory(e) PROVE OnPath(path, k + 1, Reset(it, e))
  <2> DEFINE back == Reset(it, e)
  <2>1. back.entry = e /\ back.root16_12 = FALSE /\ back.cluster = e.cluster /\ back.offset = 0
    BY DEF Reset, Iter
  <2> HIDE DEF back
  <2>2. Standing(back, e.cluster, 0) /\ Places(e.cluster)
    BY <1>3, <2>1, StandsFirst
  <2>3. Misses(e.cluster, path.names[k + 1], 0)
    BY DEF Misses
  <2>4. InDir(r, path.names[k + 1], back)
    <3>1. 0 \in Nat
      OBVIOUS
    <3> QED
      BY <1>2, <1>3, <2>2, <2>3, <3>1 DEF InDir
  <2>5. AtTarget(r, path, back)
    BY <1>2, <1>3, <2>1 DEF AtTarget
  <2> QED
    BY <1>1, <1>2, <2>4, <2>5 DEF OnPath, r, back, n
<1>4. ASSUME ~(k < n \/ path.slash) PROVE OnPath(path, k + 1, it)
  <2>1. AtTarget(r, path, it)
    BY <1>2, <1>4 DEF AtTarget
  <2>2. ~(k + 1 <= n)
    BY <1>1, <1>4
  <2> QED
    BY <1>1, <1>2, <2>1, <2>2 DEF OnPath, r, n
<1>5. ASSUME k < n \/ path.slash, ~IsDirectory(e), NEW op PROVE Outcome(op, path).error = "NOTDIR"
  <2>1. CASE k < n
    <3>1. Reached(path)[k + 1] = Below(r, path.names[k + 1])
      BY <1>2, ReachedIs DEF r
    <3>2. Below(r, path.names[k + 1]) = Found(e, "NOTDIR")
      BY <1>2, <1>5 DEF Below
    <3>3. Reached(path)[k + 1].error = "NOTDIR"
      BY <3>1, <3>2 DEF Found
    <3>4. k + 1 \in Nat /\ k + 1 <= n
      BY <1>1, <2>1
    <3>5. Reached(path)[n] = Reached(path)[k + 1]
      BY <1>1, <1>2, <3>3, <3>4, Persists
    <3> QED
      BY <3>3, <3>5 DEF Outcome, n
  <2>2. CASE ~(k < n)
    <3>1. k = n /\ path.slash
      BY <1>1, <1>5, <2>2
    <3>2. Outcome(op, path) = Found(e, "NOTDIR")
      BY <1>2, <1>5, <3>1 DEF Outcome, n, r
    <3> QED
      BY <3>2 DEF Found
  <2> QED
    BY <2>1, <2>2
<1> QED
  BY <1>3, <1>4, <1>5 DEF n

SearchInv ==
  call.op \in {"open", "opendir"} /\ Plain(call.path) => OnPath(call.path, call.k, call.it)

(* What a call that has opened f may answer.                               *)
Says(op, path, error, f) ==
  Plain(path) =>
    /\ error = Outcome(op, path).error
    /\ op = "open" /\ error = "NONE" /\ f # None =>
         f.size = Outcome(op, path).entry.size /\ f.cluster = Outcome(op, path).entry.cluster

LEMMA SameSearch ==
  ASSUME name' = name, fs' = fs
  PROVE  /\ \A path : Plain(path)' <=> Plain(path)
         /\ \A path, k, it : OnPath(path, k, it)' <=> OnPath(path, k, it)
         /\ \A op, path : Outcome(op, path)' = Outcome(op, path)
<1>1. /\ Dirs' = Dirs /\ \A path : Reached(path)' = Reached(path)
      /\ \A c : Places(c)' <=> Places(c)
      /\ \A c, w, s : Misses(c, w, s)' <=> Misses(c, w, s)
      /\ \A it, c, s : Standing(it, c, s)' <=> Standing(it, c, s)
      /\ \A op, path : Outcome(op, path)' = Outcome(op, path)
  BY SameTree
<1>2. \A clusters : Safe(clusters)' = Safe(clusters)
  BY SameVolume
<1>3. Safe(Dirs)' <=> Safe(Dirs)
  BY <1>1, <1>2
<1>4. \A path : Plain(path)' <=> Plain(path)
  BY <1>3 DEF Plain
<1>5. \A r, w, it : InDir(r, w, it)' <=> InDir(r, w, it)
  BY <1>1 DEF InDir
<1>6. \A r, path, it : AtTarget(r, path, it)' <=> AtTarget(r, path, it)
  BY <1>1 DEF AtTarget
<1>7. \A path, k, it : OnPath(path, k, it)' <=> OnPath(path, k, it)
  BY <1>1, <1>5, <1>6 DEF OnPath
<1> QED
  BY <1>1, <1>4, <1>7

LEMMA FindsIs ==
  FindsPath <=> (answer.op \in {"open", "opendir"} /\ answer.error \notin {"IO", "NOMEM"}
                   => Says(answer.op, answer.path, answer.error, file))
BY DEF FindsPath, Says, Plain, Dirs

LEMMA FindsIsNext ==
  FindsPath' <=> (answer'.op \in {"open", "opendir"} /\ answer'.error \notin {"IO", "NOMEM"}
                    => Says(answer.op, answer.path, answer.error, file)')
BY DEF FindsPath, Says, Plain, Dirs

(* Steps that answer nothing, or nothing of a search.                      *)
LEMMA FindsStill ==
  ASSUME FindsPath, name' = name, fs' = fs, answer' = answer,
         file' # None => file # None /\ file'.size = file.size /\ file'.cluster = file.cluster
  PROVE  FindsPath'
<1>1. /\ \A path : Plain(path)' <=> Plain(path)
      /\ \A op, path : Outcome(op, path)' = Outcome(op, path)
  BY SameSearch
<1>2. \A op, path, error, f : Says(op, path, error, f)' <=> Says(op, path, error, f)
  BY <1>1 DEF Says
<1>3. answer.op \in {"open", "opendir"} /\ answer.error \notin {"IO", "NOMEM"}
                   => Says(answer.op, answer.path, answer.error, file)
  BY FindsIs
<1>4. Says(answer.op, answer.path, answer.error, file) => Says(answer.op, answer.path, answer.error, file')
  BY DEF Says
<1>5. FindsPath' <=> (answer'.op \in {"open", "opendir"} /\ answer'.error \notin {"IO", "NOMEM"}
                        => Says(answer.op, answer.path, answer.error, file)')
  BY FindsIsNext
<1> QED
  BY <1>2, <1>3, <1>4, <1>5

LEMMA FindsNothing ==
  ASSUME answer'.op \notin {"open", "opendir"} \/ answer'.error \in {"IO", "NOMEM"}
  PROVE  FindsPath'
BY DEF FindsPath

LEMMA FindsThis ==
  ASSUME name' = name, fs' = fs, NEW op, NEW path, NEW error,
         answer' = [op |-> op, path |-> path, error |-> error], Says(op, path, error, file')
  PROVE  FindsPath'
<1>1. /\ \A x : Plain(x)' <=> Plain(x)
      /\ \A o, x : Outcome(o, x)' = Outcome(o, x)
  BY SameSearch
<1>2. \A o, x, e, f : Says(o, x, e, f)' <=> Says(o, x, e, f)
  BY <1>1 DEF Says
<1>3. FindsPath' <=> (answer'.op \in {"open", "opendir"} /\ answer'.error \notin {"IO", "NOMEM"}
                        => Says(answer.op, answer.path, answer.error, file)')
  BY FindsIsNext
<1>4. answer'.op = op /\ answer'.path = path /\ answer'.error = error
  OBVIOUS
<1>5. Says(answer.op, answer.path, answer.error, file)' <=> Says(op, path, error, file')
  BY <1>2, <1>4
<1> QED
  BY <1>3, <1>5

LEMMA NoSearch ==
  ASSUME call'.op \notin {"open", "opendir"}
  PROVE  SearchInv'
BY DEF SearchInv

LEMMA StillSearches ==
  ASSUME SearchInv, name' = name, fs' = fs, call' = call
  PROVE  SearchInv'
<1>1. /\ \A path : Plain(path)' <=> Plain(path)
      /\ \A path, k, it : OnPath(path, k, it)' <=> OnPath(path, k, it)
  BY SameSearch
<1> QED
  BY <1>1 DEF SearchInv

LEMMA SearchesOn ==
  ASSUME name' = name, fs' = fs, Plain(call'.path) => OnPath(call'.path, call'.k, call'.it)
  PROVE  SearchInv'
<1>1. /\ \A path : Plain(path)' <=> Plain(path)
      /\ \A path, k, it : OnPath(path, k, it)' <=> OnPath(path, k, it)
  BY SameSearch
<1> QED
  BY <1>1 DEF SearchInv

LEMMA RefusesThis ==
  ASSUME SearchInv, FindsPath, name' = name, fs' = fs, NEW error, Refuse(error),
         error \in {"IO", "NOMEM"} \/ Says(call.op, call.path, error, file')
  PROVE  SearchInv' /\ FindsPath'
<1>1. call' = Idle /\ answer' = [op |-> call.op, path |-> call.path, error |-> error]
  BY DEF Refuse, Return
<1>2. SearchInv'
  <2>1. call'.op = "idle"
    BY <1>1 DEF Idle
  <2> QED
    BY <2>1, NoSearch
<1>3. CASE error \in {"IO", "NOMEM"}
  <2>1. answer'.error = error
    BY <1>1
  <2> QED
    BY <1>2, <1>3, <2>1, FindsNothing
<1>4. CASE Says(call.op, call.path, error, file')
  BY <1>1, <1>2, <1>4, FindsThis
<1> QED
  BY <1>3, <1>4

LEMMA FoundSearch == FatTypes /\ SearchInv /\ FindsPath /\ Search => SearchInv' /\ FindsPath'
<1> SUFFICES ASSUME FatTypes, SearchInv, FindsPath, Search PROVE SearchInv' /\ FindsPath'
  OBVIOUS
<1> DEFINE path == call.path
           k == call.k
           n == Len(path.names)
           t == NextTurn(call.it)
           e == t.it.entry
           more == k < n \/ path.slash
           hit == Hits(t, path.names[k])
           onward == IF more THEN Reset(t.it, e) ELSE t.it
<1>1. name' = name /\ fs' = fs /\ file' = file /\ call.op \in {"open", "opendir"} /\ k <= n
  BY DEF Search, Searching
<1>2. Mounted /\ call \in Searches(vol)
  BY <1>1 DEF FatTypes
<1>3. path \in Paths /\ k \in Nat /\ call.it \in Iter(vol)
  BY <1>2 DEF Searches
<1>4. t.it \in Iter(vol)
  BY <1>2, <1>3, TurnsIt
<1>5. \/ t.what = "fail" /\ Refuse("IO")
      \/ t.what = "end" /\ Refuse("NOENT")
      \/ hit /\ more /\ ~IsDirectory(e) /\ Refuse("NOTDIR")
      \/ /\ hit /\ (more => IsDirectory(e)) /\ answer' = answer
         /\ call' = [call EXCEPT !.k = @ + 1, !.it = onward]
      \/ /\ t.what \in {"skip", "entry"} /\ ~hit /\ answer' = answer
         /\ call' = [call EXCEPT !.it = t.it]
  BY DEF Search, Hits
<1>6. OnPath(path, k, call.it) \/ ~Plain(path)
  BY <1>1 DEF SearchInv
<1> HIDE DEF path, k
<1>7. ASSUME Plain(path), t.what # "fail"
      PROVE  /\ t.what = "end" => Reached(path)[k] = Found(Reached(path)[k - 1].entry, "NOENT")
             /\ hit => Reached(path)[k] = Found(e, "NONE") /\ (IsDirectory(e) => e.cluster \in Dirs)
             /\ t.what \in {"skip", "entry"} /\ ~hit => OnPath(path, k, t.it)
  <2>1. OnPath(path, k, call.it)
    BY <1>6, <1>7
  <2> QED
    BY <1>1, <1>2, <1>3, <1>7, <2>1, SearchTurn
<1>8. ASSUME Plain(path), hit
      PROVE  /\ more => /\ IsDirectory(e) => OnPath(path, k + 1, Reset(t.it, e))
                        /\ ~IsDirectory(e) => \A op : Outcome(op, path).error = "NOTDIR"
             /\ ~more => OnPath(path, k + 1, t.it)
  <2>1. k >= 1
    BY <1>6, <1>8 DEF OnPath
  <2>2. t.what # "fail" /\ ~IsVolumeId(e)
    BY <1>8 DEF Hits
  <2>3. Reached(path)[k] = Found(e, "NONE") /\ (IsDirectory(e) => e.cluster \in Dirs)
    BY <1>7, <1>8, <2>2
  <2> HIDE DEF hit, t
  <2> QED
    BY <1>1, <1>2, <1>3, <1>4, <2>1, <2>2, <2>3, SearchHits
<1>9. k + 1 \in Nat
  BY <1>3
<1>10. \A x, it : /\ [call EXCEPT !.k = x, !.it = it].path = path
                  /\ [call EXCEPT !.k = x, !.it = it].k = x /\ [call EXCEPT !.k = x, !.it = it].it = it
                  /\ [call EXCEPT !.it = it].path = path
                  /\ [call EXCEPT !.it = it].k = k /\ [call EXCEPT !.it = it].it = it
  BY <1>2 DEF Searches, path, k
<1>11. CASE t.what = "fail" /\ Refuse("IO")
  BY <1>1, <1>11, RefusesThis
<1>12. CASE t.what = "end" /\ Refuse("NOENT")
  <2>1. ASSUME Plain(path) PROVE \A op : Outcome(op, path).error = "NOENT"
    <3>1. Reached(path)[k].error = "NOENT"
      BY <1>7, <1>12, <2>1 DEF Found
    <3>2. n \in Nat /\ Meant
      BY <1>2, <1>3, PathIs, Driver
    <3>3. Reached(path)[n] = Reached(path)[k]
      BY <1>1, <1>3, <3>1, <3>2, Persists
    <3> QED
      BY <3>1, <3>3 DEF Outcome
  <2>2. Says(call.op, call.path, "NOENT", file')
    BY <2>1 DEF Says, path
  <2> QED
    BY <1>1, <1>12, <2>2, RefusesThis
<1>13. CASE hit /\ more /\ ~IsDirectory(e) /\ Refuse("NOTDIR")
  <2>1. Plain(path) => Outcome(call.op, path).error = "NOTDIR"
    BY <1>8, <1>13
  <2>2. Says(call.op, call.path, "NOTDIR", file')
    BY <2>1 DEF Says, path
  <2> QED
    BY <1>1, <1>13, <2>2, RefusesThis
<1>14. CASE /\ hit /\ (more => IsDirectory(e)) /\ answer' = answer
            /\ call' = [call EXCEPT !.k = @ + 1, !.it = onward]
  <2>1. Plain(path) => OnPath(path, k + 1, onward)
    BY <1>8, <1>14
  <2>2. call' = [call EXCEPT !.k = k + 1, !.it = onward]
    BY <1>14 DEF k
  <2> HIDE DEF onward
  <2>3. call'.path = path /\ call'.k = k + 1 /\ call'.it = onward
    BY <1>10, <2>2
  <2>4. SearchInv'
    BY <1>1, <2>1, <2>3, SearchesOn
  <2> QED
    BY <1>1, <1>14, <2>4, FindsStill
<1>15. CASE /\ t.what \in {"skip", "entry"} /\ ~hit /\ answer' = answer
            /\ call' = [call EXCEPT !.it = t.it]
  <2>1. Plain(path) => OnPath(path, k, t.it)
    BY <1>7, <1>15
  <2>2. call'.path = path /\ call'.k = k /\ call'.it = t.it
    BY <1>10, <1>15
  <2>3. SearchInv'
    BY <1>1, <2>1, <2>2, SearchesOn
  <2> QED
    BY <1>1, <1>15, <2>3, FindsStill
<1> QED
  BY <1>5, <1>11, <1>12, <1>13, <1>14, <1>15

(* The end of a search.                                                    *)
LEMMA Arrives ==
  ASSUME FatTypes, SearchInv, call.op \in {"open", "opendir"}, ~Searching, Plain(call.path)
  PROVE  \E r \in Leads :
           /\ r = Reached(call.path)[Len(call.path.names)] /\ r.error = "NONE"
           /\ IsRoot => r.entry = RootEntry
           /\ ~IsRoot => AtTarget(r, call.path, call.it)
<1> DEFINE path == call.path
           k == call.k
           n == Len(path.names)
           r == Reached(path)[n]
<1>1. Meant /\ path \in Paths /\ k \in Nat /\ OnPath(path, k, call.it) /\ ~(k <= n)
  BY Driver DEF FatTypes, Searches, SearchInv, Searching
<1>2. n \in Nat /\ (path.names = <<>> <=> n = 0)
  BY <1>1, PathIs
<1>3. k = n + 1 /\ k - 1 = n
  BY <1>1, <1>2 DEF OnPath
<1>4. r \in Leads
  BY <1>1, <1>2, ReachedIs
<1>5. r.error = "NONE"
  BY <1>1, <1>3 DEF OnPath
<1>6. ASSUME IsRoot PROVE r.entry = RootEntry
  <2>1. r = Found(RootEntry, "NONE")
    BY <1>1, <1>2, <1>6, ReachedIs DEF IsRoot
  <2> QED
    BY <2>1 DEF Found
<1>7. ASSUME ~IsRoot PROVE AtTarget(r, path, call.it)
  BY <1>1, <1>3, <1>7 DEF OnPath, IsRoot
<1> HIDE DEF r
<1> QED
  BY <1>4, <1>5, <1>6, <1>7 DEF r

LEMMA FoundOpen == FatTypes /\ SearchInv /\ FindsPath /\ Open => SearchInv' /\ FindsPath'
<1> SUFFICES ASSUME FatTypes, SearchInv, FindsPath, Open PROVE SearchInv' /\ FindsPath'
  OBVIOUS
<1>1. name' = name /\ fs' = fs /\ call.op = "open" /\ ~Searching
  BY DEF Open
<1> DEFINE o == Outcome("open", call.path)
<1>2. ASSUME Plain(call.path)
      PROVE  /\ IsRoot \/ ~IsFile(Target) => o.error = "ISDIR"
             /\ ~IsRoot /\ IsFile(Target) => o.error = "NONE" /\ o.entry = Target
  <2>1. PICK r \in Leads :
           /\ r = Reached(call.path)[Len(call.path.names)] /\ r.error = "NONE"
           /\ IsRoot => r.entry = RootEntry
           /\ ~IsRoot => AtTarget(r, call.path, call.it)
    BY <1>1, <1>2, Arrives
  <2>2. o = Found(r.entry, IF ~IsDirectory(r.entry) THEN IF ~call.path.slash THEN "NONE" ELSE "NOTDIR"
                           ELSE "ISDIR")
    BY <2>1 DEF Outcome
  <2>3. ~IsRoot => Target = r.entry /\ ~IsVolumeId(r.entry) /\ (call.path.slash => IsDirectory(r.entry))
    BY <2>1 DEF AtTarget, Target
  <2>4. ~IsRoot => (IsFile(Target) <=> ~IsDirectory(r.entry))
    BY <2>3 DEF IsFile, IsDirectory, IsVolumeId
  <2> QED
    BY <2>1, <2>2, <2>3, <2>4, RootFields DEF Found
<1> HIDE DEF o
<1>3. CASE (IsRoot \/ ~IsFile(Target)) /\ Refuse("ISDIR")
  <2>1. Says(call.op, call.path, "ISDIR", file')
    BY <1>1, <1>2, <1>3 DEF Says, o
  <2> QED
    BY <1>1, <1>3, <2>1, RefusesThis
<1>4. CASE Refuse("NOMEM")
  BY <1>1, <1>4, RefusesThis
<1>5. CASE /\ ~IsRoot /\ IsFile(Target) /\ Refuse("NONE")
           /\ file' = [size |-> Target.size, position |-> 0, cluster |-> Target.cluster,
                       pos |-> Target.cluster]
  <2>1. file'.size = Target.size /\ file'.cluster = Target.cluster
    BY <1>5
  <2>2. Says(call.op, call.path, "NONE", file')
    BY <1>1, <1>2, <1>5, <2>1 DEF Says, o
  <2> QED
    BY <1>1, <1>5, <2>2, RefusesThis
<1> QED
  BY <1>3, <1>4, <1>5 DEF Open

LEMMA FoundOpenDir == FatTypes /\ SearchInv /\ FindsPath /\ OpenDir => SearchInv' /\ FindsPath'
<1> SUFFICES ASSUME FatTypes, SearchInv, FindsPath, OpenDir PROVE SearchInv' /\ FindsPath'
  OBVIOUS
<1>1. name' = name /\ fs' = fs /\ call.op = "opendir" /\ ~Searching
  BY DEF OpenDir
<1> DEFINE o == Outcome("opendir", call.path)
           good == IsRoot \/ IsDirectory(Target)
<1>2. ASSUME Plain(call.path) PROVE o.error = IF good THEN "NONE" ELSE "NOTDIR"
  <2>1. PICK r \in Leads :
           /\ r = Reached(call.path)[Len(call.path.names)] /\ r.error = "NONE"
           /\ IsRoot => r.entry = RootEntry
           /\ ~IsRoot => AtTarget(r, call.path, call.it)
    BY <1>1, <1>2, Arrives
  <2>2. o = Found(r.entry, IF ~IsDirectory(r.entry) THEN "NOTDIR" ELSE "NONE")
    BY <2>1 DEF Outcome
  <2>3. ~IsRoot => Target = r.entry
    BY <2>1 DEF AtTarget, Target
  <2> QED
    BY <2>1, <2>2, <2>3, RootFields DEF Found
<1> HIDE DEF o
<1>3. CASE ~good /\ Refuse("NOTDIR")
  <2>1. Says(call.op, call.path, "NOTDIR", file')
    BY <1>1, <1>2, <1>3 DEF Says, o
  <2> QED
    BY <1>1, <1>3, <2>1, RefusesThis
<1>4. CASE Refuse("NOMEM")
  BY <1>1, <1>4, RefusesThis
<1>5. CASE good /\ Refuse("NONE")
  <2>1. Says(call.op, call.path, "NONE", file')
    BY <1>1, <1>2, <1>5 DEF Says, o
  <2> QED
    BY <1>1, <1>5, <2>1, RefusesThis
<1>6. (~good /\ Refuse("NOTDIR")) \/ Refuse("NOMEM") \/ (good /\ Refuse("NONE"))
  BY DEF OpenDir
<1> QED
  BY <1>3, <1>4, <1>5, <1>6

LEMMA FoundStart ==
  ASSUME FatTypes, FindsPath, NEW op \in {"open", "opendir"}, NEW path \in Paths, Start(op, path)
  PROVE  SearchInv' /\ FindsPath'
<1>1. /\ name' = name /\ fs' = fs /\ answer' = answer /\ file' = file /\ fs # None
      /\ call' = [op |-> op, path |-> path, k |-> 1, it |-> AtRoot]
  BY DEF Start, Ready
<1>2. call'.path = path /\ call'.k = 1 /\ call'.it = AtRoot
  BY <1>1
<1>3. OnPath(path, 1, AtRoot)
  BY <1>1, SearchStarts DEF FatTypes
<1>4. SearchInv'
  BY <1>1, <1>2, <1>3, SearchesOn
<1> QED
  BY <1>1, <1>4, FindsStill

LEMMA FoundOthers ==
  ASSUME FatTypes, SearchInv, FindsPath,
         \/ Mount \/ (\E n \in Sizes : Read(n)) \/ ReadDir \/ Close \/ CloseDir
         \/ ReadRun \/ ReadDirTurn \/ DeviceFails \/ UNCHANGED vars
  PROVE  SearchInv' /\ FindsPath'
<1>1. CASE Mount
  <2>1. call' = call /\ answer'.op = "mount" /\ fs = None
    BY <1>1 DEF Mount
  <2>2. call'.op \notin {"open", "opendir"}
    BY <2>1 DEF FatTypes
  <2> QED
    BY <2>1, <2>2, NoSearch, FindsNothing
<1>2. ASSUME NEW n \in Sizes, Read(n) PROVE SearchInv' /\ FindsPath'
  <2>1. /\ name' = name /\ fs' = fs /\ file' = file /\ answer' = answer
        /\ call' = [op |-> "read", asked |-> n, left |-> n]
    BY <1>2 DEF Read
  <2>2. call'.op \notin {"open", "opendir"}
    BY <2>1
  <2> QED
    BY <2>1, <2>2, NoSearch, FindsStill
<1>3. CASE ReadDir
  <2>1. /\ name' = name /\ fs' = fs /\ file' = file /\ answer' = answer /\ call'.op = "readdir"
    BY <1>3 DEF ReadDir
  <2> QED
    BY <2>1, NoSearch, FindsStill
<1>4. CASE Close \/ CloseDir
  <2>1. call' = call /\ call.op = "idle" /\ answer'.op = "idle"
    BY <1>4 DEF Close, CloseDir, Ready, Idle
  <2> QED
    BY <2>1, NoSearch, FindsNothing
<1>5. CASE ReadRun
  <2>1. name' = name /\ fs' = fs /\ call.op = "read"
    BY <1>5 DEF ReadRun
  <2>2. call \in [op : {"read"}, asked : Nat, left : Nat] /\ file \in FileType /\ file # None
    BY <2>1 DEF FatTypes
  <2>3. (Ends \/ Errs \/ Goes)
    BY <1>5, ReadRunIs
  <2>4. CASE Ends \/ Errs
    <3>1. call'.op = "idle" /\ answer'.op = "read"
      BY <2>4 DEF Ends, Errs, Returned, Return, Idle
    <3> QED
      BY <3>1, NoSearch, FindsNothing
  <2>5. CASE Goes
    <3>1. answer' = answer /\ file' = FileAfter(RunHere) /\ call' = [call EXCEPT !.left = @ - RunHere.read]
      BY <2>5 DEF Goes
    <3>2. call'.op = "read"
      BY <2>2, <3>1
    <3>3. file'.size = file.size /\ file'.cluster = file.cluster
      BY <2>2, <3>1 DEF FileAfter, FileType
    <3> QED
      BY <2>1, <2>2, <3>1, <3>2, <3>3, NoSearch, FindsStill
  <2> QED
    BY <2>3, <2>4, <2>5
<1>6. CASE ReadDirTurn
  <2>1. name' = name /\ fs' = fs /\ file' = file /\ call.op = "readdir"
        /\ ((call' = Idle /\ answer'.op = "readdir") \/ (call' = call /\ answer' = answer))
    BY <1>6 DEF ReadDirTurn, Listed, Return
  <2>2. call'.op \notin {"open", "opendir"}
    BY <2>1 DEF Idle
  <2> QED
    BY <2>1, <2>2, NoSearch, FindsNothing, FindsStill
<1>7. CASE DeviceFails
  <2>1. call' = Idle /\ answer'.error = "IO"
    BY <1>7 DEF DeviceFails, Refuse, Returned, Listed, Return
  <2>2. call'.op \notin {"open", "opendir"}
    BY <2>1 DEF Idle
  <2> QED
    BY <2>1, <2>2, NoSearch, FindsNothing
<1>8. CASE UNCHANGED vars
  <2>1. name' = name /\ fs' = fs /\ file' = file /\ answer' = answer /\ call' = call
    BY <1>8 DEF vars
  <2> QED
    BY <2>1, StillSearches, FindsStill
<1> QED
  BY <1>1, <1>2, <1>3, <1>4, <1>5, <1>6, <1>7, <1>8

LEMMA PathKeeps ==
  FatTypes /\ SearchInv /\ FindsPath /\ [Next]_vars => SearchInv' /\ FindsPath'
<1> SUFFICES ASSUME FatTypes, SearchInv, FindsPath, [Next]_vars PROVE SearchInv' /\ FindsPath'
  OBVIOUS
<1>1. CASE Search
  BY <1>1, FoundSearch
<1>2. CASE Open
  BY <1>2, FoundOpen
<1>3. CASE OpenDir
  BY <1>3, FoundOpenDir
<1>4. CASE \E path \in Paths : Start("open", path) \/ Start("opendir", path)
  BY <1>4, FoundStart
<1>5. CASE \/ Mount \/ (\E n \in Sizes : Read(n)) \/ ReadDir \/ Close \/ CloseDir
           \/ ReadRun \/ ReadDirTurn \/ DeviceFails \/ UNCHANGED vars
  BY <1>5, FoundOthers
<1> QED
  BY <1>1, <1>2, <1>3, <1>4, <1>5 DEF Next, Step

(* Opening finds on every volume what a path names by the FAT format, and  *)
(* refuses only what is not there.                                         *)
THEOREM PathsAreFound == Spec => []FindsPath
<1>1. Init => FatTypes /\ SearchInv /\ FindsPath
  <2>1. Init => SearchInv /\ FindsPath
    BY DEF Init, Idle, SearchInv, FindsPath
  <2> QED
    BY <2>1, FatInit
<1>2. FatTypes /\ SearchInv /\ FindsPath /\ [Next]_vars => (FatTypes /\ SearchInv /\ FindsPath)'
  BY FatKeeps, PathKeeps
<1> QED
  BY <1>1, <1>2, PTL DEF Spec
----------------------------------------------------------------------------
(* Directories.                                                            *)

(* The entries in use before slot s, and that l are their names, in order. *)
Before(c, s) == {i \in 0..(s - 1) : Live(Slot(c, i))}
UpTo(S, i) == {j \in S : j <= i}
Lists(c, s, l) ==
  /\ l \in Seq(Seq(Signs)) /\ Len(l) = Cardinality(Before(c, s))
  /\ \A i \in Before(c, s) : FilenameCmp(l[Cardinality(UpTo(Before(c, s), i))], Slot(c, i))

LEMMA BeforeIs ==
  ASSUME NEW c, NEW s \in Nat
  PROVE  /\ IsFiniteSet(Before(c, s)) /\ Cardinality(Before(c, s)) \in Nat
         /\ Before(c, s) \in SUBSET Nat /\ \A i \in Before(c, s) : i < s
<1>1. IsFiniteSet(0..(s - 1))
  BY FS_Interval
<1>2. Before(c, s) \in SUBSET (0..(s - 1))
  BY DEF Before
<1>3. IsFiniteSet(Before(c, s))
  BY <1>1, <1>2, FS_Subset
<1> QED
  BY <1>2, <1>3, FS_CardinalityType

LEMMA UpToIs ==
  ASSUME NEW S \in SUBSET Nat, IsFiniteSet(S), NEW i \in S
  PROVE  /\ Cardinality(UpTo(S, i)) \in Nat /\ Cardinality(S) \in Nat
         /\ Cardinality(UpTo(S, i)) >= 1 /\ Cardinality(UpTo(S, i)) <= Cardinality(S)
<1> DEFINE U == UpTo(S, i)
<1>1. U \in SUBSET S /\ i \in U
  BY DEF UpTo
<1>2. IsFiniteSet(U) /\ Cardinality(U) <= Cardinality(S)
  BY <1>1, FS_Subset
<1>3. Cardinality(U) \in Nat /\ Cardinality(S) \in Nat
  BY <1>2, FS_CardinalityType
<1>4. Cardinality(U) # 0
  BY <1>1, <1>2, FS_EmptySet
<1> QED
  BY <1>2, <1>3, <1>4

LEMMA ListsNothing == ASSUME NEW c PROVE Lists(c, 0, <<>>)
<1>1. Before(c, 0) = {}
  BY DEF Before
<1>2. Cardinality({}) = 0
  BY FS_EmptySet
<1>3. <<>> \in Seq(Seq(Signs)) /\ Len(<<>>) = 0
  OBVIOUS
<1> QED
  BY <1>1, <1>2, <1>3 DEF Lists

(* The next entry is not in use, or is listed by its own name.             *)
LEMMA ListsSkip ==
  ASSUME NEW c, NEW s \in Nat, NEW l, Lists(c, s, l), ~Live(Slot(c, s))
  PROVE  Lists(c, s + 1, l)
<1>1. \A i : i \in 0..((s + 1) - 1) <=> i \in 0..(s - 1) \/ i = s
  OBVIOUS
<1>2. Before(c, s + 1) = Before(c, s)
  BY <1>1 DEF Before
<1> QED
  BY <1>2 DEF Lists

LEMMA ListsNext ==
  ASSUME Meant, NEW c, NEW s \in Nat, NEW l, Lists(c, s, l), NEW e, e = Slot(c, s),
         Live(e), e.base[1] # END
  PROVE  Lists(c, s + 1, Append(l, AllocSFN(e)))
<1> DEFINE U == Before(c, s)
           V == Before(c, s + 1)
           m == Append(l, AllocSFN(e))
           n == Cardinality(U)
<1>1. \A i : i \in 0..((s + 1) - 1) <=> i \in 0..(s - 1) \/ i = s
  OBVIOUS
<1>2. V = U \cup {s} /\ s \notin U
  BY <1>1 DEF Before
<1>3. IsFiniteSet(U) /\ n \in Nat /\ U \in SUBSET Nat /\ (\A i \in U : i < s)
  BY BeforeIs
<1>4. Cardinality(V) = n + 1 /\ IsFiniteSet(V)
  BY <1>2, <1>3, FS_AddElement
<1>5. ShortName(e) /\ e.base[1] \notin {END, FREE}
  BY SlotIs DEF Live
<1>6. AllocSFN(e) \in Seq(Signs) /\ FilenameCmp(AllocSFN(e), e)
  <2>1. AllocSFN(e) \in Seq(Signs)
    BY <1>5, SfnIs
  <2>2. FilenameCmp(AllocSFN(e), e)
    BY <1>5, OwnName
  <2> QED
    BY <2>1, <2>2
<1>7. l \in Seq(Seq(Signs)) /\ Len(l) = n
      /\ \A i \in U : FilenameCmp(l[Cardinality(UpTo(U, i))], Slot(c, i))
  BY DEF Lists
<1> HIDE DEF U, V, n
<1> DEFINE w == AllocSFN(e)
<1>8. w \in Seq(Signs) /\ FilenameCmp(w, e) /\ m = Append(l, w)
  BY <1>6
<1> HIDE DEF w, m
<1>9. m \in Seq(Seq(Signs)) /\ Len(m) = n + 1 /\ m[n + 1] = w
      /\ \A x \in Nat : x >= 1 /\ x <= n => m[x] = l[x]
  BY <1>3, <1>7, <1>8
<1>10. ASSUME NEW i \in V PROVE FilenameCmp(m[Cardinality(UpTo(V, i))], Slot(c, i))
  <2>1. CASE i \in U
    <3>1. UpTo(V, i) = UpTo(U, i)
      BY <1>2, <1>3, <2>1 DEF UpTo
    <3>2. Cardinality(UpTo(U, i)) \in Nat /\ Cardinality(UpTo(U, i)) >= 1 /\ Cardinality(UpTo(U, i)) <= n
      BY <1>3, <2>1, UpToIs DEF n
    <3> QED
      BY <1>7, <1>9, <2>1, <3>1, <3>2
  <2>2. CASE i = s
    <3>1. UpTo(V, i) = V
      <4>1. \A j \in V : j <= s
        BY <1>2, <1>3
      <4> QED
        BY <2>2, <4>1 DEF UpTo
    <3> QED
      BY <1>4, <1>8, <1>9, <2>2, <3>1
  <2> QED
    BY <1>2, <2>1, <2>2
<1>11. Lists(c, s + 1, m)
  BY <1>4, <1>9, <1>10 DEF Lists, V
<1> QED
  BY <1>11 DEF m

(* Where no directory is a circle, a cleared slot is among the slots.      *)
LEMMA Uncircled ==
  ASSUME Meant, ~Circular, NEW c, Places(c), NEW s \in Nat, Clear(c, s + 1)
  PROVE  s < Slots(c)
<1>1. CASE c = 0
  <2>1. s \in 0..((s + 1) - 1)
    OBVIOUS
  <2>2. s < Len(vol.dir[0])
    BY <1>1, <2>1, SlotIs DEF Clear
  <2> QED
    BY <1>1, <2>2 DEF Slots
<1>2. CASE c # 0
  <2> DEFINE q == s \div Room
             N == Cardinality(DOMAIN vol.dir)
  <2>1. c \in Dirs /\ Room \in Nat \ {0} /\ N \in Nat
    BY <1>2, RoomIs, DirsFinite DEF Places
  <2>2. q \in Nat /\ s % Room \in 0..(Room - 1) /\ s = Room * q + (s % Room)
    BY <2>1, DivMod
  <2>3. PICK k \in 0..N : Follow(c)[k] \notin DOMAIN vol.dir
    BY <2>1 DEF Circular, Dirs
  <2>4. ~(k <= q)
    <3>1. k \in Nat
      BY <2>1, <2>3
    <3>2. k <= s \div Room => Follow(c)[k] \in DOMAIN vol.dir
      BY <2>1, <3>1, OnWay
    <3> QED
      BY <2>3, <3>2
  <2>5. q < N
    BY <2>1, <2>2, <2>3, <2>4
  <2> HIDE DEF q, N
  <2> DEFINE x == Room * q  y == Room * N
  <2>6. x \in Nat /\ y \in Nat /\ x + Room <= y
    <3>1. q + 1 <= N
      BY <2>1, <2>2, <2>5
    <3>2. Room * (q + 1) <= Room * N /\ Room * (q + 1) = Room * q + Room
      BY <2>1, <2>2, <3>1
    <3> QED
      BY <2>1, <2>2, <3>2
  <2>7. s = x + (s % Room)
    BY <2>2
  <2> HIDE DEF x, y
  <2>8. s < y
    BY <2>1, <2>2, <2>6, <2>7
  <2> QED
    BY <1>2, <2>8 DEF Slots, y, N
<1> QED
  BY <1>1, <1>2

(* What is before a cleared slot are the first entries in use.             *)
LEMMA FirstInUse ==
  ASSUME Meant, ~Circular, NEW c, Places(c), NEW s \in Nat, Clear(c, s)
  PROVE  /\ s <= Stop(c) /\ Stop(c) \in Nat
         /\ Slot(c, s).base[1] = END => s = Stop(c)
<1> DEFINE m == Stop(c)
<1>1. /\ m \in 0..Slots(c) /\ Clear(c, m) /\ (m = Slots(c) \/ Slot(c, m).base[1] = END)
      /\ Slots(c) \in Nat
  BY StopIs, SlotsNat
<1> HIDE DEF m
<1>2. s <= Slots(c)
  <2>1. CASE s = 0
    BY <1>1, <2>1
  <2>2. CASE s # 0
    <3> DEFINE p == s - 1
    <3>1. p \in Nat /\ p + 1 = s
      BY <2>2
    <3> HIDE DEF p
    <3>2. Clear(c, p + 1)
      BY <3>1
    <3>3. p < Slots(c)
      BY <3>1, <3>2, Uncircled
    <3> QED
      BY <1>1, <3>1, <3>3
  <2> QED
    BY <2>1, <2>2
<1>3. s <= m
  <2>1. m \notin 0..(s - 1) \/ m = Slots(c)
    BY <1>1 DEF Clear
  <2> QED
    BY <1>1, <1>2, <2>1
<1>4. Slot(c, s).base[1] = END => s = m
  <2>1. Slot(c, s).base[1] = END => s \notin 0..(m - 1)
    BY <1>1 DEF Clear
  <2> QED
    BY <1>1, <1>3, <2>1
<1> QED
  BY <1>1, <1>3, <1>4 DEF m

(* A directory is being read.                                              *)
DirInUse == dir # None \/ call.op = "readdir"
Ended == answer.op = "readdir" /\ answer.error = "END"
Dir == [path : Paths, it : Iter(vol)]
DirTypes ==
  /\ DirInUse => fs # None /\ file = None /\ call.op \in {"idle", "readdir"} /\ dir \in Dir
  /\ call.op \in {"open", "opendir"} => file = None
  /\ call.op = "readdir" => ~Ended

(* What is listed are the names up to the iterator, or to the end.         *)
ListsOn(c, it, l) ==
  Places(c) /\ \E s \in Nat : Clear(c, s) /\ Lists(c, s, l) /\ Standing(it, c, s)
ListsAll(c, l) ==
  Places(c) /\ \E s \in Nat : Clear(c, s) /\ Lists(c, s, l) /\ Slot(c, s).base[1] = END
ClusterOf(path) == Outcome("opendir", path).entry.cluster
ListInv ==
  DirInUse /\ ~Circular /\ Plain(dir.path) =>
    /\ Ended => ListsAll(ClusterOf(dir.path), listed)
    /\ ~Ended => ListsOn(ClusterOf(dir.path), dir.it, listed)

LEMMA ListsEach ==
  ASSUME Meant, ~Circular, NEW c, Places(c), NEW s \in Nat, Clear(c, s), NEW l, Lists(c, s, l)
  PROVE  /\ Len(l) <= Cardinality(InUse(c))
         /\ \A i \in InUse(c) : Cardinality(UpTo(InUse(c), i)) <= Len(l) =>
              FilenameCmp(l[Cardinality(UpTo(InUse(c), i))], Slot(c, i))
         /\ Slot(c, s).base[1] = END => Len(l) = Cardinality(InUse(c))
<1> DEFINE U == Before(c, s)  used == InUse(c)  n == Cardinality(U)
<1>1. s <= Stop(c) /\ Stop(c) \in Nat /\ (Slot(c, s).base[1] = END => s = Stop(c))
  BY FirstInUse
<1>2. /\ U \in SUBSET used /\ (s = Stop(c) => U = used)
      /\ \A i \in used : i \in U <=> i < s
  BY <1>1 DEF Before, InUse
<1>3. used = Before(c, Stop(c))
  BY DEF Before, InUse
<1>4. IsFiniteSet(used) /\ Cardinality(used) \in Nat /\ used \in SUBSET Nat
  BY <1>1, <1>3, BeforeIs
<1>5. IsFiniteSet(U) /\ n \in Nat /\ \A i \in U : i < s
  BY BeforeIs
<1>6. Len(l) = n /\ \A i \in U : FilenameCmp(l[Cardinality(UpTo(U, i))], Slot(c, i))
  BY DEF Lists
<1> HIDE DEF U, used, n
<1>7. n <= Cardinality(used)
  BY <1>2, <1>4, FS_Subset DEF n
<1>8. ASSUME NEW i \in used, Cardinality(UpTo(used, i)) <= Len(l)
      PROVE  FilenameCmp(l[Cardinality(UpTo(used, i))], Slot(c, i))
  <2>1. CASE i \in U
    <3>1. UpTo(used, i) = UpTo(U, i)
      <4>1. i \in Nat /\ i < s
        BY <1>4, <1>5, <2>1
      <4>2. \A j \in used : j <= i => j \in U
        BY <1>2, <1>4, <4>1
      <4> QED
        BY <1>2, <4>2 DEF UpTo
    <3> QED
      BY <1>6, <2>1, <3>1
  <2>2. CASE i \notin U
    <3> DEFINE V == U \cup {i}
    <3>1. Cardinality(V) = n + 1 /\ IsFiniteSet(V)
      BY <1>5, <2>2, FS_AddElement DEF n
    <3>2. V \in SUBSET UpTo(used, i)
      BY <1>2, <1>4, <1>5, <2>2 DEF UpTo
    <3>3. IsFiniteSet(UpTo(used, i))
      <4>1. UpTo(used, i) \in SUBSET used
        BY DEF UpTo
      <4> QED
        BY <1>4, <4>1, FS_Subset
    <3>4. Cardinality(V) <= Cardinality(UpTo(used, i))
      BY <3>2, <3>3, FS_Subset
    <3>5. Cardinality(UpTo(used, i)) \in Nat
      BY <3>3, FS_CardinalityType
    <3> HIDE DEF V
    <3> QED
      BY <1>5, <1>6, <1>8, <3>1, <3>4, <3>5
  <2> QED
    BY <2>1, <2>2
<1>9. Slot(c, s).base[1] = END => Len(l) = Cardinality(used)
  BY <1>1, <1>2, <1>6 DEF n
<1> QED
  BY <1>6, <1>7, <1>8, <1>9 DEF used

LEMMA ListInvIs == FatTypes /\ DirTypes /\ ListInv => ListsDir
<1> SUFFICES ASSUME FatTypes, DirTypes, ListInv, dir # None, ~Circular, Plain(dir.path)
    PROVE  \E used \in {InUse(ClusterOf(dir.path))} :
      /\ Len(listed) <= Cardinality(used)
      /\ \A i \in used : \E rank \in {Cardinality({j \in used : j <= i})} :
           rank <= Len(listed) => FilenameCmp(listed[rank], Slot(ClusterOf(dir.path), i))
      /\ answer.op = "readdir" /\ answer.error = "END" => Len(listed) = Cardinality(used)
  BY DEF ListsDir, ClusterOf, Plain, Dirs
<1> DEFINE c == ClusterOf(dir.path)
<1>1. Meant
  BY Driver DEF FatTypes, DirTypes, DirInUse
<1>2. Places(c) /\ \E s \in Nat : Clear(c, s) /\ Lists(c, s, listed) /\ (Ended => Slot(c, s).base[1] = END)
  BY DEF ListInv, ListsOn, ListsAll, DirInUse
<1> HIDE DEF c
<1>3. PICK s \in Nat : Clear(c, s) /\ Lists(c, s, listed) /\ (Ended => Slot(c, s).base[1] = END)
  BY <1>2
<1>4. /\ Len(listed) <= Cardinality(InUse(c))
      /\ \A i \in InUse(c) : Cardinality(UpTo(InUse(c), i)) <= Len(listed) =>
           FilenameCmp(listed[Cardinality(UpTo(InUse(c), i))], Slot(c, i))
      /\ Slot(c, s).base[1] = END => Len(listed) = Cardinality(InUse(c))
  BY <1>1, <1>2, <1>3, ListsEach
<1>5. \A i : UpTo(InUse(c), i) = {j \in InUse(c) : j <= i}
  BY DEF UpTo
<1> QED
  BY <1>3, <1>4, <1>5 DEF c, Ended

LEMMA SameList ==
  ASSUME name' = name, fs' = fs
  PROVE  /\ \A c, it, l : ListsOn(c, it, l)' <=> ListsOn(c, it, l)
         /\ \A c, l : ListsAll(c, l)' <=> ListsAll(c, l)
         /\ \A path : ClusterOf(path)' = ClusterOf(path) /\ (Plain(path)' <=> Plain(path))
         /\ Circular' <=> Circular
<1>1. /\ \A c, i : Slot(c, i)' = Slot(c, i)
      /\ \A c : Places(c)' <=> Places(c)
      /\ \A c, s : Clear(c, s)' <=> Clear(c, s)
      /\ \A it, c, s : Standing(it, c, s)' <=> Standing(it, c, s)
      /\ Circular' <=> Circular
  BY SameTree
<1>2. \A path : (Plain(path)' <=> Plain(path)) /\ ClusterOf(path)' = ClusterOf(path)
  BY SameSearch DEF ClusterOf
<1>3. \A c, s : Before(c, s)' = Before(c, s)
  BY <1>1, Zenon DEF Before
<1>4. \A c, s, l : Lists(c, s, l)' <=> Lists(c, s, l)
  BY <1>1, <1>3, Zenon DEF Lists
<1>5. \A c, it, l : ListsOn(c, it, l)' <=> ListsOn(c, it, l)
  BY <1>1, <1>4, Zenon DEF ListsOn
<1>6. \A c, l : ListsAll(c, l)' <=> ListsAll(c, l)
  BY <1>1, <1>4, Zenon DEF ListsAll
<1> QED
  BY <1>1, <1>2, <1>5, <1>6

LEMMA DirInit == Init => DirTypes /\ ListInv
BY DEF Init, DirTypes, ListInv, DirInUse, Idle

LEMMA DirSearch ==
  ASSUME FatTypes, DirTypes,
         Search \/ Open \/ (DeviceFails /\ call.op \in {"open", "opendir"})
  PROVE  DirTypes' /\ ListInv'
<1>1. fs' = fs /\ name' = name /\ dir' = dir /\ call.op \in {"open", "opendir"}
      /\ (Search \/ DeviceFails => file' = file)
  BY DEF Search, Searching, Open, DeviceFails
<1>2. ~DirInUse /\ file = None
  BY <1>1 DEF DirTypes
<1>3. \/ call' = Idle
      \/ Search /\ call'.op = call.op
  <2>1. CASE Open
    BY <2>1 DEF Open, Refuse, Return
  <2>2. CASE DeviceFails
    BY <2>2 DEF DeviceFails, Refuse, Return, Returned, Listed
  <2>3. CASE Search
    <3> DEFINE it == NextTurn(call.it).it  back == Reset(it, it.entry)
    <3>1. call \in Searches(vol)
      BY <1>1 DEF FatTypes
    <3>2. \/ call' = Idle
          \/ call' = [call EXCEPT !.k = @ + 1, !.it = back]
          \/ call' = [call EXCEPT !.k = @ + 1, !.it = it]
          \/ call' = [call EXCEPT !.it = it]
      BY <2>3, SearchIs DEF Went
    <3> HIDE DEF it, back
    <3>3. \A x : [call EXCEPT !.k = @ + 1, !.it = x].op = call.op /\ [call EXCEPT !.it = x].op = call.op
      BY <3>1 DEF Searches
    <3>4. call' = Idle \/ call'.op = call.op
      BY <3>2, <3>3
    <3> QED
      BY <2>3, <3>4
  <2> QED
    BY <2>1, <2>2, <2>3
<1>4. call'.op = "idle" \/ (call'.op \in {"open", "opendir"} /\ file' = None)
  BY <1>1, <1>2, <1>3 DEF Idle
<1>5. ~DirInUse'
  BY <1>1, <1>2, <1>4 DEF DirInUse
<1> QED
  BY <1>4, <1>5 DEF DirTypes, ListInv, DirInUse

LEMMA DirOthers ==
  ASSUME FatTypes, DirTypes,
         \/ Mount \/ (\E path \in Paths : Start("open", path) \/ Start("opendir", path))
         \/ (\E n \in Sizes : Read(n)) \/ Close \/ CloseDir \/ ReadRun
         \/ (DeviceFails /\ call.op \notin {"open", "opendir"})
  PROVE  DirTypes' /\ ListInv'
<1>1. SUFFICES ~DirInUse' /\ (call'.op \in {"open", "opendir"} => file' = None) /\ call'.op # "readdir"
  BY DEF DirTypes, ListInv
<1>2. CASE Mount
  <2>1. dir' = dir /\ call' = call /\ fs = None
    BY <1>2 DEF Mount
  <2> QED
    BY <2>1 DEF FatTypes, DirTypes, DirInUse
<1>3. ASSUME NEW path \in Paths, Start("open", path) \/ Start("opendir", path)
      PROVE  ~DirInUse' /\ (call'.op \in {"open", "opendir"} => file' = None) /\ call'.op # "readdir"
  <2>1. dir' = dir /\ dir = None /\ file' = file /\ file = None /\ call'.op \in {"open", "opendir"}
    BY <1>3 DEF Start
  <2> QED
    BY <2>1 DEF DirInUse
<1>4. ASSUME NEW n \in Sizes, Read(n)
      PROVE  ~DirInUse' /\ (call'.op \in {"open", "opendir"} => file' = None) /\ call'.op # "readdir"
  <2>1. dir' = dir /\ file # None /\ call'.op = "read"
    BY <1>4 DEF Read
  <2>2. dir = None
    BY <2>1 DEF DirTypes, DirInUse
  <2> QED
    BY <2>1, <2>2 DEF DirInUse
<1>5. CASE Close
  <2>1. dir' = dir /\ file # None /\ call' = call /\ call.op = "idle"
    BY <1>5 DEF Close, Ready, Idle
  <2>2. dir = None
    BY <2>1 DEF DirTypes, DirInUse
  <2> QED
    BY <2>1, <2>2 DEF DirInUse
<1>6. CASE CloseDir
  <2>1. dir' = None /\ call' = call /\ call.op = "idle"
    BY <1>6 DEF CloseDir, Ready, Idle
  <2> QED
    BY <2>1 DEF DirInUse
<1>7. CASE ReadRun
  <2>1. dir' = dir /\ call.op = "read"
    BY <1>7 DEF ReadRun
  <2>2. dir = None
    BY <2>1 DEF DirTypes, DirInUse
  <2>3. call'.op \in {"idle", "read"}
    <3>1. call \in [op : {"read"}, asked : Nat, left : Nat]
      BY <2>1 DEF FatTypes
    <3>2. call' = Idle \/ call' = [call EXCEPT !.left = @ - RunHere.read]
      BY <1>7, ReadRunIs DEF Ends, Errs, Goes, Returned, Return
    <3> QED
      BY <3>1, <3>2 DEF Idle
  <2> QED
    BY <2>1, <2>2, <2>3 DEF DirInUse
<1>8. CASE DeviceFails /\ call.op \notin {"open", "opendir"}
  <2>1. call' = Idle /\ (dir' = None \/ (dir' = dir /\ call.op = "read"))
    BY <1>8 DEF DeviceFails, Searching, Returned, Listed, Return
  <2>2. dir' = None
    BY <2>1 DEF DirTypes, DirInUse
  <2> QED
    BY <2>1, <2>2 DEF DirInUse, Idle
<1> QED
  BY <1>2, <1>3, <1>4, <1>5, <1>6, <1>7, <1>8

(* Steps that leave the directory alone.                                   *)
LEMMA ListStays ==
  ASSUME ListInv, DirInUse, name' = name, fs' = fs, dir' = dir, listed' = listed, answer' = answer
  PROVE  ListInv'
<1>1. /\ \A c, it, l : ListsOn(c, it, l)' <=> ListsOn(c, it, l)
      /\ \A c, l : ListsAll(c, l)' <=> ListsAll(c, l)
      /\ \A path : ClusterOf(path)' = ClusterOf(path) /\ (Plain(path)' <=> Plain(path))
      /\ Circular' <=> Circular
  BY SameList
<1>2. Ended' <=> Ended
  BY DEF Ended
<1> QED
  BY <1>1, <1>2 DEF ListInv

LEMMA DirReadDir == FatTypes /\ DirTypes /\ ListInv /\ ReadDir => DirTypes' /\ ListInv'
<1> SUFFICES ASSUME FatTypes, DirTypes, ListInv, ReadDir PROVE DirTypes' /\ ListInv'
  OBVIOUS
<1>1. /\ name' = name /\ fs' = fs /\ file' = file /\ dir' = dir /\ answer' = answer /\ listed' = listed
      /\ dir # None /\ ~Ended /\ call'.op = "readdir"
  BY DEF ReadDir, Ended
<1>2. DirInUse /\ vol' = vol /\ (Ended' <=> Ended)
  BY <1>1, Stays DEF DirInUse, Ended
<1>3. DirTypes'
  BY <1>1, <1>2 DEF DirTypes, Dir
<1> QED
  BY <1>1, <1>2, <1>3, ListStays

LEMMA DirStutter == FatTypes /\ DirTypes /\ ListInv /\ UNCHANGED vars => DirTypes' /\ ListInv'
<1> SUFFICES ASSUME FatTypes, DirTypes, ListInv, UNCHANGED vars PROVE DirTypes' /\ ListInv'
  OBVIOUS
<1>1. /\ name' = name /\ fs' = fs /\ file' = file /\ dir' = dir /\ answer' = answer /\ listed' = listed
      /\ call' = call
  BY DEF vars
<1>2. vol' = vol /\ (Ended' <=> Ended) /\ (DirInUse' <=> DirInUse)
  BY <1>1, Stays DEF DirInUse, Ended
<1>3. DirTypes'
  BY <1>1, <1>2 DEF DirTypes, Dir
<1>4. ListInv'
  <2>1. CASE DirInUse
    BY <1>1, <2>1, ListStays
  <2>2. CASE ~DirInUse
    BY <1>2, <2>2 DEF ListInv
  <2> QED
    BY <2>1, <2>2
<1> QED
  BY <1>3, <1>4

(* fatOpenDir: the iterator is before the first entry of what is named.    *)
LEMMA DirOpenDir == FatTypes /\ DirTypes /\ SearchInv /\ OpenDir => DirTypes' /\ ListInv'
<1> SUFFICES ASSUME FatTypes, DirTypes, SearchInv, OpenDir PROVE DirTypes' /\ ListInv'
  OBVIOUS
<1> DEFINE it == IF IsRoot THEN AtRoot ELSE Reset(AtRoot, Target)
           path == call.path
<1>1. /\ name' = name /\ fs' = fs /\ file' = file /\ call.op = "opendir" /\ ~Searching
      /\ call' = Idle /\ answer'.op = "opendir"
      /\ \/ dir' = dir
         \/ /\ IsRoot \/ IsDirectory(Target)
            /\ dir' = [path |-> path, it |-> it] /\ listed' = <<>>
  BY DEF OpenDir, Refuse, Return
<1>2. ~DirInUse /\ dir = None /\ file = None
  BY <1>1 DEF DirTypes, DirInUse
<1>3. call'.op = "idle" /\ ~Ended'
  BY <1>1 DEF Idle, Ended
<1>4. Mounted /\ Meant /\ fs # None /\ path \in Paths /\ call.it \in Iter(vol) /\ vol' = vol
  BY <1>1, Driver, Stays DEF FatTypes, Searches
<1>5. CASE dir' = dir
  <2>1. ~DirInUse'
    BY <1>2, <1>3, <1>5 DEF DirInUse
  <2> QED
    BY <1>3, <2>1 DEF DirTypes, ListInv
<1>6. CASE /\ IsRoot \/ IsDirectory(Target)
           /\ dir' = [path |-> path, it |-> it] /\ listed' = <<>>
  <2>1. AtRoot \in Iter(vol) /\ AtRoot.root16_12 = (fs.type # 32)
    <3>1. fs.root_cluster = BPB.root_cluster /\ fs.root_entry_count = BPB.root_entry_count
      BY <1>4 DEF Mounted, FileSystem
    <3>2. fs.root_cluster \in Nat /\ fs.root_entry_count \in Nat
      BY <1>4, <3>1, Fields
    <3>3. Blank(END) \in FatEntries(vol)
      BY DEF FatEntries
    <3> QED
      BY <3>2, <3>3 DEF AtRoot, Iter
  <2>2. Target.cluster \in Nat
    <3>1. Target \in FatEntries(vol)
      BY <1>4 DEF Target, Iter
    <3> HIDE DEF Target
    <3> QED
      BY <1>4, <3>1, EntriesAre
  <2> DEFINE back == Reset(AtRoot, Target)
  <2>3. back \in Iter(vol)
    BY <2>1, <2>2 DEF Reset, Iter
  <2>4. back.root16_12 = FALSE /\ back.cluster = Target.cluster /\ back.offset = 0
    BY <2>1 DEF Reset, Iter
  <2> HIDE DEF back
  <2>5. it \in Iter(vol) /\ it = IF IsRoot THEN AtRoot ELSE back
    BY <2>1, <2>3 DEF back
  <2> HIDE DEF it
  <2>6. dir' \in [path : Paths, it : Iter(vol)] /\ dir'.path = path /\ dir'.it = it
    BY <1>4, <1>6, <2>5
  <2>7. DirTypes'
    BY <1>1, <1>2, <1>3, <1>4, <2>6 DEF DirTypes, Dir
  <2>8. ASSUME Plain(path) PROVE ListsOn(ClusterOf(path), it, <<>>)
    <3>1. PICK r \in Leads :
             /\ r = Reached(path)[Len(path.names)] /\ r.error = "NONE"
             /\ IsRoot => r.entry = RootEntry
             /\ ~IsRoot => AtTarget(r, path, call.it)
      BY <1>1, <2>8, Arrives
    <3> DEFINE c == r.entry.cluster
    <3>2. ClusterOf(path) = c
      BY <3>1 DEF ClusterOf, Outcome, Found
    <3>3. Standing(it, c, 0) /\ Places(c)
      <4>1. CASE IsRoot
        BY <1>4, <2>5, <3>1, <4>1, StandsAtRoot
      <4>2. CASE ~IsRoot
        <5>1. Target = r.entry /\ IsDirectory(Target) /\ c \in Dirs
          BY <1>6, <3>1, <4>2 DEF AtTarget, Target
        <5>2. it = back /\ back.cluster = c
          BY <2>4, <2>5, <4>2, <5>1
        <5> HIDE DEF c
        <5> QED
          BY <1>4, <2>4, <5>1, <5>2, StandsFirst
      <4> QED
        BY <4>1, <4>2
    <3> HIDE DEF c
    <3>4. Clear(c, 0) /\ Lists(c, 0, <<>>) /\ 0 \in Nat
      BY ListsNothing DEF Clear
    <3> QED
      BY <3>2, <3>3, <3>4 DEF ListsOn
  <2>9. ListInv'
    <3>1. /\ \A c, i, l : ListsOn(c, i, l)' <=> ListsOn(c, i, l)
          /\ \A x : ClusterOf(x)' = ClusterOf(x) /\ (Plain(x)' <=> Plain(x))
      BY <1>1, SameList
    <3> QED
      BY <1>3, <1>6, <2>6, <2>8, <3>1 DEF ListInv
  <2> QED
    BY <2>7, <2>9
<1> QED
  BY <1>1, <1>5, <1>6

(* fatReadDir: what a turn does to the list.                               *)
LEMMA ListTurn ==
  ASSUME Mounted, Safe(Dirs), NEW it \in Iter(vol), NEW c, NEW l, ListsOn(c, it, l),
         NEW t, t = NextTurn(it), t.what # "fail", NEW e, e = t.it.entry
  PROVE  /\ t.what = "end" => ListsAll(c, l)
         /\ t.what = "entry" /\ ~IsVolumeId(e) => ListsOn(c, t.it, Append(l, AllocSFN(e)))
         /\ t.what \in {"skip", "entry"} /\ ~(t.what = "entry" /\ ~IsVolumeId(e)) => ListsOn(c, t.it, l)
<1>1. PICK s \in Nat : Clear(c, s) /\ Lists(c, s, l) /\ Standing(it, c, s)
  BY DEF ListsOn
<1>2. Places(c) /\ Meant
  BY Driver DEF ListsOn
<1>3. Judged(t, c, s)
  BY <1>1, TurnIs
<1>4. CASE Slot(c, s).base[1] = END
  BY <1>1, <1>2, <1>3, <1>4 DEF Judged, ListsAll
<1>5. CASE Slot(c, s).base[1] # END
  <2>1. /\ t.what = IF e.base[1] = FREE \/ IsLfn(e) THEN "skip" ELSE "entry"
        /\ e = Slot(c, s) /\ Standing(t.it, c, s + 1)
    BY <1>3, <1>5 DEF Judged
  <2>2. t.what = "entry" /\ ~IsVolumeId(e) <=> Live(e)
    BY <2>1 DEF Live, IsLfn, IsVolumeId
  <2>3. Clear(c, s + 1)
    <3>1. \A j \in 0..((s + 1) - 1) : j \in 0..(s - 1) \/ j = s
      OBVIOUS
    <3> QED
      BY <1>1, <1>5, <3>1 DEF Clear
  <2>4. ASSUME Live(e) PROVE ListsOn(c, t.it, Append(l, AllocSFN(e)))
    <3>1. Lists(c, s + 1, Append(l, AllocSFN(e)))
      BY <1>1, <1>2, <1>5, <2>1, <2>4, ListsNext
    <3>2. s + 1 \in Nat
      OBVIOUS
    <3> QED
      BY <1>2, <2>1, <2>3, <3>1, <3>2 DEF ListsOn
  <2>5. ASSUME ~Live(e) PROVE ListsOn(c, t.it, l)
    <3>1. Lists(c, s + 1, l)
      BY <1>1, <2>1, <2>5, ListsSkip
    <3>2. s + 1 \in Nat
      OBVIOUS
    <3> QED
      BY <1>2, <2>1, <2>3, <3>1, <3>2 DEF ListsOn
  <2>6. t.what # "end"
    BY <2>1
  <2> QED
    BY <2>2, <2>4, <2>5, <2>6
<1> QED
  BY <1>4, <1>5

LEMMA DirTurn == FatTypes /\ DirTypes /\ ListInv /\ ReadDirTurn => DirTypes' /\ ListInv'
<1> SUFFICES ASSUME FatTypes, DirTypes, ListInv, ReadDirTurn PROVE DirTypes' /\ ListInv'
  OBVIOUS
<1> DEFINE t == NextTurn(dir.it)
           e == t.it.entry
           named == t.what = "entry" /\ ~IsVolumeId(e)
           path == dir.path
           moved == [dir EXCEPT !.it = t.it]
<1>1. name' = name /\ fs' = fs /\ file' = file /\ call.op = "readdir"
  BY DEF ReadDirTurn
<1>2. DirInUse /\ ~Ended /\ fs # None /\ file = None /\ dir \in Dir
  BY <1>1 DEF DirTypes, DirInUse
<1>3. Mounted /\ vol' = vol
  BY <1>1, <1>2, Stays DEF FatTypes
<1>4. path \in Paths /\ dir.it \in Iter(vol)
  BY <1>2 DEF Dir
<1>5. t.it \in Iter(vol)
  BY <1>3, <1>4, TurnsIt
<1>6. \/ dir' = None /\ call' = Idle
      \/ /\ t.what = "end" /\ call' = Idle /\ answer' = [op |-> "readdir", error |-> "END"]
         /\ dir' = moved /\ listed' = listed
      \/ /\ named /\ call' = Idle /\ answer' = [op |-> "readdir", error |-> "NONE"]
         /\ dir' = moved /\ listed' = Append(listed, AllocSFN(e))
      \/ /\ t.what \in {"skip", "entry"} /\ ~named
         /\ dir' = moved /\ call' = call /\ answer' = answer /\ listed' = listed
  BY DEF ReadDirTurn, Listed, Return
<1>7. moved \in [path : Paths, it : Iter(vol)] /\ moved.path = path /\ moved.it = t.it
  <2> HIDE DEF t
  <2> QED
    BY <1>2, <1>4, <1>5 DEF Dir
<1>8. ASSUME ~Circular, Plain(path), t.what # "fail"
      PROVE  /\ t.what = "end" => ListsAll(ClusterOf(path), listed)
             /\ named => ListsOn(ClusterOf(path), t.it, Append(listed, AllocSFN(e)))
             /\ t.what \in {"skip", "entry"} /\ ~named => ListsOn(ClusterOf(path), t.it, listed)
  <2>1. ListsOn(ClusterOf(path), dir.it, listed) /\ Safe(Dirs)
    BY <1>2, <1>8 DEF ListInv, Plain
  <2> QED
    BY <1>3, <1>4, <1>8, <2>1, ListTurn
<1>9. Idle.op = "idle"
  BY DEF Idle
<1>10. /\ \A c, it, l : ListsOn(c, it, l)' <=> ListsOn(c, it, l)
       /\ \A c, l : ListsAll(c, l)' <=> ListsAll(c, l)
       /\ \A x : ClusterOf(x)' = ClusterOf(x) /\ (Plain(x)' <=> Plain(x))
       /\ Circular' <=> Circular
  BY <1>1, SameList
<1> HIDE DEF moved, path
<1>11. CASE dir' = None /\ call' = Idle
  <2>1. ~DirInUse' /\ call'.op = "idle"
    BY <1>9, <1>11 DEF DirInUse
  <2> QED
    BY <2>1 DEF DirTypes, ListInv
<1>12. ASSUME dir' = moved, call'.op \in {"idle", "readdir"}, call'.op = "readdir" => ~Ended'
       PROVE  DirTypes'
  BY <1>1, <1>2, <1>3, <1>7, <1>12 DEF DirTypes, Dir
<1>13. CASE /\ t.what = "end" /\ call' = Idle /\ answer' = [op |-> "readdir", error |-> "END"]
            /\ dir' = moved /\ listed' = listed
  <2>1. Ended' /\ call'.op = "idle"
    BY <1>9, <1>13 DEF Ended
  <2>2. ListInv'
    <3>1. ~Circular /\ Plain(path) => ListsAll(ClusterOf(path), listed)
      BY <1>8, <1>13
    <3> HIDE DEF t
    <3> QED
      BY <1>7, <1>10, <1>13, <2>1, <3>1 DEF ListInv
  <2> QED
    BY <1>12, <1>13, <2>1, <2>2
<1>14. CASE /\ named /\ call' = Idle /\ answer' = [op |-> "readdir", error |-> "NONE"]
            /\ dir' = moved /\ listed' = Append(listed, AllocSFN(e))
  <2>1. ~Ended' /\ call'.op = "idle"
    BY <1>9, <1>14 DEF Ended
  <2> DEFINE l == Append(listed, AllocSFN(e))
  <2>2. ListInv'
    <3>1. ~Circular /\ Plain(path) => ListsOn(ClusterOf(path), t.it, l)
      BY <1>8, <1>14
    <3>2. listed' = l
      BY <1>14
    <3> HIDE DEF t, l
    <3> QED
      BY <1>7, <1>10, <1>14, <2>1, <3>1, <3>2 DEF ListInv
  <2> QED
    BY <1>12, <1>14, <2>1, <2>2
<1>15. CASE /\ t.what \in {"skip", "entry"} /\ ~named
            /\ dir' = moved /\ call' = call /\ answer' = answer /\ listed' = listed
  <2>1. ~Ended' /\ call'.op = "readdir"
    BY <1>1, <1>2, <1>15 DEF Ended
  <2>2. ListInv'
    <3>1. ~Circular /\ Plain(path) => ListsOn(ClusterOf(path), t.it, listed)
      BY <1>8, <1>15
    <3> HIDE DEF t
    <3> QED
      BY <1>7, <1>10, <1>15, <2>1, <3>1 DEF ListInv
  <2> QED
    BY <1>12, <1>15, <2>1, <2>2
<1> QED
  BY <1>6, <1>11, <1>13, <1>14, <1>15

(* What ls lists are the entries in use, in their order, all of them once  *)
(* the end is reached, by names under which path search finds each.        *)
THEOREM DirsAreListed == Spec => []ListsDir
<1>1. Init => FatTypes /\ SearchInv /\ FindsPath /\ DirTypes /\ ListInv
  <2>1. Init => SearchInv /\ FindsPath
    BY DEF Init, Idle, SearchInv, FindsPath
  <2> QED
    BY <2>1, FatInit, DirInit
<1>2. FatTypes /\ SearchInv /\ FindsPath /\ DirTypes /\ ListInv /\ [Next]_vars =>
        (FatTypes /\ SearchInv /\ FindsPath /\ DirTypes /\ ListInv)'
  <2> SUFFICES ASSUME FatTypes, SearchInv, FindsPath, DirTypes, ListInv, [Next]_vars
      PROVE  FatTypes' /\ SearchInv' /\ FindsPath' /\ DirTypes' /\ ListInv'
    OBVIOUS
  <2>1. FatTypes' /\ SearchInv' /\ FindsPath'
    BY FatKeeps, PathKeeps
  <2>2. CASE Search \/ Open \/ (DeviceFails /\ call.op \in {"open", "opendir"})
    BY <2>1, <2>2, DirSearch
  <2>3. CASE \/ Mount \/ (\E path \in Paths : Start("open", path) \/ Start("opendir", path))
             \/ (\E n \in Sizes : Read(n)) \/ Close \/ CloseDir \/ ReadRun
             \/ (DeviceFails /\ call.op \notin {"open", "opendir"})
    BY <2>1, <2>3, DirOthers
  <2>4. CASE OpenDir
    BY <2>1, <2>4, DirOpenDir
  <2>5. CASE ReadDir \/ UNCHANGED vars
    BY <2>1, <2>5, DirReadDir, DirStutter
  <2>6. CASE ReadDirTurn
    BY <2>1, <2>6, DirTurn
  <2> QED
    BY <2>2, <2>3, <2>4, <2>5, <2>6 DEF Next, Step
<1>3. FatTypes /\ DirTypes /\ ListInv => ListsDir
  BY ListInvIs
<1> QED
  BY <1>1, <1>2, <1>3, PTL DEF Spec
=============================================================================
