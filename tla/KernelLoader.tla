---------------------------- MODULE KernelLoader ----------------------------
(***************************************************************************)
(* The commands that read files, and the kernel loader some of them        *)
(* prepare: search, linux, initrd, boot, md5sum, sha1sum, cat, ls, rmmod.  *)
(* A command runs to its end before the shell reads the next line, and     *)
(* may fail at each allocation and each access to the file system.         *)
(*                                                                         *)
(* The heap is the set of its blocks with what each holds.  A block that   *)
(* the code drops without freeing it stays, as Lost.                       *)
(***************************************************************************)
EXTENDS Integers, Sequences, SequencesExt, FiniteSets

CONSTANTS
  Files,        \* path -> [size, hdrs, pref, init_size, addr_max]
  Args,         \* what may follow the path of a kernel: lengths of arguments
  Blocks,       \* numbers of the blocks the heap has room for
  IntMax, MaxUsize, Meg, High,  \* 2^31 - 1, 2^32 - 1, 2^20; a pref_address from U32_MAX on
  null

Lost == [lost |-> TRUE]
ASSUME BlocksAssumption == Blocks \subseteq Nat /\ null \notin Blocks
ASSUME FilesAssumption == null \notin DOMAIN Files

VARIABLES
  heap,         \* block -> what it holds, for the blocks in use
  modules,      \* names of the modules loaded
  prefix,       \* loom_prefix_fs: "unsearched", "none" or "found"
  active,       \* kernel_loader is &linux_loader, not null
  linux,        \* linux_loader
  asked,        \* the files and arguments the loader was given, or null
  booted        \* what the kernel was handed, or null

loaderVars == <<heap, modules, prefix, active, linux, asked, booted>>

NoBuffer == [size |-> 0, data |-> null]
----------------------------------------------------------------------------
(* The heap.  Any allocation may fail.                                     *)

Fresh(h) ==
  {b \in Blocks \ DOMAIN h : \A c \in Blocks \ DOMAIN h : b <= c}
With(h, b, what) == [x \in DOMAIN h \cup {b} |-> IF x = b THEN what ELSE h[x]]
Freed(h, bs) == [x \in DOMAIN h \ bs |-> h[x]]

(* What opening a file adds, until it is closed.                           *)
FileCtx == [open |-> TRUE]
Opened(h) == {[heap |-> With(h, f, FileCtx), file |-> f] : f \in Fresh(h)}
----------------------------------------------------------------------------
(* A module removed while the loader or the prefix points into it leaves   *)
(* them pointing at freed memory: what uses them next is undefined, and    *)
(* the model does not go on from there.                                    *)
LoaderThere == active => "linux" \in modules
FsThere == prefix = "found" => "fat" \in modules
Running == booted = null /\ LoaderThere /\ FsThere

(* Removing the driver of a mounted file system, or the loader in use, is  *)
(* not refused.                                                            *)
Rmmod(m) ==
  /\ Running
  /\ m \in modules /\ modules' = modules \ {m}
  /\ UNCHANGED <<heap, prefix, active, linux, asked, booted>>

(* The devices are probed once; whether one holds a file system is theirs. *)
SearchCommand ==
  /\ Running
  /\ prefix' \in IF prefix = "unsearched" /\ "fat" \in modules THEN {"none", "found"}
                 ELSE {IF prefix = "found" THEN "found" ELSE "none"}
  /\ UNCHANGED <<heap, modules, active, linux, asked, booted>>
----------------------------------------------------------------------------
(* loomKernelLoaderRemove.                                                 *)

FlagInitrd == "INITRD"

Cleared(buffer) == IF buffer.data = null THEN buffer ELSE NoBuffer
LoaderRemove_KeepsInitrd ==
  IF ~active THEN [heap |-> heap, linux |-> linux]
  ELSE [heap |-> Freed(heap, {linux.kernel.data, linux.cmdline.data}),
        linux |-> [linux EXCEPT !.kernel = NoBuffer, !.cmdline = Cleared(@)]]
LoaderRemove ==
  IF ~active THEN [heap |-> heap, linux |-> linux]
  ELSE [heap |-> Freed(heap, {linux.kernel.data, linux.initrd.data, linux.cmdline.data}),
        linux |-> [linux EXCEPT !.kernel = NoBuffer, !.initrd = Cleared(@), !.cmdline = Cleared(@)]]
----------------------------------------------------------------------------
(* linux <path> <args>.                                                    *)

MinAddr(k) ==
  CASE k.pref = High -> Meg + k.size
    [] k.pref # High /\ k.pref + k.init_size > MaxUsize -> 0
    [] OTHER -> k.pref + k.init_size

(* linux_loader once the header has been found good.                       *)
Prepared(l, path, kbuf) ==
  LET k == Files[path]
  IN [l EXCEPT !.flags = {FlagInitrd}, !.kernel = [size |-> k.size, data |-> kbuf],
               !.initrd_min_addr = MinAddr(k), !.initrd_max_addr = k.addr_max]

Text(args) == FoldLeft(LAMBDA n, length : n + length + 1, 0, args)

(* Removed: the loader there was is gone, and no other comes in its place. *)
Removed(h, l) ==
  /\ heap' = h /\ linux' = l
  /\ active' = FALSE /\ asked' = null

(* The sizes are added to whatever size a failed call has left.  A loader  *)
(* that is set leaves its file open.                                       *)
CmdlineFails_Returns(o, l, args) ==
  LET size == l.cmdline.size + Text(args)
  IN /\ args # <<>>
     /\ Removed(o.heap, [l EXCEPT !.cmdline.size = IF size > MaxUsize THEN 0 ELSE size])
CmdlineFails(o, l, args) ==
  LET size == l.cmdline.size + Text(args)
  IN /\ args # <<>>
     /\ Removed(Freed(o.heap, {o.file, l.kernel.data}),
                [l EXCEPT !.cmdline.size = IF size > MaxUsize THEN 0 ELSE size])

CmdlineSet(o, l, path, args) ==
  LET size == l.cmdline.size + Text(args)
      h == [o.heap EXCEPT ![o.file] = Lost]
  IN /\ \/ args = <<>> /\ heap' = h /\ linux' = l
        \/ /\ args # <<>> /\ size <= MaxUsize
           /\ \E c \in Fresh(h) :
                /\ heap' = With(h, c, [args |-> args])
                /\ linux' = [l EXCEPT !.cmdline = [size |-> size - 1, data |-> c]]
     /\ active' = TRUE
     /\ asked' = [kernel |-> path, args |-> args, initrd |-> null,
                  excess |-> l.cmdline.size]

Linux(path, args) ==
  /\ Running /\ "linux" \in modules
  /\ LET r == LoaderRemove
     IN \/ Removed(r.heap, r.linux)      \* prefix, path, open, allocation, read, header
        \/ /\ prefix = "found" /\ Files[path].hdrs
           /\ \E o \in Opened(r.heap) : \E kbuf \in Fresh(o.heap) :
                LET loaded == [heap |-> With(o.heap, kbuf, [file |-> path]), file |-> o.file]
                    l == Prepared(r.linux, path, kbuf)
                IN CmdlineFails(loaded, l, args) \/ CmdlineSet(loaded, l, path, args)
  /\ UNCHANGED <<modules, prefix, booted>>
----------------------------------------------------------------------------
(* initrd <path>.  The image goes as high as there is room between the     *)
(* bounds; the one before it is not freed.                                 *)

Replaced(h, old) == IF old = null THEN h ELSE [h EXCEPT ![old] = Lost]

Initrd(path) ==
  /\ Running
  /\ \/ UNCHANGED <<heap, linux, asked>> \* prefix, loader, open, allocation, read
     \/ /\ prefix = "found" /\ active /\ FlagInitrd \in linux.flags
        /\ linux.initrd_min_addr <= linux.initrd_max_addr
        /\ \E o \in Opened(heap) : \E p \in Fresh(o.heap) :
             LET what == [file |-> path, min |-> linux.initrd_min_addr, max |-> linux.initrd_max_addr]
             IN /\ heap' = Freed(Replaced(With(o.heap, p, what), linux.initrd.data), {o.file})
                /\ linux' = [linux EXCEPT !.initrd = [size |-> Files[path].size, data |-> p]]
                /\ asked' = [asked EXCEPT !.initrd = path]
  /\ UNCHANGED <<modules, prefix, active, booted>>

(* linuxBoot: the header that the kernel is entered with.                  *)
Held(buffer) == [size |-> buffer.size, what |-> heap[buffer.data]]
Handed(buffer) == IF buffer.data = null THEN [size |-> 0, what |-> null] ELSE Held(buffer)

Boot ==
  /\ Running /\ active
  /\ booted' = [kernel |-> Held(linux.kernel), ramdisk |-> Handed(linux.initrd),
                cmdline |-> Handed(linux.cmdline)]
  /\ UNCHANGED <<heap, modules, prefix, active, linux, asked>>
----------------------------------------------------------------------------
(* readFile: the outcomes for the heap, and the buffer or null.            *)
ReadFile(path) ==
  {[heap |-> heap, buf |-> null]} \cup
  UNION {{[heap |-> Freed(With(o.heap, b, [file |-> path]), {o.file}), buf |-> b] :
            b \in Fresh(o.heap)} : o \in Opened(heap)}

(* md5sum, sha1sum and cat.  cat does not free a file it finds too large.  *)
Show(command, path) ==
  /\ Running /\ prefix = "found"
  /\ \E r \in ReadFile(path) :
       heap' = CASE r.buf = null -> r.heap
                 [] r.buf # null /\ command = "cat" /\ Files[path].size > IntMax ->
                      [r.heap EXCEPT ![r.buf] = Lost]
                 [] OTHER -> Freed(r.heap, {r.buf})
  /\ UNCHANGED <<modules, prefix, active, linux, asked, booted>>

(* ls closes the directory, unless reading it has failed.                  *)
Ls ==
  /\ Running /\ prefix = "found"
  /\ \E d \in Fresh(heap) : heap' \in {heap, With(heap, d, Lost)}
  /\ UNCHANGED <<modules, prefix, active, linux, asked, booted>>
----------------------------------------------------------------------------
LoaderInit ==
  /\ heap = <<>> /\ modules = {"fat", "linux"} /\ prefix = "unsearched"
  /\ active = FALSE /\ asked = null /\ booted = null
  /\ linux = [flags |-> {}, kernel |-> NoBuffer, initrd |-> NoBuffer, cmdline |-> NoBuffer,
              initrd_min_addr |-> 0, initrd_max_addr |-> 0]

LoaderNext ==
  \/ \E m \in {"fat", "linux"} : Rmmod(m)
  \/ SearchCommand \/ Ls \/ Boot
  \/ \E path \in DOMAIN Files :
       \/ \E args \in Args : Linux(path, args)
       \/ Initrd(path)
       \/ \E command \in {"md5sum", "sha1sum", "cat"} : Show(command, path)

LoaderSpec == LoaderInit /\ [][LoaderNext]_loaderVars
----------------------------------------------------------------------------
LoaderTypeOK ==
  /\ DOMAIN heap \subseteq Blocks
  /\ modules \subseteq {"fat", "linux"} /\ prefix \in {"unsearched", "none", "found"}
  /\ active \in BOOLEAN
  /\ linux.cmdline.size \in 0..MaxUsize

(* What is booted are the kernel, the image and the arguments of the last  *)
(* linux and of the initrd behind it, whole and unmixed, the image within  *)
(* the bounds of this kernel.  Only the size of the command line may be    *)
(* too large, by what an earlier call that failed has left in it.          *)
Image(path, k) ==
  IF path = null THEN [size |-> 0, what |-> null]
  ELSE [size |-> Files[path].size,
        what |-> [file |-> path, min |-> MinAddr(Files[k]), max |-> Files[k].addr_max]]
BootsTogether ==
  booted # null =>
    booted = [kernel |-> [size |-> Files[asked.kernel].size, what |-> [file |-> asked.kernel]],
              ramdisk |-> Image(asked.initrd, asked.kernel),
              cmdline |-> IF asked.args = <<>> THEN [size |-> 0, what |-> null]
                          ELSE [size |-> (asked.excess + Text(asked.args)) - 1,
                                what |-> [args |-> asked.args]]]

(* Whatever fails, every block is the loader's or one of those the code    *)
(* never frees: the file of a kernel, an image replaced, a file too large  *)
(* to show, a directory that could not be read.                            *)
NothingLost ==
  {b \in DOMAIN heap : heap[b] # Lost} =
    IF active THEN {linux.kernel.data, linux.initrd.data, linux.cmdline.data} \ {null} ELSE {}
=============================================================================
