------------------------------ MODULE BiosDisk ------------------------------
(***************************************************************************)
(* biosDiskRead (bios/bios.c): the requests of a list are cut into batches *)
(* that fit one call of the BIOS and one bounce buffer, read one by one in *)
(* real mode, and copied from the bounce buffer to where they belong.  A   *)
(* request too large for its batch is continued from a private copy.       *)
(*                                                                         *)
(* Memory is counted in blocks.  Requests are objects linked by next, as   *)
(* in the code: 1.. are the caller's, Partial is the private copy.         *)
(***************************************************************************)
EXTENDS Integers, Sequences, FiniteSetsExt

CONSTANTS
  Lists,       \* the caller's lists: sequences of [block, count, buf]
  Memory,      \* the places blocks are read to
  Stale,       \* what a place holds before it is read to
  MaxBlocks,   \* max_allotment: the blocks of one batch
  MaxReqs,     \* BIOS_IO_REQS_LIMIT: the requests of one batch
  DiskBlocks   \* the size of the disk; the BIOS fails past its end

ASSUME BiosAssumption ==
  /\ MaxBlocks \in Nat \ {0} /\ MaxReqs \in Nat \ {0} /\ DiskBlocks \in Nat
  /\ Memory \subseteq Nat
  /\ Lists \subseteq Seq([block : Nat, count : Nat \ {0}, buf : Nat]) \ {<<>>}

(* The places a list names are memory, each named once: the requests of    *)
(* loomBlockDevRead are for its scratch blocks and for parts of one buffer.*)
Places(r) == r.buf..(r.buf + r.count - 1)

ASSUME PlacesAssumption ==
  \A l \in Lists : \A i \in DOMAIN l :
    /\ Places(l[i]) \subseteq Memory
    /\ \A j \in DOMAIN l : i # j => Places(l[i]) \cap Places(l[j]) = {}

VARIABLES
  pc,          \* where the loop is: idle, build, bios, copy, ok or error
  list,        \* the list the caller passed, as it was
  reqs,        \* the request objects
  io_reqs,     \* the first request not yet served
  batch,       \* bios_io_reqs: [block, count, at], at being a bounce block
  called,      \* how many of them the BIOS has served
  bounce,      \* the bounce buffer
  mem          \* the memory requests are read to

vars == <<pc, list, reqs, io_reqs, batch, called, bounce, mem>>

Null == -1
Partial == 0

Least(a, b) == IF a < b THEN a ELSE b
----------------------------------------------------------------------------
(* The requests from p on, following next.                                 *)
Chain(p) ==
  LET from[q \in DOMAIN reqs \cup {Null}] ==
        IF q = Null THEN <<>> ELSE <<q>> \o from[reqs[q].next]
  IN from[p]

(* The loop that fills a batch: Before is what the requests ahead of the   *)
(* j-th one take of the allotment, Blocks what is left for it.             *)
Before(s, j) ==
  LET sum[k \in 0..Len(s)] == IF k = 0 THEN 0 ELSE sum[k - 1] + reqs[s[k]].count
  IN sum[j - 1]
Blocks_Whole(s, j) == reqs[s[j]].count
Blocks(s, j) == Least(reqs[s[j]].count, MaxBlocks - Before(s, j))
Taken(s) == {j \in 1..Least(Len(s), MaxReqs) : Before(s, j) < MaxBlocks}
----------------------------------------------------------------------------
Init ==
  /\ pc = "idle" /\ list = <<>>
  /\ reqs = [i \in {} |-> 0] /\ io_reqs = Null
  /\ batch = <<>> /\ called = 0
  /\ bounce = [k \in 0..(MaxBlocks - 1) |-> Stale]
  /\ mem = [a \in Memory |-> Stale]

(* The call: the loop starts at the caller's first request.                *)
Start ==
  /\ pc \in {"idle", "ok", "error"}
  /\ list' \in Lists
  /\ reqs' = [i \in DOMAIN list' |->
                [block |-> list'[i].block, count |-> list'[i].count, buf |-> list'[i].buf,
                 next |-> IF i = Len(list') THEN Null ELSE i + 1]]
  /\ io_reqs' = 1
  /\ mem' = [a \in Memory |-> Stale]
  /\ pc' = "build"
  /\ UNCHANGED <<batch, called, bounce>>

Build ==
  /\ pc = "build"
  /\ LET s == Chain(io_reqs)
     IN batch' = [j \in Taken(s) |-> [block |-> reqs[s[j]].block,
                                      count |-> Blocks(s, j), at |-> Before(s, j)]]
  /\ called' = 0
  /\ pc' = "bios"
  /\ UNCHANGED <<list, reqs, io_reqs, bounce, mem>>

(* int 13h for the next request of the batch (external, see disk.S).       *)
BiosReads ==
  /\ pc = "bios" /\ called < Len(batch)
  /\ LET r == batch[called + 1]
     IN /\ r.block + r.count <= DiskBlocks
        /\ bounce' = [k \in DOMAIN bounce |->
                        IF k \in r.at..(r.at + r.count - 1)
                        THEN r.block + (k - r.at) ELSE bounce[k]]
  /\ called' = called + 1
  /\ UNCHANGED <<pc, list, reqs, io_reqs, batch, mem>>

BiosFails_Retries ==
  /\ pc = "bios" /\ called < Len(batch)
  /\ called' = 0
  /\ UNCHANGED <<pc, list, reqs, io_reqs, batch, bounce, mem>>

BiosFails ==
  /\ pc = "bios" /\ called < Len(batch)
  /\ pc' = "error"
  /\ UNCHANGED <<list, reqs, io_reqs, batch, called, bounce, mem>>

BiosReturns ==
  /\ pc = "bios" /\ called = Len(batch)
  /\ pc' = "copy"
  /\ UNCHANGED <<list, reqs, io_reqs, batch, called, bounce, mem>>

(* What is left of a request that was served in part.                      *)
Remainder_SameBuffer(r, n) == [r EXCEPT !.block = @ + n, !.count = @ - n]
Remainder(r, n) == [r EXCEPT !.block = @ + n, !.count = @ - n, !.buf = @ + n]

(* The private copy replaces no request of the caller.                     *)
Continue_InPlace(q, n) ==
  /\ io_reqs' = q
  /\ reqs' = [reqs EXCEPT ![q] = Remainder(@, n)]

Continue(q, n) ==
  /\ io_reqs' = Partial
  /\ reqs' = [i \in DOMAIN reqs \cup {Partial} |->
                IF i = Partial THEN Remainder(reqs[q], n) ELSE reqs[i]]

(* Copy out of the bounce buffer and move on in the list.                  *)
Consume ==
  /\ pc = "copy"
  /\ LET s == Chain(io_reqs)
         taken == Taken(s)
         last == Max(taken)
     IN /\ mem' = [a \in Memory |->
                     IF \E j \in taken : a - reqs[s[j]].buf \in 0..(Blocks(s, j) - 1)
                     THEN LET j == CHOOSE j \in taken :
                                     a - reqs[s[j]].buf \in 0..(Blocks(s, j) - 1)
                          IN bounce[Before(s, j) + a - reqs[s[j]].buf]
                     ELSE mem[a]]
        /\ IF reqs[s[last]].count > Blocks(s, last)
           THEN Continue(s[last], Blocks(s, last))
           ELSE io_reqs' = reqs[s[last]].next /\ UNCHANGED reqs
  /\ pc' = IF io_reqs' = Null THEN "ok" ELSE "build"
  /\ UNCHANGED <<list, batch, called, bounce>>

Read == Build \/ BiosReads \/ BiosFails \/ BiosReturns \/ Consume

Next == Start \/ Read

(* The loop runs on once started, and the BIOS returns from every call.    *)
Spec == Init /\ [][Next]_vars /\ WF_vars(Read)
----------------------------------------------------------------------------
TypeOK ==
  /\ pc \in {"idle", "build", "bios", "copy", "ok", "error"}
  /\ io_reqs \in DOMAIN reqs \cup {Null}
  /\ DOMAIN reqs \subseteq {Partial} \cup DOMAIN list
  /\ \A i \in DOMAIN reqs : reqs[i].count > 0 /\ reqs[i].next \in DOMAIN list \cup {Null}
  /\ called \in 0..Len(batch)
  /\ DOMAIN mem = Memory

(* A batch fits the BIOS's table and the bounce buffer, its requests side  *)
(* by side, whatever is left over from the batches before.                 *)
BatchFits ==
  /\ Len(batch) <= MaxReqs
  /\ \A j \in DOMAIN batch : batch[j].at + batch[j].count <= MaxBlocks
  /\ \A j, k \in DOMAIN batch : j < k => batch[j].at + batch[j].count <= batch[k].at

(* bios.c:134, "This is necessary to prevent modifying user IO requests    *)
(* in-place": the caller finds its requests as it passed them.             *)
CallerRequestsKept ==
  pc # "idle" =>
    \A i \in DOMAIN list : /\ reqs[i].block = list[i].block
                           /\ reqs[i].count = list[i].count
                           /\ reqs[i].buf = list[i].buf

(* Seen by the caller the loop is a block service: "ok" means that every   *)
(* block is in its place, an error that some may be, and no other memory   *)
(* is written; and it always answers.                                      *)
Service == INSTANCE BlockService WITH
  asked <- list,
  answer <- CASE pc = "idle" -> "idle"
              [] pc \in {"build", "bios", "copy"} -> "reading"
              [] pc \in {"ok", "error"} -> pc

KeepsService == Service!Spec

AlwaysAnswers == Service!Answered
=============================================================================
