---------------------------- MODULE BlockService ----------------------------
(***************************************************************************)
(* What a block device's readv promises (loom/block_dev.h): a list of      *)
(* requests is answered with "ok" once every block asked for is in its     *)
(* place, or with "error", and nothing else in memory is written.          *)
(***************************************************************************)
EXTENDS Integers, Sequences

CONSTANTS
  Lists,      \* request lists: sequences of [block, count, buf]
  Memory,     \* the places blocks are read to, in units of a block
  Stale       \* what a place holds before it is read to

VARIABLES
  asked,      \* the list being answered, or the last one
  mem,        \* place -> number of the disk block it holds
  answer      \* "idle", "reading", "ok" or "error"

vars == <<asked, mem, answer>>

(* The places of a list with the blocks that belong there.                 *)
Wanted(l) ==
  UNION {{[place |-> l[i].buf + k, block |-> l[i].block + k] :
            k \in 0..(l[i].count - 1)} : i \in DOMAIN l}

Init ==
  /\ asked = <<>>
  /\ mem = [a \in Memory |-> Stale]
  /\ answer = "idle"

Ask ==
  /\ answer # "reading"
  /\ asked' \in Lists
  /\ mem' = [a \in Memory |-> Stale]
  /\ answer' = "reading"

(* Some of the blocks arrive; the answer is "ok" when all have.            *)
Deliver ==
  /\ answer = "reading"
  /\ \E arrived \in SUBSET Wanted(asked) :
       /\ mem' = [a \in Memory |->
                    IF \E w \in arrived : w.place = a
                    THEN (CHOOSE w \in arrived : w.place = a).block
                    ELSE mem[a]]
       /\ answer' \in {"reading", "ok", "error"}
       /\ answer' = "ok" => \A w \in Wanted(asked) : mem'[w.place] = w.block
  /\ UNCHANGED asked

Next == Ask \/ Deliver

Spec == Init /\ [][Next]_vars

(* Every question is answered.                                             *)
Answered == answer = "reading" ~> answer # "reading"
=============================================================================
