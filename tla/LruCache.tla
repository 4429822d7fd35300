------------------------------ MODULE LruCache ------------------------------
(***************************************************************************)
(* The order a block cache promises: it remembers the Capacity blocks used *)
(* last, and forgets the oldest of them first.                             *)
(***************************************************************************)
EXTENDS Integers, Sequences, SequencesExt

CONSTANTS
  Caches,
  Keys,      \* the blocks
  Capacity,
  None

VARIABLES
  recent,    \* cache -> the blocks it remembers, last used first
  used       \* the cache and block just used, or None

vars == <<recent, used>>

Init ==
  /\ recent = [c \in Caches |-> <<>>]
  /\ used = None

(* The block is found.                                                     *)
Find(c, b) ==
  /\ used' = <<c, b>>
  /\ \E i \in DOMAIN recent[c] :
       /\ recent[c][i] = b
       /\ recent' = [recent EXCEPT ![c] = <<b>> \o RemoveAt(@, i)]

(* It is not: it is read and remembered, in the oldest's place if there is *)
(* no other.                                                               *)
Remember(c, b) ==
  /\ used' = <<c, b>>
  /\ \A i \in DOMAIN recent[c] : recent[c][i] # b
  /\ recent' = [recent EXCEPT ![c] = <<b>> \o (IF Len(@) = Capacity THEN Front(@) ELSE @)]

(* Reading a block in failed: the oldest made room for it in vain.         *)
Forget(c) ==
  /\ used' = None
  /\ Len(recent[c]) = Capacity
  /\ recent' = [recent EXCEPT ![c] = Front(@)]

(* A read that does not go through a cache, or fails without making room.  *)
Other ==
  /\ used' = None
  /\ UNCHANGED recent

Next == Other \/ \E c \in Caches : Forget(c) \/ \E b \in Keys : Find(c, b) \/ Remember(c, b)

Spec == Init /\ [][Next]_vars
=============================================================================
