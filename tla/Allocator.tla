----------------------------- MODULE Allocator -----------------------------
(***************************************************************************)
(* What the loader expects of its heap (loom/mm.h), with no word of how    *)
(* chunks are kept: blocks of memory are granted, exchanged and given      *)
(* back, no granule of 8 bytes ever belongs to two of them, and a block    *)
(* has room for the bytes asked for with a granule to spare at most.       *)
(***************************************************************************)
EXTENDS Integers

CONSTANTS
  Memory,      \* the granules the heap was given
  Sizes        \* the byte counts a caller may ask for

VARIABLE owned   \* the blocks callers hold: first granule -> [bytes, length]

Block(p, len) == p..(p + len - 1)

(* The length granted for n bytes, the block being free of other owners.   *)
Lengths(n) == {(n + 7) \div 8, (n + 7) \div 8 + 1}

Fresh(p, len) ==
  /\ Block(p, len) \subseteq Memory
  /\ \A q \in DOMAIN owned : Block(p, len) \cap Block(q, owned[q].length) = {}

With(p, n, len) ==
  [q \in DOMAIN owned \cup {p} |->
     IF q = p THEN [bytes |-> n, length |-> len] ELSE owned[q]]

Init == owned = [q \in {} |-> 0]

Grant ==
  \E n \in Sizes : \E p \in Memory, len \in Lengths(n) :
    /\ Fresh(p, len)
    /\ owned' = With(p, n, len)

(* The new block exists while the old one is still there to copy from.     *)
Exchange ==
  \E n \in Sizes : \E p \in Memory, len \in Lengths(n), old \in DOMAIN owned :
    /\ Fresh(p, len)
    /\ owned' = [q \in DOMAIN With(p, n, len) \ {old} |-> With(p, n, len)[q]]

GiveBack ==
  \E old \in DOMAIN owned :
    owned' = [q \in DOMAIN owned \ {old} |-> owned[q]]

Next == Grant \/ Exchange \/ GiveBack

Spec == Init /\ [][Next]_owned
============================================================================
