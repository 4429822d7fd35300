----------------------------- MODULE MCBlockDev -----------------------------
(* A disk, a partition, and a partition inside that one that claims a      *)
(* block more than there is, outside "part" and outside the disk.          *)
EXTENDS BlockDev, TLC

NestedParent == ("part" :> "disk") @@ ("inner" :> "part")
NestedOffset == ("part" :> 1) @@ ("inner" :> 3)
NestedBlocks == ("disk" :> 5) @@ ("part" :> 4) @@ ("inner" :> 2)

(* The ring CacheInit stands for is the one the code links entry by entry. *)
LinkedAlone == [CacheInit EXCEPT !.mru = 1, !.next[1] = 1, !.prev[1] = 1]
Linked ==
  LET upTo[n \in Entry] == IF n = 1 THEN LinkedAlone ELSE LinkMruHead(upTo[n - 1], n)
  IN upTo[Entries]

ASSUME CacheInitLinks == Linked = CacheInit
=============================================================================
