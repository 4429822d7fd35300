----------------------------- MODULE MCBiosDisk -----------------------------
(* Lists of the shapes loomBlockDevRead makes, a head block, a run of      *)
(* blocks and a tail block, and longer ones, on a disk of nine blocks.     *)
EXTENDS BiosDisk

Req(b, n, at) == [block |-> b, count |-> n, buf |-> at]

MCMemory == 0..9

MCLists ==
  {<<Req(b, n, 1)>> : b \in {0, 2}, n \in 1..7}
    \cup {<<Req(0, 1, 0), Req(1, n, 2), Req(n + 1, 1, 9)>> : n \in {1, 2, 5}}
    \cup {<<Req(4, n, 1), Req(0, m, 5)>> : n, m \in {1, 3, 4}}
    \cup {<<Req(3, 1, 8), Req(5, 4, 0), Req(0, 2, 5), Req(8, 1, 7)>>}
=============================================================================
