-------------------------------- MODULE MCPs2 --------------------------------
(* A few keys, with the bounds of Ps2.                                     *)
EXTENDS Ps2
=============================================================================
