------------------------------- MODULE MCHeap -------------------------------
(* Instances of Heap small enough for TLC: one arena or two, of a few      *)
(* granules, and requests that fill a chunk exactly, leave slack, leave a  *)
(* remainder, or overflow.                                                 *)
EXTENDS Heap

OneArena == <<[lo |-> 4, hi |-> 16]>>
TwoArenas == <<[lo |-> 19, hi |-> 22], [lo |-> 4, hi |-> 15]>>

SmallArrays == {<<2, 8>>, <<3, 100>>, <<2, 0>>}

Align(s, a, mn, mx) == [size |-> s, align |-> a, min |-> mn, max |-> mx]
AnyAligned == {Align(8, 32, 0, 31), Align(9, 3, 0, 31)}
RangeAligned == {Align(8, 32, 0, 31), Align(9, 3, 0, 31), Align(8, 16, 6, 20)}
============================================================================
