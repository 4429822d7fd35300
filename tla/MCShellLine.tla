----------------------------- MODULE MCShellLine -----------------------------
(* Lines of a few characters in a buffer that holds nothing yet, or the    *)
(* remains of something else.                                              *)
EXTENDS ShellLine

MCGarbage == {[i \in Index |-> Nul], [i \in Index |-> "a"], [i \in Index |-> Space]}
=============================================================================
