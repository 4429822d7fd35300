------------------------------ MODULE MCGetOpts ------------------------------
(* Words of every kind: a file, a dash, the end of options, a flag, an     *)
(* option with a separate or an attached argument, and both in one.        *)
EXTENDS GetOpts, TLC

MCWords == {<<"x">>, <<"y">>, <<"-">>, <<"-", "-">>, <<"-", "v">>, <<"-", "n">>,
            <<"-", "n", "x">>, <<"-", "v", "n">>, <<"-", "u", "v">>}
=============================================================================
