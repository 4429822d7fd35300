------------------------------ MODULE MCProbe ------------------------------
(* Four drives: one with an MBR and two partitions, of which the first is  *)
(* a FAT volume and the second claims more than there is; one with a       *)
(* protective MBR and a GPT, of whose partitions one is a FAT volume and   *)
(* one has an MBR; one of MaxUsize + 1 blocks, a FAT volume with an MBR    *)
(* and a GPT whose entries lie too far; one whose boot code passes for a   *)
(* table, of a partition that contains itself.                             *)
EXTENDS Probe

E(type, start, sectors) ==
  [bad_status |-> FALSE, type |-> type, start |-> start, sectors |-> sectors]
None == E("empty", 0, 0)
Bad == [None EXCEPT !.bad_status = TRUE]
U(start, end) == [used |-> TRUE, start |-> start, end |-> end]
Unused == [used |-> FALSE, start |-> 5, end |-> 1]

MCDrives == <<8, 16 + 9, 16, 4>>
Places == {<<1, 0>>, <<1, 2>>, <<2, 0>>, <<2, 4>>, <<2, 8>>, <<3, 0>>, <<3, 1>>, <<4, 0>>}
MCMbr == [p \in Places |->
  CASE p = <<1, 0>> -> <<E("extended", 1, 2), E("data", 2, 3), None, E("data", 4, 9)>>
    [] p = <<2, 0>> -> <<None, E("gpt", 1, 8), E("data", 1, 1), None>>
    [] p = <<2, 8>> -> <<E("data", 5, 1), None, None, None>>
    [] p = <<1, 2>> -> <<Bad, E("data", 0, 1), None, None>>
    [] p = <<3, 0>> -> <<None, E("data", 1, 2), None, None>>
    [] p = <<4, 0>> -> <<E("data", 0, 3), Bad, None, None>>
    [] OTHER -> <<None, None, None, None>>]
MCGpt == [p \in {<<2, 1>>, <<3, 1>>} |->
  IF p = <<3, 1>> THEN [loc |-> 4, entries |-> <<U(5, 6)>>]
  ELSE [loc |-> 2, entries |-> <<Unused, U(4, 6), U(3, 30), U(20, 21), U(8, 8), U(9, 7), U(1, 1)>>]]
MCFat == {<<1, 2>>, <<2, 4>>, <<3, 0>>, <<3, 1>>, <<4, 0>>}
MCOrders == {<<"mbr", "gpt">>, <<"gpt", "mbr">>}
=============================================================================
