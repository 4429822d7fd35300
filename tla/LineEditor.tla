----------------------------- MODULE LineEditor -----------------------------
(***************************************************************************)
(* What the user of a shell expects of its prompt: a line with a cursor,   *)
(* edited key by key, and entered as it stands.                            *)
(***************************************************************************)
EXTENDS Integers, Sequences, SequencesExt

CONSTANTS
  Chars,
  MaxLength

VARIABLES
  line,
  cursor,     \* characters to the left of the cursor
  entered     \* the line entered by the last key, if it was Enter

vars == <<line, cursor, entered>>

Init == line = <<>> /\ cursor = 0 /\ entered = <<>>

Type(ch) ==
  /\ Len(line) < MaxLength
  /\ line' = InsertAt(line, cursor + 1, ch)
  /\ cursor' = cursor + 1
  /\ entered' = <<>>

Erase ==
  /\ cursor > 0
  /\ line' = RemoveAt(line, cursor)
  /\ cursor' = cursor - 1
  /\ entered' = <<>>

Move ==
  /\ cursor' \in {cursor - 1, cursor + 1} \cap 0..Len(line)
  /\ entered' = <<>> /\ UNCHANGED line

Enter ==
  /\ entered' = line
  /\ line' = <<>> /\ cursor' = 0

Next == (\E ch \in Chars : Type(ch)) \/ Erase \/ Move \/ Enter

Spec == Init /\ [][Next]_vars
=============================================================================
