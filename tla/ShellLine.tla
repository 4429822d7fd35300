------------------------------ MODULE ShellLine ------------------------------
(***************************************************************************)
(* The shell's prompt (core/shell.c): the line in its buffer, the screen   *)
(* it is shown on (vga.c), and the words a command gets when the line is   *)
(* entered.                                                                *)
(***************************************************************************)
EXTENDS Integers, Sequences, SequencesExt, FiniteSetsExt

CONSTANTS
  Cap,         \* CAP, 4096
  Chars,       \* the characters keys give, Space among them
  Garbage,     \* what loomAlloc may leave in the buffer
  Rows, Cols,  \* ROWS and COLS of the screen
  Old          \* whatever stands on the screen where the line is not

Space == " "
Nul == "NUL"
Bs == "BS"     \* moves the console's cursor back
Index == 0..(Cap - 1)
VmemMax == Rows * Cols
Cells == 0..(VmemMax - 1)

ASSUME ShellAssumption ==
  /\ Cap \in Nat /\ Cap >= 3
  /\ Space \in Chars /\ Nul \notin Chars /\ Bs \notin Chars
  /\ Garbage \subseteq [Index -> Chars \cup {Nul}]
  /\ Rows \in Nat \ {0} /\ Cols \in Nat \ {0}

VARIABLES
  buf, len, cursor,     \* struct shell
  home,                 \* the cell behind the prompt
  shown,                \* whether the console shows the line
  argv,                 \* the words of the command being run
  entered               \* the line it is run from, as edited

vars == <<buf, len, cursor, home, shown, argv, entered>>

Line == [i \in 1..len |-> buf[i - 1]]
----------------------------------------------------------------------------
(* The console.  In the last cell the cursor goes to the start of the last *)
(* row, which loomVgaScroll leaves as it is.                               *)
Put(s, ch) ==
  IF ch = Bs THEN [s EXCEPT !.at = IF @ > 0 THEN @ - 1 ELSE @]
  ELSE [s EXCEPT !.cells = [@ EXCEPT ![s.at] = ch],
                 !.at = IF @ + 1 >= VmemMax THEN (Rows - 1) * Cols ELSE @ + 1]

Printed(s, text) ==
  LET upTo[n \in 0..Len(text)] == IF n = 0 THEN s ELSE Put(upTo[n - 1], text[n])
  IN upTo[Len(text)]

(* A line from home on, then blanks to its former end.                     *)
Showing(line, end, place) ==
  [cells |-> [i \in Cells |->
     LET k == i - home + 1
     IN IF k \in 1..Len(line) THEN line[k] ELSE IF k \in 1..end THEN Space ELSE Old],
   at |-> home + place]

(* A console that does not show the line is followed again from the next   *)
(* prompt.                                                                 *)
Log(text) ==
  /\ shown' = (shown /\ Printed(Showing(Line, len, cursor), text) = Showing(Line', len, cursor'))
  /\ UNCHANGED home

(* A string of C: up to the first terminator.                              *)
Text(b, i) ==
  LET end == Min({k \in i..Cap : k = Cap \/ b[k] = Nul})
  IN [k \in 1..(end - i) |-> b[i + k - 1]]

(* A key comes after the command has returned, and argv is freed.          *)
Back == argv' = <<>> /\ entered' = <<>>

Times(n, ch) == [k \in 1..n |-> ch]
----------------------------------------------------------------------------
(* The keys.                                                               *)

ShiftUp_DropsLast(b, from, n) == [i \in Index |-> IF i \in (from + 1)..(n - 1) THEN b[i - 1] ELSE b[i]]
ShiftUp(b, from, n) == [i \in Index |-> IF i \in (from + 1)..n THEN b[i - 1] ELSE b[i]]
ShiftDown(b, from, n) == [i \in Index |-> IF i \in from..(n - 1) THEN b[i + 1] ELSE b[i]]

Full_LeavesOne(n) == n >= Cap - 1
Full(n) == n >= Cap - 2

(* At the end of the line the terminator goes one place too far.           *)
PutLast(b, n, ch) == [b EXCEPT ![n] = ch, ![n + 2] = Nul]
Insert_NoEnd(b, at, n, ch) == [ShiftUp(b, at, n) EXCEPT ![at] = ch]
Insert(b, at, n, ch) == [ShiftUp(b, at, n) EXCEPT ![at] = ch, ![n + 1] = Nul]

Type(ch) ==
  /\ ~Full(len)
  /\ cursor' = cursor + 1 /\ len' = len + 1
  /\ IF cursor = len
     THEN /\ buf' = PutLast(buf, len, ch)
          /\ Log(<<ch>>)
     ELSE /\ buf' = Insert(buf, cursor, len, ch)
          /\ Log(<<ch>> \o Text(buf', cursor + 1) \o Times(len - cursor, Bs))
  /\ Back

Over_LeavesLast(rest, back) == <<Bs>> \o rest \o Times(back, Bs)
Over(rest, back) == <<Bs>> \o rest \o <<Space, Bs>> \o Times(back, Bs)

Shorten(b, n) == [b EXCEPT ![n] = Nul]

Backspace ==
  /\ cursor > 0
  /\ cursor' = cursor - 1 /\ len' = len - 1
  /\ IF cursor = len
     THEN /\ buf' = Shorten(buf, len - 1)
          /\ Log(<<Bs, Space, Bs>>)
     ELSE /\ buf' = Shorten(ShiftDown(buf, cursor - 1, len - 1), len - 1)
          /\ Log(Over(Text(buf, cursor), len - cursor))
  /\ Back

Left ==
  /\ cursor > 0
  /\ cursor' = cursor - 1
  /\ UNCHANGED <<buf, len>>
  /\ Log(<<Bs>>)
  /\ Back

Right ==
  /\ cursor < len
  /\ cursor' = cursor + 1
  /\ UNCHANGED <<buf, len>>
  /\ Log(<<buf[cursor]>>)
  /\ Back
----------------------------------------------------------------------------
(* shellParseArg: the word at or behind a position ends at a space, which  *)
(* is overwritten, or at the terminator.                                   *)
EndOfText(b) == Min({k \in 0..Cap : k = Cap \/ b[k] = Nul})
WordStart_Here(b, p) == p
WordStart(b, p) == Min({k \in p..Cap : k >= EndOfText(b) \/ b[k] # Space})
WordEnd(b, p) == Min({k \in WordStart(b, p)..Cap : k >= EndOfText(b) \/ b[k] = Space})

NextPos(b, end) == IF end < EndOfText(b) THEN end + 1 ELSE end

NoWord(b, p) == p >= EndOfText(b) \/ WordStart(b, p) = EndOfText(b)
Word(b, p) == [k \in 1..(WordEnd(b, p) - WordStart(b, p)) |-> b[WordStart(b, p) + k - 1]]

(* The loop of shellExecCommand.                                           *)
Args(b) ==
  LET from[p \in 0..Cap] ==
        IF NoWord(b, p) THEN <<>> ELSE <<Word(b, p)>> \o from[NextPos(b, WordEnd(b, p))]
  IN from[0]

(* The spaces behind words are terminators now.                            *)
Cut(b) ==
  [k \in Index |-> IF k > 0 /\ k < EndOfText(b) /\ b[k] = Space /\ b[k - 1] # Space
                   THEN Nul ELSE b[k]]

Enter ==
  /\ argv' = Args(buf)
  /\ entered' = Line
  /\ buf' = [Cut(buf) EXCEPT ![0] = Nul]
  /\ len' = 0 /\ cursor' = 0
  /\ home' \in Cells /\ shown' = TRUE
----------------------------------------------------------------------------
Init ==
  /\ buf \in {[g EXCEPT ![0] = Nul] : g \in Garbage}
  /\ len = 0 /\ cursor = 0
  /\ home \in Cells /\ shown = TRUE
  /\ argv = <<>> /\ entered = <<>>

Next == (\E ch \in Chars : Type(ch)) \/ Backspace \/ Left \/ Right \/ Enter

Spec == Init /\ [][Next]_vars
----------------------------------------------------------------------------
TypeOK ==
  /\ buf \in [Index -> Chars \cup {Nul}]
  /\ len \in 0..(Cap - 2) /\ cursor \in 0..len
  /\ home \in Cells /\ shown \in BOOLEAN

(* The line and the cursor behind it lie on the screen.                    *)
Fits == home + len \in Cells

(* shellWriteKeyCode prints only what changed: on a line that ends at len, *)
(* and as long as it does not reach the last cell of the screen, no key    *)
(* makes the console differ from the line or its cursor, or leaves behind  *)
(* the line what is no longer part of it.                                  *)
KeysKeepScreen == [][shown /\ EndOfText(buf) = len /\ Fits /\ Fits' => shown']_vars

(* The terminator is at most one place too far, however the line was made. *)
LineEnds == EndOfText(buf) \in {len, len + 1}

(* The words of a line: the longest runs without a space, from left to     *)
(* right.                                                                  *)
Starts(line) == {i \in DOMAIN line : line[i] # Space /\ (i = 1 \/ line[i - 1] = Space)}
WordAt(line, i) == SubSeq(line, i, Max({k \in i..Len(line) : \A m \in i..k : line[m] # Space}))

AreWords(words, line) ==
  \E at \in [1..Len(words) -> Starts(line)] :
    /\ \A i \in Starts(line) : \E n \in 1..Len(words) : at[n] = i
    /\ \A m, n \in 1..Len(words) : m < n => at[m] < at[n]
    /\ words = [n \in 1..Len(words) |-> WordAt(line, at[n])]

(* shellExecCommand gives a command the words of the line, of a line that  *)
(* got a terminator too far with one character the buffer held before.     *)
RunsLine ==
  \/ AreWords(argv, entered)
  \/ \E stale \in Chars : AreWords(argv, Append(entered, stale))

(* shell.c:133 and shell.c:205 end the line at len: what is run is what    *)
(* the line holds.                                                         *)
RunsTheLine == AreWords(argv, entered)

(* Seen by the user the prompt is a line editor: keys change the line at   *)
(* the cursor and nowhere else, and Enter takes it whole.                  *)
Editor == INSTANCE LineEditor WITH MaxLength <- Cap - 2, line <- Line

KeepsLine == Editor!Spec
=============================================================================
