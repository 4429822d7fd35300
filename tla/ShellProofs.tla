----------------------------- MODULE ShellProofs -----------------------------
(***************************************************************************)
(* Proofs about the shell's line, for any size of the buffer and any       *)
(* characters: the buffer is never overrun, the terminator is where it     *)
(* belongs or one place behind, and the prompt is a line editor; for any   *)
(* arguments, loomGetOpts returns the options meant and leaves the files.  *)
(***************************************************************************)
EXTENDS ShellLine, GetOpts, WellFoundedInduction, SequenceTheorems, FiniteSetTheorems,
        FunctionTheorems, TLAPS

(* The least element of a set of numbers: induction without an operator.   *)
LEMMA LeastElement ==
  ASSUME NEW T \in SUBSET Nat, T # {}
  PROVE  \E m \in T : \A k \in T : m <= k
<1> DEFINE R == {ss \in Nat \X Nat : ss[1] < ss[2]}
<1>1. IsWellFoundedOn(R, Nat)
  BY NatLessThanWellFounded, Zenon DEF OpToRel
<1>2. PICK x \in T : \A y \in T : ~ (<<y, x>> \in R)
  BY <1>1, WFMin
<1>3. ASSUME NEW y \in T PROVE x <= y
  <2>1. ~ (y < x)
    BY <1>2
  <2> QED
    BY <2>1
<1> QED
  BY <1>3

(* No terminator inside the line, and one at its end or right behind.      *)
Ended(b, n) ==
  /\ \A i \in 0..(n - 1) : b[i] # Nul
  /\ b[n] = Nul \/ b[n + 1] = Nul

LineInv == TypeOK /\ Ended(buf, len)
----------------------------------------------------------------------------
(* The first terminator is the end of the text.                            *)
LEMMA EndIs ==
  ASSUME NEW b, NEW n \in 0..(Cap - 2), Ended(b, n)
  PROVE  EndOfText(b) \in {n, n + 1}
<1>1. Cap \in Nat
  BY ShellAssumption
<1> DEFINE S == {k \in 0..Cap : k = Cap \/ b[k] = Nul}
<1>2. ASSUME NEW m \in S, \A k \in S : m <= k  PROVE Min(S) = m
  <2>1. Min(S) \in S /\ \A k \in S : Min(S) <= k
    BY <1>2 DEF Min
  <2>2. Min(S) <= m /\ m <= Min(S)
    BY <2>1, <1>2
  <2> QED
    BY <2>1, <2>2, <1>1, <1>2
<1>3. \A k \in S : n <= k
  BY <1>1 DEF Ended
<1>4. CASE b[n] = Nul
  <2>1. n \in S
    BY <1>1, <1>4
  <2> QED
    BY <2>1, <1>2, <1>3 DEF EndOfText
<1>5. CASE b[n] # Nul
  <2>1. n + 1 \in S
    BY <1>1, <1>5 DEF Ended
  <2>2. \A k \in S : n + 1 <= k
    <3> TAKE k \in S
    <3>1. k # n
      BY <1>1, <1>5
    <3> QED
      BY <3>1, <1>3, <1>1
  <2> QED
    BY <2>1, <2>2, <1>2 DEF EndOfText
<1> QED
  BY <1>4, <1>5
----------------------------------------------------------------------------
(* What each key does to the buffer.                                       *)
LEMMA TypeKeepsInv ==
  ASSUME LineInv, NEW ch \in Chars, Type(ch)
  PROVE  LineInv'
<1>1. Cap \in Nat /\ Nul \notin Chars
  BY ShellAssumption
<1>2. len \in 0..(Cap - 3) /\ cursor \in 0..len /\ cursor' = cursor + 1 /\ len' = len + 1
  BY <1>1 DEF LineInv, TypeOK, Type, Full
<1>3. shown' \in BOOLEAN /\ home' \in Cells
  BY DEF LineInv, TypeOK, Type, Log
<1>4. CASE cursor = len
  <2>1. buf' = [buf EXCEPT ![len] = ch, ![len + 2] = Nul]
    BY <1>4 DEF Type, PutLast
  <2>2. buf' \in [Index -> Chars \cup {Nul}]
    BY <2>1 DEF LineInv, TypeOK
  <2>3. Ended(buf', len')
    BY <2>1, <1>1, <1>2 DEF LineInv, TypeOK, Ended, Index
  <2> QED
    BY <1>1, <1>2, <1>3, <2>2, <2>3 DEF LineInv, TypeOK
<1>5. CASE cursor # len
  <2>1. buf' = [ShiftUp(buf, cursor, len) EXCEPT ![cursor] = ch, ![len + 1] = Nul]
    BY <1>5 DEF Type, Insert
  <2>2. ShiftUp(buf, cursor, len) \in [Index -> Chars \cup {Nul}]
    BY <1>1, <1>2 DEF LineInv, TypeOK, ShiftUp, Index
  <2>3. buf' \in [Index -> Chars \cup {Nul}]
    BY <2>1, <2>2
  <2>4. Ended(buf', len')
    <3>1. buf'[len + 1] = Nul
      BY <2>1, <2>2, <1>1, <1>2 DEF Index
    <3>2. ASSUME NEW i \in 0..len  PROVE buf'[i] # Nul
      <4>1. i \in Index /\ i # len + 1
        BY <1>1, <1>2 DEF Index
      <4>2. CASE i = cursor
        BY <2>1, <2>2, <4>1, <4>2, <1>1, <1>2
      <4>3. CASE i # cursor
        <5>1. buf'[i] = ShiftUp(buf, cursor, len)[i]
          BY <2>1, <2>2, <4>1, <4>3
        <5>2. (buf'[i] = buf[i] /\ i < len) \/ (buf'[i] = buf[i - 1] /\ i > 0)
          BY <5>1, <4>1, <4>3, <1>1, <1>2 DEF ShiftUp
        <5> QED
          BY <5>2, <1>2 DEF LineInv, Ended
      <4> QED
        BY <4>2, <4>3
    <3> QED
      BY <3>1, <3>2, <1>2 DEF Ended
  <2> QED
    BY <1>1, <1>2, <1>3, <2>3, <2>4 DEF LineInv, TypeOK
<1> QED
  BY <1>4, <1>5

LEMMA BackspaceKeepsInv ==
  ASSUME LineInv, Backspace
  PROVE  LineInv'
<1>1. Cap \in Nat /\ Nul \notin Chars
  BY ShellAssumption
<1>2. /\ len \in 1..(Cap - 2) /\ cursor \in 1..len
      /\ cursor' = cursor - 1 /\ len' = len - 1
  BY <1>1 DEF LineInv, TypeOK, Backspace
<1>3. shown' \in BOOLEAN /\ home' \in Cells
  BY DEF LineInv, TypeOK, Backspace, Log
<1> DEFINE moved == IF cursor = len THEN buf ELSE ShiftDown(buf, cursor - 1, len - 1)
<1>4. buf' = [moved EXCEPT ![len - 1] = Nul]
  BY DEF Backspace, Shorten
<1>5. moved \in [Index -> Chars \cup {Nul}]
  BY <1>1, <1>2 DEF LineInv, TypeOK, ShiftDown, Index
<1>6. \A i \in 0..(len - 2) : moved[i] # Nul
  <2> TAKE i \in 0..(len - 2)
  <2>1. i \in Index
    BY <1>1, <1>2 DEF Index
  <2>2. moved[i] = buf[i] \/ moved[i] = buf[i + 1]
    BY <2>1 DEF ShiftDown
  <2> QED
    BY <2>2, <1>2 DEF LineInv, Ended
<1> HIDE DEF moved
<1>7. buf' \in [Index -> Chars \cup {Nul}]
  BY <1>4, <1>5
<1>8. Ended(buf', len')
  BY <1>1, <1>2, <1>4, <1>5, <1>6 DEF Ended, Index
<1> QED
  BY <1>1, <1>2, <1>3, <1>7, <1>8 DEF LineInv, TypeOK

(* Every step keeps the invariant.                                         *)
LEMMA StepKeepsInv ==
  ASSUME LineInv, [Next]_vars
  PROVE  LineInv'
<1>1. Cap \in Nat /\ Cap >= 3
  BY ShellAssumption
<1>2. CASE \E ch \in Chars : Type(ch)
  BY <1>2, TypeKeepsInv
<1>3. CASE Backspace
  BY <1>3, BackspaceKeepsInv
<1>4. CASE Left
  BY <1>4, <1>1 DEF Left, LineInv, TypeOK, Log
<1>5. CASE Right
  BY <1>5, <1>1 DEF Right, LineInv, TypeOK, Log
<1>6. CASE Enter
  <2>1. Cut(buf) \in [Index -> Chars \cup {Nul}]
    BY DEF LineInv, TypeOK, Cut
  <2>2. 0 \in Index
    BY <1>1 DEF Index
  <2> QED
    BY <2>1, <2>2, <1>1, <1>6 DEF Enter, LineInv, TypeOK, Ended
<1>7. CASE UNCHANGED vars
  BY <1>7 DEF vars, LineInv, TypeOK
<1> QED
  BY <1>2, <1>3, <1>4, <1>5, <1>6, <1>7 DEF Next

LEMMA InitInv == Init => LineInv
<1> SUFFICES ASSUME Init PROVE LineInv
  OBVIOUS
<1>1. Cap \in Nat /\ Cap >= 3 /\ Garbage \subseteq [Index -> Chars \cup {Nul}]
  BY ShellAssumption
<1>2. PICK g \in Garbage : buf = [g EXCEPT ![0] = Nul]
  BY DEF Init
<1>3. 0 \in Index
  BY <1>1 DEF Index
<1>4. buf \in [Index -> Chars \cup {Nul}] /\ buf[0] = Nul
  BY <1>1, <1>2, <1>3
<1> QED
  BY <1>1, <1>4 DEF Init, LineInv, TypeOK, Ended

THEOREM LineInvariant == Spec => []LineInv
BY InitInv, StepKeepsInv, PTL DEF Spec

(* The line always leaves two bytes of the CAP that loomShellExec has      *)
(* allocated, and the cursor stays inside it.                              *)
THEOREM ShellTypeOK == Spec => []TypeOK
<1>1. LineInv => TypeOK
  BY DEF LineInv
<1> QED
  BY <1>1, LineInvariant, PTL

(* The text shellParseArg reads ends at len or one place behind.           *)
THEOREM LinesEnd == Spec => []LineEnds
<1>1. LineInv => LineEnds
  BY EndIs DEF LineInv, TypeOK, LineEnds
<1> QED
  BY <1>1, LineInvariant, PTL
----------------------------------------------------------------------------
(* The keys are those of the editor.                                       *)

LEMMA LineOf ==
  ASSUME LineInv
  PROVE  /\ Line \in Seq(Chars)
         /\ Len(Line) = len
         /\ \A i \in 1..len : Line[i] = buf[i - 1]
<1>1. Cap \in Nat
  BY ShellAssumption
<1>2. len \in 0..(Cap - 2)
  BY DEF LineInv, TypeOK
<1>3. \A i \in 1..len : buf[i - 1] \in Chars
  <2> TAKE i \in 1..len
  <2>1. i - 1 \in Index /\ i - 1 \in 0..(len - 1)
    BY <1>1, <1>2 DEF Index
  <2> QED
    BY <2>1 DEF LineInv, TypeOK, Ended
<1> QED
  BY <1>1, <1>2, <1>3 DEF Line

LEMMA TypeTypes ==
  ASSUME LineInv, LineInv', NEW ch \in Chars, Type(ch)
  PROVE  Editor!Type(ch)
<1>1. Cap \in Nat /\ len \in 0..(Cap - 3) /\ cursor \in 0..len /\ len' = len + 1
  BY ShellAssumption DEF LineInv, TypeOK, Type, Full
<1>2. Line \in Seq(Chars) /\ Len(Line) = len /\ \A i \in 1..len : Line[i] = buf[i - 1]
  BY LineOf
<1>3. Line' = [i \in 1..(len + 1) |-> buf'[i - 1]]
  BY <1>1 DEF Line
<1> DEFINE longer == InsertAt(Line, cursor + 1, ch)
<1>4. /\ longer \in Seq(Chars) /\ Len(longer) = len + 1
      /\ \A i \in 1..(len + 1) :
           longer[i] = IF i < cursor + 1 THEN Line[i]
                       ELSE IF i = cursor + 1 THEN ch ELSE Line[i - 1]
  <2> DEFINE front == Append(SubSeq(Line, 1, cursor), ch)
             rest == SubSeq(Line, cursor + 1, len)
  <2>1. longer = front \o rest
    BY <1>1, <1>2 DEF InsertAt
  <2>2. /\ front \in Seq(Chars) /\ Len(front) = cursor + 1
        /\ \A i \in 1..(cursor + 1) : front[i] = IF i < cursor + 1 THEN Line[i] ELSE ch
    BY <1>1, <1>2
  <2>3. /\ rest \in Seq(Chars) /\ Len(rest) = len - cursor
        /\ \A i \in 1..(len - cursor) : rest[i] = Line[cursor + i]
    BY <1>1, <1>2
  <2> HIDE DEF longer, front, rest
  <2>4. longer \in Seq(Chars) /\ Len(longer) = len + 1
    BY <2>1, <2>2, <2>3, <1>1
  <2>5. ASSUME NEW i \in 1..(len + 1)
        PROVE  longer[i] = IF i <= cursor + 1 THEN front[i] ELSE rest[i - (cursor + 1)]
    BY <2>1, <2>2, <2>3, <1>1
  <2>6. ASSUME NEW i \in 1..(len + 1)
        PROVE  longer[i] = IF i < cursor + 1 THEN Line[i]
                           ELSE IF i = cursor + 1 THEN ch ELSE Line[i - 1]
    <3>1. CASE i <= cursor + 1
      <4>1. i \in 1..(cursor + 1) /\ longer[i] = front[i]
        BY <3>1, <2>5, <1>1
      <4> QED
        BY <4>1, <2>2, <1>1
    <3>2. CASE i > cursor + 1
      <4>1. i - (cursor + 1) \in 1..(len - cursor) /\ cursor + (i - (cursor + 1)) = i - 1
        BY <3>2, <1>1
      <4>2. longer[i] = rest[i - (cursor + 1)]
        BY <3>2, <2>5, <1>1
      <4>3. longer[i] = Line[i - 1]
        BY <4>1, <4>2, <2>3
      <4> QED
        BY <4>3, <3>2, <1>1
    <3> QED
      BY <3>1, <3>2, <1>1
  <2> QED
    BY <2>4, <2>6
<1> HIDE DEF longer
<1>5. \A i \in 1..(len + 1) : longer[i] = buf'[i - 1]
  <2> TAKE i \in 1..(len + 1)
  <2>1. i - 1 \in Index /\ cursor \in Index /\ i - 1 # len + 2 /\ i - 1 # len + 1
    BY <1>1 DEF Index
  <2>2. CASE cursor = len
    <3>1. buf' = [buf EXCEPT ![len] = ch, ![len + 2] = Nul] /\ buf \in [Index -> Chars \cup {Nul}]
      BY <2>2 DEF Type, PutLast, LineInv, TypeOK
    <3>2. buf'[i - 1] = IF i - 1 = len THEN ch ELSE buf[i - 1]
      BY <2>1, <3>1
    <3>3. CASE i <= cursor
      <4>1. longer[i] = Line[i] /\ Line[i] = buf[i - 1] /\ i - 1 # len
        BY <1>1, <1>2, <1>4, <2>2, <3>3
      <4> QED
        BY <3>2, <4>1
    <3>4. CASE i = cursor + 1
      <4>1. longer[i] = ch /\ i - 1 = len
        BY <1>1, <1>4, <2>2, <3>4
      <4> QED
        BY <3>2, <4>1
    <3>5. i <= cursor \/ i = cursor + 1
      BY <1>1, <2>2
    <3> QED
      BY <3>3, <3>4, <3>5
  <2>3. CASE cursor # len
    <3>1. buf' = [ShiftUp(buf, cursor, len) EXCEPT ![cursor] = ch, ![len + 1] = Nul]
      BY <2>3 DEF Type, Insert
    <3>2. buf'[i - 1] = IF i - 1 = cursor THEN ch ELSE ShiftUp(buf, cursor, len)[i - 1]
      BY <3>1, <2>1, <1>1 DEF ShiftUp
    <3>3. CASE i <= cursor
      <4>1. longer[i] = Line[i] /\ Line[i] = buf[i - 1]
        BY <1>1, <1>2, <1>4, <3>3
      <4>2. ShiftUp(buf, cursor, len)[i - 1] = buf[i - 1] /\ i - 1 # cursor
        BY <1>1, <2>1, <3>3 DEF ShiftUp
      <4> QED
        BY <3>2, <4>1, <4>2
    <3>4. CASE i = cursor + 1
      BY <3>2, <3>4, <1>1, <1>2, <1>4, <2>1
    <3>5. CASE i > cursor + 1
      <4>1. longer[i] = Line[i - 1] /\ Line[i - 1] = buf[(i - 1) - 1]
        BY <1>1, <1>2, <1>4, <3>5
      <4>2. ShiftUp(buf, cursor, len)[i - 1] = buf[(i - 1) - 1] /\ i - 1 # cursor
        BY <1>1, <2>1, <3>5 DEF ShiftUp
      <4> QED
        BY <3>2, <4>1, <4>2
    <3> QED
      BY <3>3, <3>4, <3>5, <1>1
  <2> QED
    BY <2>2, <2>3
<1>6. longer = Editor!InsertAt(Line, cursor + 1, ch)
  BY DEF longer, InsertAt, Editor!InsertAt
<1>7. longer = Line'
  BY <1>1, <1>3, <1>4, <1>5
<1> QED
  BY <1>1, <1>2, <1>6, <1>7 DEF Editor!Type, Type, Back

LEMMA BackspaceErases ==
  ASSUME LineInv, LineInv', Backspace
  PROVE  Editor!Erase
<1>1. Cap \in Nat /\ len \in 1..(Cap - 2) /\ cursor \in 1..len /\ len' = len - 1
  BY ShellAssumption DEF LineInv, TypeOK, Backspace
<1>2. Line \in Seq(Chars) /\ Len(Line) = len /\ \A i \in 1..len : Line[i] = buf[i - 1]
  BY LineOf
<1>3. Line' = [i \in 1..(len - 1) |-> buf'[i - 1]]
  BY <1>1 DEF Line
<1> DEFINE shorter == RemoveAt(Line, cursor)
<1>4. /\ shorter \in Seq(Chars) /\ Len(shorter) = len - 1
      /\ \A i \in 1..(len - 1) :
           shorter[i] = IF i < cursor THEN Line[i] ELSE Line[i + 1]
  BY <1>1, <1>2 DEF RemoveAt
<1>5. \A i \in 1..(len - 1) : shorter[i] = buf'[i - 1]
  <2> TAKE i \in 1..(len - 1)
  <2>1. i - 1 \in Index /\ i - 1 # len - 1
    BY <1>1 DEF Index
  <2>2. CASE cursor = len
    BY <1>1, <1>2, <1>4, <2>1, <2>2 DEF Backspace, Shorten, LineInv, TypeOK
  <2>3. CASE cursor # len
    <3>1. buf'[i - 1] = ShiftDown(buf, cursor - 1, len - 1)[i - 1]
      BY <2>1, <2>3 DEF Backspace, Shorten, ShiftDown
    <3>2. CASE i < cursor
      BY <3>1, <3>2, <1>1, <1>2, <1>4, <2>1 DEF ShiftDown
    <3>3. CASE i >= cursor
      BY <3>1, <3>3, <1>1, <1>2, <1>4, <2>1 DEF ShiftDown
    <3> QED
      BY <3>2, <3>3, <1>1
  <2> QED
    BY <2>2, <2>3
<1> HIDE DEF shorter
<1>6. shorter = Editor!RemoveAt(Line, cursor)
  BY DEF shorter, RemoveAt, Editor!RemoveAt
<1>7. shorter = Line'
  BY <1>1, <1>3, <1>4, <1>5
<1> QED
  BY <1>6, <1>7 DEF Editor!Erase, Backspace, Back

(* The prompt is a line editor, whatever the buffer held before.           *)
THEOREM ShellIsEditor == Spec => KeepsLine
<1>1. Init => Editor!Init
  BY DEF Init, Line, Editor!Init
<1>2. ASSUME LineInv, LineInv', [Next]_vars  PROVE [Editor!Next]_(Editor!vars)
  <2>0. Cap \in Nat /\ len \in 0..(Cap - 2) /\ cursor \in 0..len /\ Len(Line) = len
    BY <1>2, ShellAssumption, LineOf DEF LineInv, TypeOK
  <2>1. CASE \E ch \in Chars : Type(ch)
    BY <1>2, <2>1, TypeTypes DEF Editor!Next
  <2>2. CASE Backspace
    BY <1>2, <2>2, BackspaceErases DEF Editor!Next
  <2>3. CASE Left
    BY <2>0, <2>3 DEF Left, Line, Back, Editor!Move, Editor!Next
  <2>4. CASE Right
    BY <2>0, <2>4 DEF Right, Line, Back, Editor!Move, Editor!Next
  <2>5. CASE Enter
    BY <2>5 DEF Enter, Line, Editor!Enter, Editor!Next
  <2>6. CASE UNCHANGED vars
    BY <2>6 DEF vars, Line, Editor!vars
  <2> QED
    BY <1>2, <2>1, <2>2, <2>3, <2>4, <2>5, <2>6 DEF Next
<1> QED
  BY <1>1, <1>2, LineInvariant, PTL DEF Spec, KeepsLine, Editor!Spec
----------------------------------------------------------------------------
(* The words a command gets.                                               *)

LEMMA LeastIs ==
  ASSUME NEW S \in SUBSET Nat, S # {}
  PROVE  Min(S) \in S /\ \A k \in S : Min(S) <= k
BY LeastElement DEF Min

LEMMA GreatestIs ==
  ASSUME NEW S \in SUBSET Nat, NEW m \in S, \A k \in S : k <= m
  PROVE  Max(S) = m
<1>1. Max(S) \in S /\ \A k \in S : Max(S) >= k
  BY DEF Max
<1>2. Max(S) \in Nat /\ m \in Nat /\ Max(S) <= m /\ Max(S) >= m
  BY <1>1
<1> QED
  BY <1>2

LEMMA TextEnds ==
  ASSUME NEW b
  PROVE  /\ EndOfText(b) \in 0..Cap
         /\ \A k \in 0..(EndOfText(b) - 1) : b[k] # Nul
<1> DEFINE S == {k \in 0..Cap : k = Cap \/ b[k] = Nul}
<1>1. Cap \in Nat
  BY ShellAssumption
<1>2. S \in SUBSET Nat /\ Cap \in S
  BY <1>1
<1>3. EndOfText(b) \in S /\ \A k \in S : EndOfText(b) <= k
  <2> HIDE DEF S
  <2>1. Min(S) \in S /\ \A k \in S : Min(S) <= k
    BY <1>2, LeastIs
  <2> QED
    BY <2>1 DEF S, EndOfText
<1>4. EndOfText(b) \in 0..Cap
  BY <1>3
<1>5. ASSUME NEW k \in 0..(EndOfText(b) - 1) PROVE b[k] # Nul
  <2>1. k \in 0..Cap /\ k # Cap /\ ~ (EndOfText(b) <= k)
    BY <1>1, <1>4
  <2> QED
    BY <2>1, <1>3
<1> QED
  BY <1>4, <1>5

(* A word is a longest run without a space.                                *)
Scanned(b, e, p, s, t) ==
  /\ s \in p..e /\ t \in s..e
  /\ \A k \in p..(s - 1) : b[k] = Space
  /\ \A k \in s..(t - 1) : b[k] # Space
  /\ s < e => b[s] # Space /\ s < t
  /\ t < e => b[t] = Space

LEMMA WordBounds ==
  ASSUME NEW b, NEW e \in 0..Cap, e = EndOfText(b), NEW p \in 0..e
  PROVE  Scanned(b, e, p, WordStart(b, p), WordEnd(b, p))
<1>1. Cap \in Nat
  BY ShellAssumption
<1> DEFINE S == {k \in p..Cap : k >= e \/ b[k] # Space}
           s == WordStart(b, p)
           T == {k \in s..Cap : k >= e \/ b[k] = Space}
           t == WordEnd(b, p)
<1>2. S \in SUBSET Nat /\ e \in S
  BY <1>1
<1>3. s \in S /\ \A k \in S : s <= k
  <2> HIDE DEF S, s
  <2>1. Min(S) \in S /\ \A k \in S : Min(S) <= k
    BY <1>2, LeastIs
  <2> QED
    BY <2>1 DEF S, s, WordStart
<1>4. s \in p..e /\ s \in Nat
  <2> HIDE DEF s
  <2> QED
    BY <1>2, <1>3
<1> HIDE DEF s
<1>5. T \in SUBSET Nat /\ e \in T
  BY <1>1, <1>4
<1>6. t \in T /\ \A k \in T : t <= k
  <2> HIDE DEF T, t
  <2>1. Min(T) \in T /\ \A k \in T : Min(T) <= k
    BY <1>5, LeastIs
  <2> QED
    BY <2>1 DEF T, t, s, WordEnd
<1> HIDE DEF t
<1>7. t \in s..e /\ t \in Nat
  BY <1>4, <1>5, <1>6
<1>8. ASSUME NEW k \in p..(s - 1) PROVE b[k] = Space
  <2>1. k \in p..Cap /\ ~ (s <= k)
    BY <1>1, <1>4
  <2> QED
    BY <2>1, <1>3
<1>9. ASSUME NEW k \in s..(t - 1) PROVE b[k] # Space
  <2>1. k \in s..Cap /\ ~ (t <= k)
    BY <1>1, <1>4, <1>7
  <2> QED
    BY <2>1, <1>6
<1>10. s < e => b[s] # Space /\ s < t
  <2> SUFFICES ASSUME s < e PROVE b[s] # Space /\ s < t
    OBVIOUS
  <2>1. ~ (s >= e) /\ b[s] # Space
    BY <1>3, <1>4
  <2>2. t # s
    BY <2>1, <1>6
  <2> QED
    BY <2>1, <2>2, <1>4, <1>7
<1>11. t < e => b[t] = Space
  BY <1>6, <1>7
<1> QED
  BY <1>4, <1>7, <1>8, <1>9, <1>10, <1>11 DEF Scanned, s, t

(* A loop whose position only grows: what it collects from each position.  *)
Loops(h, M, stop, word, next) ==
  h = [p \in 0..M |-> IF p \in stop THEN <<>> ELSE <<word[p]>> \o h[next[p]]]

LEMMA LoopExists ==
  ASSUME NEW M \in Nat, NEW stop, NEW word, NEW next,
         \A p \in 0..M : p \notin stop => next[p] \in (p + 1)..M
  PROVE  \E h : Loops(h, M, stop, word, next)
<1> DEFINE Holds(h, n) ==
             \A p \in 0..M : p + n > M => h[p] = IF p \in stop THEN <<>> ELSE <<word[p]>> \o h[next[p]]
           T == {n \in Nat : ~ \E h : Holds(h, n)}
<1>1. T = {}
  <2> SUFFICES ASSUME T # {} PROVE FALSE
    OBVIOUS
  <2>1. PICK m \in T : \A k \in T : m <= k
    <3>1. T \in SUBSET Nat
      OBVIOUS
    <3> HIDE DEF T
    <3> QED
      BY <3>1, LeastElement
  <2>2. m # 0
    <3>1. Holds(<<>>, 0)
      OBVIOUS
    <3> HIDE DEF Holds
    <3> QED
      BY <3>1, <2>1
  <2>3. m - 1 \in Nat /\ m \in Nat
    BY <2>1, <2>2
  <2>4. PICK h : Holds(h, m - 1)
    <3>1. m - 1 \notin T
      <4> HIDE DEF T
      <4> QED
        BY <2>1, <2>3
    <3> HIDE DEF Holds
    <3> QED
      BY <3>1, <2>3
  <2> DEFINE f == [p \in 0..M |-> IF p \in stop THEN <<>> ELSE <<word[p]>> \o h[next[p]]]
  <2>5. \A p \in 0..M : f[p] = IF p \in stop THEN <<>> ELSE <<word[p]>> \o h[next[p]]
    OBVIOUS
  <2> HIDE DEF f
  <2>6. \A p \in 0..M : p + (m - 1) > M => f[p] = h[p]
    BY <2>4, <2>5
  <2>7. ASSUME NEW p \in 0..M, p + m > M
        PROVE  f[p] = IF p \in stop THEN <<>> ELSE <<word[p]>> \o f[next[p]]
    <3>1. CASE p \in stop
      BY <3>1, <2>5
    <3>2. CASE p \notin stop
      <4>1. next[p] \in (p + 1)..M
        BY <3>2
      <4>2. next[p] \in 0..M /\ next[p] + (m - 1) > M
        <5> DEFINE q == next[p]
        <5>1. q \in (p + 1)..M /\ p \in Nat
          BY <4>1
        <5> HIDE DEF q
        <5>2. q \in 0..M /\ q + (m - 1) > M
          BY <5>1, <2>3, <2>7
        <5> QED
          BY <5>2 DEF q
      <4>3. f[next[p]] = h[next[p]]
        BY <4>2, <2>6
      <4> QED
        BY <4>3, <3>2, <2>5
    <3> QED
      BY <3>1, <3>2
  <2>8. Holds(f, m)
    BY <2>7
  <2> HIDE DEF Holds
  <2> QED
    BY <2>8, <2>1
<1>2. PICK h : Holds(h, M + 1)
  <2>1. M + 1 \in Nat
    OBVIOUS
  <2>2. M + 1 \notin T
    <3> HIDE DEF T
    <3> QED
      BY <1>1
  <2> HIDE DEF Holds
  <2> QED
    BY <2>1, <2>2
<1> DEFINE f == [p \in 0..M |-> h[p]]
<1>3. ASSUME NEW p \in 0..M
      PROVE  f[p] = IF p \in stop THEN <<>> ELSE <<word[p]>> \o f[next[p]]
  <2>1. p + (M + 1) > M
    OBVIOUS
  <2>2. h[p] = IF p \in stop THEN <<>> ELSE <<word[p]>> \o h[next[p]]
    BY <2>1, <1>2
  <2>3. p \notin stop => next[p] \in 0..M
    <3> SUFFICES ASSUME p \notin stop PROVE next[p] \in 0..M
      OBVIOUS
    <3>1. next[p] \in (p + 1)..M
      OBVIOUS
    <3> QED
      BY <3>1
  <2> QED
    BY <2>2, <2>3
<1>4. f = [p \in 0..M |-> f[p]]
  OBVIOUS
<1> HIDE DEF f
<1>5. f = [p \in 0..M |-> IF p \in stop THEN <<>> ELSE <<word[p]>> \o f[next[p]]]
  BY <1>3, <1>4
<1> QED
  BY <1>5 DEF Loops

LEMMA ArgsLoop ==
  ASSUME NEW b, NEW e \in 0..Cap, e = EndOfText(b)
  PROVE  \E h : /\ \A p \in 0..Cap : h[p] = IF NoWord(b, p) THEN <<>>
                                            ELSE <<Word(b, p)>> \o h[NextPos(b, WordEnd(b, p))]
                /\ Args(b) = h[0]
<1> DEFINE stop == {p \in 0..Cap : NoWord(b, p)}
           word == [p \in 0..Cap |-> Word(b, p)]
           next == [p \in 0..Cap |-> NextPos(b, WordEnd(b, p))]
           from[p \in 0..Cap] ==
             IF NoWord(b, p) THEN <<>> ELSE <<Word(b, p)>> \o from[NextPos(b, WordEnd(b, p))]
<1>1. Cap \in Nat
  BY ShellAssumption
<1>2. ASSUME NEW p \in 0..Cap, ~ NoWord(b, p)
      PROVE  NextPos(b, WordEnd(b, p)) \in (p + 1)..Cap
  <2>1. p \in 0..e /\ p < e /\ WordStart(b, p) # e
    BY <1>1, <1>2 DEF NoWord
  <2>2. Scanned(b, e, p, WordStart(b, p), WordEnd(b, p))
    BY <2>1, WordBounds
  <2>3. WordEnd(b, p) \in (p + 1)..e
    BY <2>1, <2>2 DEF Scanned
  <2> QED
    BY <2>3, <1>1 DEF NextPos
<1>3. \A p \in 0..Cap : p \notin stop => next[p] \in (p + 1)..Cap
  BY <1>2
<1>4. PICK h : Loops(h, Cap, stop, word, next)
  <2> HIDE DEF stop, word, next
  <2> QED
    BY <1>1, <1>3, LoopExists
<1>5. h = [p \in 0..Cap |-> IF NoWord(b, p) THEN <<>> ELSE <<Word(b, p)>> \o h[NextPos(b, WordEnd(b, p))]]
  BY <1>4 DEF Loops
<1>6. from = [p \in 0..Cap |-> IF NoWord(b, p) THEN <<>>
                               ELSE <<Word(b, p)>> \o from[NextPos(b, WordEnd(b, p))]]
  <2> HIDE DEF stop, word, next
  <2> QED
    BY <1>5
<1>7. Args(b) = from[0]
  BY DEF Args
<1> HIDE DEF from, stop, word, next
<1>8. \A p \in 0..Cap : from[p] = IF NoWord(b, p) THEN <<>>
                                  ELSE <<Word(b, p)>> \o from[NextPos(b, WordEnd(b, p))]
  BY <1>6
<1> QED
  BY <1>7, <1>8

(* The words of a line behind a position.                                  *)
Behind(line, p) == {i \in Starts(line) : i > p}
ReadFrom(words, line, p) ==
  /\ Len(words) \in Nat
  /\ \E at \in [1..Len(words) -> Behind(line, p)] :
       /\ \A i \in Behind(line, p) : \E n \in 1..Len(words) : at[n] = i
       /\ \A m, n \in 1..Len(words) : m < n => at[m] < at[n]
       /\ words = [n \in 1..Len(words) |-> WordAt(line, at[n])]

LEMMA OneWordMore ==
  ASSUME NEW line, DOMAIN line \subseteq Nat, NEW p \in Nat, NEW q \in Nat, NEW s \in Nat, NEW rest, ReadFrom(rest, line, q),
         Behind(line, p) = {s} \cup Behind(line, q), s <= q
  PROVE  ReadFrom(<<WordAt(line, s)>> \o rest, line, p)
<1> DEFINE B == Behind(line, p)  C == Behind(line, q)  n == Len(rest)
           words == <<WordAt(line, s)>> \o rest
<1>1. n \in Nat
  BY DEF ReadFrom
<1>2. PICK at \in [1..n -> C] :
        /\ \A i \in C : \E k \in 1..n : at[k] = i
        /\ \A k, l \in 1..n : k < l => at[k] < at[l]
        /\ rest = [k \in 1..n |-> WordAt(line, at[k])]
  BY DEF ReadFrom
<1>3. \A i \in C : i > q
  BY DEF Behind
<1> HIDE DEF n
<1>4. /\ Len(words) = n + 1 /\ words[1] = WordAt(line, s)
      /\ \A k \in 2..(n + 1) : words[k] = rest[k - 1]
      /\ words = [k \in 1..(n + 1) |-> words[k]]
  <2>1. rest \in Seq({WordAt(line, at[k]) : k \in 1..n}) /\ Len(rest) = n
    BY <1>1, <1>2 DEF n
  <2>2. <<WordAt(line, s)>> \in Seq({WordAt(line, s)}) /\ Len(<<WordAt(line, s)>>) = 1
    OBVIOUS
  <2> QED
    BY <2>1, <2>2, <1>1
<1> HIDE DEF words
<1> DEFINE start == [k \in 1..(n + 1) |-> IF k = 1 THEN s ELSE at[k - 1]]
<1>5. \A k \in 1..(n + 1) : k # 1 => k - 1 \in 1..n /\ k \in 2..(n + 1)
  BY <1>1
<1>6. start \in [1..(n + 1) -> B]
  <2>1. ASSUME NEW k \in 1..(n + 1) PROVE start[k] \in B
    <3> HIDE DEF B, C
    <3>1. B = {s} \cup C
      BY DEF B, C
    <3> QED
      BY <3>1, <1>2, <1>5
  <2> HIDE DEF B
  <2> QED
    BY <2>1
<1>7. ASSUME NEW i \in B PROVE \E k \in 1..(n + 1) : start[k] = i
  <2>1. CASE i = s
    BY <2>1, <1>1
  <2>2. CASE i # s
    <3>1. i \in C
      BY <2>2, <1>7
    <3>2. PICK k \in 1..n : at[k] = i
      <4> HIDE DEF C
      <4> QED
        BY <3>1, <1>2
    <3>3. k + 1 \in 1..(n + 1) /\ k + 1 # 1 /\ (k + 1) - 1 = k
      BY <1>1, <3>2
    <3>4. start[k + 1] = i
      BY <3>2, <3>3
    <3> QED
      BY <3>3, <3>4
  <2> QED
    BY <2>1, <2>2
<1>8. ASSUME NEW k \in 1..(n + 1), NEW l \in 1..(n + 1), k < l PROVE start[k] < start[l]
  <2>1. l # 1 /\ l - 1 \in 1..n /\ start[l] = at[l - 1]
    BY <1>1, <1>8
  <2>2. CASE k = 1
    <3>1. at[l - 1] \in C
      BY <2>1, <1>2
    <3>2. at[l - 1] > q /\ at[l - 1] \in Nat
      <4>1. at[l - 1] > q
        BY <3>1, <1>3
      <4> QED
        BY <4>1, <3>1 DEF Behind, Starts
    <3> QED
      BY <2>1, <2>2, <3>2
  <2>3. CASE k # 1
    <3>1. k - 1 \in 1..n /\ start[k] = at[k - 1] /\ k - 1 < l - 1
      BY <2>3, <1>1, <1>8
    <3> QED
      BY <2>1, <3>1, <1>2
  <2> QED
    BY <2>2, <2>3
<1>9. ASSUME NEW k \in 1..(n + 1) PROVE words[k] = WordAt(line, start[k])
  <2>1. CASE k = 1
    BY <2>1, <1>4
  <2>2. CASE k # 1
    <3>1. k - 1 \in 1..n /\ k \in 2..(n + 1) /\ start[k] = at[k - 1]
      BY <2>2, <1>5
    <3>2. rest[k - 1] = WordAt(line, at[k - 1])
      BY <3>1, <1>2
    <3> QED
      BY <3>1, <3>2, <1>4
  <2> QED
    BY <2>1, <2>2
<1>10. words = [k \in 1..(n + 1) |-> WordAt(line, start[k])]
  <2> HIDE DEF start
  <2> QED
    BY <1>4, <1>9
<1> HIDE DEF start, B, C
<1>11. Len(words) = n + 1 /\ n + 1 \in Nat
  BY <1>1, <1>4
<1>12. ReadFrom(words, line, p)
  BY <1>6, <1>7, <1>8, <1>10, <1>11 DEF ReadFrom, B
<1> QED
  BY <1>12 DEF words

LEMMA NoWordsLeft ==
  ASSUME NEW line, NEW p, Behind(line, p) = {}
  PROVE  ReadFrom(<<>>, line, p)
<1>1. Len(<<>>) = 0 /\ 1..0 = {} /\ <<>> = [n \in 1..0 |-> WordAt(line, <<>>[n])]
  OBVIOUS
<1>2. <<>> \in [1..0 -> Behind(line, p)]
  BY <1>1
<1> QED
  BY <1>1, <1>2 DEF ReadFrom

(* Between a position behind a space and the next lies one word's start.   *)
TextOf(b, e) == [i \in 1..e |-> b[i - 1]]
Break(b, e, p) == p = 0 \/ p = e \/ b[p - 1] = Space

LEMMA StartsBehind ==
  ASSUME NEW b, NEW e \in Nat, NEW p \in 0..(e - 1), Break(b, e, p), NEW s \in Nat, NEW t \in Nat,
         Scanned(b, e, p, s, t), NEW q \in Nat, q = IF t < e THEN t + 1 ELSE t,
         NEW line, line = TextOf(b, e)
  PROVE  IF s = e THEN Behind(line, p) = {}
         ELSE Behind(line, p) = {s + 1} \cup Behind(line, q)
<1>1. DOMAIN line = 1..e /\ \A i \in 1..e : line[i] = b[i - 1]
  BY DEF TextOf
<1>2. s \in p..e /\ t \in s..e
  BY DEF Scanned
<1>3. ASSUME NEW i \in 1..e, i > p, i < s + 1 PROVE i \notin Starts(line)
  <2>1. i - 1 \in p..(s - 1)
    BY <1>2, <1>3
  <2> QED
    BY <2>1, <1>1 DEF Starts, Scanned
<1>4. ASSUME NEW i \in 1..e, i > s + 1, i <= q PROVE i \notin Starts(line)
  <2>1. i - 1 \in 1..e /\ i # 1 /\ (i - 1) - 1 = i - 2 /\ i - 2 \in s..(t - 1)
    BY <1>2, <1>4
  <2>2. line[i - 1] # Space \/ i = t + 1
    BY <2>1, <1>1 DEF Scanned
  <2>3. CASE i = t + 1 /\ line[i - 1] = Space
    <3>1. t < e /\ line[i] = b[t]
      BY <2>3, <1>1, <1>2
    <3> QED
      BY <3>1 DEF Starts, Scanned
  <2> QED
    BY <2>1, <2>2, <2>3 DEF Starts
<1>5. CASE s = e
  <2>1. ASSUME NEW i \in Behind(line, p) PROVE FALSE
    <3>1. i \in 1..e /\ i > p /\ i \in Starts(line)
      BY <1>1 DEF Behind, Starts
    <3> QED
      BY <3>1, <1>3, <1>5
  <2> QED
    BY <2>1, <1>5
<1>6. CASE s # e
  <2>1. s < e /\ s + 1 \in 1..e /\ s + 1 > p /\ s + 1 <= q /\ s < t
    BY <1>2, <1>6 DEF Scanned
  <2>2. s + 1 \in Starts(line)
    <3>1. line[s + 1] # Space
      BY <2>1, <1>1 DEF Scanned
    <3>2. CASE s = 0
      BY <3>1, <3>2, <2>1, <1>1 DEF Starts
    <3>3. CASE s # 0
      <4>1. s \in 1..e /\ line[s] = b[s - 1] /\ (s + 1) - 1 = s
        BY <3>3, <2>1, <1>1
      <4>2. b[s - 1] = Space
        <5>1. CASE s = p
          BY <5>1, <3>3, <1>2 DEF Break
        <5>2. CASE s # p
          <6>1. s - 1 \in p..(s - 1)
            BY <5>2, <1>2
          <6> QED
            BY <6>1 DEF Scanned
        <5> QED
          BY <5>1, <5>2
      <4> QED
        BY <3>1, <4>1, <4>2, <2>1, <1>1 DEF Starts
    <3> QED
      BY <3>2, <3>3
  <2>3. ASSUME NEW i PROVE i \in Behind(line, p) <=> i = s + 1 \/ i \in Behind(line, q)
    <3>1. CASE i \notin Starts(line)
      BY <3>1, <2>2 DEF Behind
    <3>2. CASE i \in Starts(line)
      <4>1. i \in 1..e
        BY <3>2, <1>1 DEF Starts
      <4>2. i > p <=> i = s + 1 \/ i > q
        BY <3>2, <4>1, <1>2, <1>3, <1>4, <2>1
      <4> QED
        BY <3>2, <4>2 DEF Behind
    <3> QED
      BY <3>1, <3>2
  <2> QED
    BY <2>3, <1>6
<1> QED
  BY <1>5, <1>6

(* The word that starts there ends before the next space.                  *)
LEMMA WordThere ==
  ASSUME NEW b, NEW e \in Nat, NEW p \in 0..(e - 1), NEW s \in Nat, NEW t \in Nat,
         Scanned(b, e, p, s, t), s # e, NEW line, line = TextOf(b, e)
  PROVE  WordAt(line, s + 1) = [k \in 1..(t - s) |-> b[s + k - 1]]
<1>1. DOMAIN line = 1..e /\ Len(line) = e /\ \A i \in 1..e : line[i] = b[i - 1]
  BY DEF TextOf
<1>2. s \in 0..(e - 1) /\ t \in (s + 1)..e
  BY DEF Scanned
<1> DEFINE R == {k \in (s + 1)..Len(line) : \A m \in (s + 1)..k : line[m] # Space}
<1>3. ASSUME NEW m \in (s + 1)..t PROVE line[m] # Space
  <2>1. m \in 1..e /\ m - 1 \in s..(t - 1)
    BY <1>2
  <2> QED
    BY <2>1, <1>1 DEF Scanned
<1>4. R \in SUBSET Nat /\ t \in R
  <2>1. t \in (s + 1)..Len(line)
    BY <1>1, <1>2
  <2>2. t \in R
    BY <2>1, <1>3
  <2>3. \A k \in (s + 1)..Len(line) : k \in Nat
    BY <1>1, <1>2
  <2> QED
    BY <2>2, <2>3
<1>5. ASSUME NEW k \in R PROVE k <= t
  <2>1. k \in (s + 1)..e /\ \A m \in (s + 1)..k : line[m] # Space
    BY <1>1
  <2>2. CASE k > t
    <3>1. t + 1 \in (s + 1)..k /\ t + 1 \in 1..e /\ (t + 1) - 1 = t /\ t < e
      BY <2>1, <2>2, <1>2
    <3>2. line[t + 1] = Space
      BY <3>1, <1>1 DEF Scanned
    <3> QED
      BY <2>1, <3>1, <3>2
  <2> QED
    BY <2>1, <2>2, <1>2
<1>6. Max(R) = t
  <2> HIDE DEF R
  <2> QED
    BY <1>4, <1>5, GreatestIs
<1>7. WordAt(line, s + 1) = SubSeq(line, s + 1, t)
  BY <1>6 DEF WordAt
<1> HIDE DEF R
<1> DEFINE w == SubSeq(line, s + 1, t)
<1>8. w \in Seq({line[i] : i \in 1..e}) /\ Len(w) = t - s /\ \A k \in 1..(t - s) : w[k] = line[s + k]
  <2>1. s + 1 \in Int /\ t \in Int /\ s + 1 <= t
    BY <1>2
  <2>2. \A i \in (s + 1)..t : line[i] \in {line[j] : j \in 1..e}
    BY <1>2
  <2>3. /\ w \in Seq({line[i] : i \in 1..e}) /\ Len(w) = t - (s + 1) + 1
        /\ \A k \in 1..(t - (s + 1) + 1) : w[k] = line[(s + 1) + k - 1]
    BY <2>1, <2>2, SubSeqProperties
  <2>4. t - (s + 1) + 1 = t - s
    BY <1>2
  <2>5. \A k \in 1..(t - s) : (s + 1) + k - 1 = s + k
    BY <1>2
  <2> HIDE DEF w
  <2> QED
    BY <2>3, <2>4, <2>5
<1>9. ASSUME NEW k \in 1..(t - s) PROVE line[s + k] = b[s + k - 1]
  BY <1>1, <1>2
<1> HIDE DEF w
<1>10. w = [k \in 1..(t - s) |-> w[k]]
  BY <1>8, <1>2
<1>11. w = [k \in 1..(t - s) |-> b[s + k - 1]]
  BY <1>8, <1>9, <1>10
<1> QED
  BY <1>7, <1>11 DEF w

(* shellExecCommand's words are those of the text in the buffer.           *)
LEMMA ArgsAreWords ==
  ASSUME NEW b, NEW e \in 0..Cap, e = EndOfText(b), NEW line, line = TextOf(b, e)
  PROVE  AreWords(Args(b), line)
<1>1. Cap \in Nat /\ e \in Nat
  BY ShellAssumption
<1>2. PICK h : /\ \A p \in 0..Cap : h[p] = IF NoWord(b, p) THEN <<>>
                                            ELSE <<Word(b, p)>> \o h[NextPos(b, WordEnd(b, p))]
               /\ Args(b) = h[0]
  BY ArgsLoop
<1>3. DOMAIN line = 1..e
  BY DEF TextOf
<1> DEFINE T == {k \in Nat : k <= e /\ Break(b, e, e - k) /\ ~ ReadFrom(h[e - k], line, e - k)}
<1>4. T = {}
  <2> SUFFICES ASSUME T # {} PROVE FALSE
    OBVIOUS
  <2>1. PICK k \in T : \A j \in T : k <= j
    <3>1. T \in SUBSET Nat
      OBVIOUS
    <3> HIDE DEF T
    <3> QED
      BY <3>1, LeastElement
  <2> DEFINE p == e - k  s == WordStart(b, p)  t == WordEnd(b, p)  q == NextPos(b, t)
  <2>2. /\ k \in Nat /\ p \in 0..e /\ p \in 0..Cap /\ p \in Nat
        /\ Break(b, e, p) /\ ~ ReadFrom(h[p], line, p)
    BY <1>1, <2>1
  <2>3. h[p] = IF NoWord(b, p) THEN <<>> ELSE <<Word(b, p)>> \o h[q]
    BY <1>2, <2>2
  <2>4. Scanned(b, e, p, s, t)
    <3> HIDE DEF p
    <3> QED
      BY <2>2, WordBounds DEF s, t
  <2> HIDE DEF T, p, s, t, q
  <2>5. CASE p = e
    <3>1. Behind(line, p) = {}
      BY <1>1, <1>3, <2>5 DEF Behind, Starts
    <3>2. h[p] = <<>>
      BY <2>3, <2>5 DEF NoWord
    <3> QED
      BY <2>2, <3>1, <3>2, NoWordsLeft
  <2>6. CASE p # e
    <3>1. p \in 0..(e - 1)
      BY <1>1, <2>2, <2>6
    <3>2. s \in Nat /\ t \in Nat /\ s \in p..e /\ t \in s..e
      BY <2>2, <2>4 DEF Scanned
    <3>3. q = (IF t < e THEN t + 1 ELSE t) /\ q \in Nat
      BY <3>2 DEF q, NextPos
    <3>4. IF s = e THEN Behind(line, p) = {} ELSE Behind(line, p) = {s + 1} \cup Behind(line, q)
      BY <1>1, <2>2, <2>4, <3>1, <3>2, <3>3, StartsBehind
    <3>5. CASE s = e
      <4>1. h[p] = <<>>
        BY <2>3, <3>5 DEF NoWord, s
      <4> QED
        BY <2>2, <3>4, <3>5, <4>1, NoWordsLeft
    <3>6. CASE s # e
      <4>1. s < t /\ s + 1 <= q /\ s + 1 \in Nat /\ q \in (p + 1)..e
        BY <3>1, <3>2, <3>3, <3>6, <2>4 DEF Scanned
      <4>2. Break(b, e, q)
        <5>1. CASE t < e
          <6>1. q - 1 = t /\ b[t] = Space
            BY <5>1, <3>2, <3>3, <2>4 DEF Scanned
          <6> QED
            BY <6>1 DEF Break
        <5>2. CASE ~ (t < e)
          BY <5>2, <3>2, <3>3 DEF Break
        <5> QED
          BY <5>1, <5>2
      <4>3. ReadFrom(h[q], line, q)
        <5> DEFINE j == e - q
        <5>1. j \in Nat /\ j <= e /\ e - j = q /\ ~ (k <= j)
          BY <4>1, <3>1, <1>1, <2>2 DEF p
        <5>2. j \notin T
          BY <5>1, <2>1
        <5> HIDE DEF j
        <5> QED
          BY <5>1, <5>2, <4>2 DEF T
      <4>4. Word(b, p) = WordAt(line, s + 1)
        <5>1. Word(b, p) = [i \in 1..(t - s) |-> b[s + i - 1]]
          BY DEF Word, s, t
        <5> QED
          BY <5>1, <1>1, <2>4, <3>1, <3>2, <3>6, WordThere
      <4>5. ~ NoWord(b, p)
        BY <3>1, <3>6 DEF NoWord, s
      <4>6. h[p] = <<WordAt(line, s + 1)>> \o h[q]
        BY <2>3, <4>4, <4>5
      <4>7. Behind(line, p) = {s + 1} \cup Behind(line, q)
        BY <3>4, <3>6
      <4>8. ReadFrom(<<WordAt(line, s + 1)>> \o h[q], line, p)
        <5>1. DOMAIN line \subseteq Nat
          BY <1>3
        <5> QED
          BY <5>1, <2>2, <3>3, <4>1, <4>3, <4>7, OneWordMore
      <4> QED
        BY <2>2, <4>6, <4>8
    <3> QED
      BY <3>5, <3>6
  <2> QED
    BY <2>5, <2>6
<1>5. ReadFrom(h[0], line, 0)
  <2>1. e \notin T /\ e - e = 0 /\ e <= e
    <3> HIDE DEF T
    <3> QED
      BY <1>1, <1>4
  <2>2. Break(b, e, 0)
    BY DEF Break
  <2> QED
    BY <1>1, <2>1, <2>2
<1>6. Behind(line, 0) = Starts(line)
  BY <1>3 DEF Behind, Starts
<1> DEFINE words == h[0]
<1>7. Args(b) = words /\ ReadFrom(words, line, 0)
  BY <1>2, <1>5
<1> HIDE DEF words
<1>8. AreWords(words, line)
  BY <1>6, <1>7 DEF ReadFrom, AreWords
<1> QED
  BY <1>7, <1>8

(* The text in the buffer is the line, or the line and one character more. *)
LEMMA TextIsLine ==
  ASSUME LineInv, NEW e, e = EndOfText(buf), NEW text, text = TextOf(buf, e)
  PROVE  e \in 0..Cap /\ (text = Line \/ \E stale \in Chars : text = Append(Line, stale))
<1>1. Cap \in Nat /\ len \in 0..(Cap - 2) /\ buf \in [Index -> Chars \cup {Nul}]
  BY ShellAssumption DEF LineInv, TypeOK
<1>2. e \in {len, len + 1} /\ e \in 0..Cap /\ \A k \in 0..(e - 1) : buf[k] # Nul
  BY <1>1, EndIs, TextEnds DEF LineInv
<1>3. CASE e = len
  BY <1>2, <1>3 DEF TextOf, Line
<1>4. CASE e = len + 1
  <2>1. buf[len] \in Chars
    <3>1. len \in Index /\ len \in 0..(e - 1)
      BY <1>1, <1>4 DEF Index
    <3> QED
      BY <3>1, <1>1, <1>2
  <2> DEFINE longer == Append(Line, buf[len])
  <2>2. /\ Line \in Seq(Chars) /\ Len(Line) = len
        /\ \A i \in 1..len : Line[i] = buf[i - 1]
    BY LineOf
  <2>3. longer \in Seq(Chars) /\ Len(longer) = len + 1
    BY <2>1, <2>2
  <2>4. ASSUME NEW i \in 1..(len + 1) PROVE longer[i] = text[i]
    <3>1. text[i] = buf[i - 1]
      BY <1>4 DEF TextOf
    <3>2. CASE i = len + 1
      BY <3>1, <3>2, <2>2, <1>1
    <3>3. CASE i # len + 1
      BY <3>1, <3>3, <2>2, <1>1
    <3> QED
      BY <3>2, <3>3
  <2>5. text = [i \in 1..(len + 1) |-> text[i]]
    BY <1>4 DEF TextOf
  <2> HIDE DEF longer
  <2>6. longer = [i \in 1..(len + 1) |-> longer[i]]
    BY <2>3, <1>1
  <2>7. longer = text
    BY <2>4, <2>5, <2>6
  <2> QED
    BY <1>2, <2>1, <2>7 DEF longer
<1> QED
  BY <1>2, <1>3, <1>4

(* shellExecCommand gives a command the words of the line that was typed,  *)
(* in order and whole, or those of the line with one character more.       *)
THEOREM ShellRunsLine == Spec => []RunsLine
<1>1. AreWords(<<>>, <<>>)
  <2>1. Starts(<<>>) = {} /\ Len(<<>>) = 0 /\ 1..0 = {} /\ <<>> = [n \in 1..0 |-> WordAt(<<>>, <<>>[n])]
    BY DEF Starts
  <2>2. <<>> \in [1..0 -> Starts(<<>>)]
    BY <2>1
  <2> QED
    BY <2>1, <2>2 DEF AreWords
<1>2. Init => RunsLine
  BY <1>1 DEF Init, RunsLine
<1>3. ASSUME LineInv, RunsLine, [Next]_vars PROVE RunsLine'
  <2>1. CASE argv' = <<>> /\ entered' = <<>>
    BY <1>1, <2>1 DEF RunsLine
  <2>2. CASE Enter
    <3> DEFINE e == EndOfText(buf)  text == TextOf(buf, e)
    <3>1. e \in 0..Cap /\ (text = Line \/ \E stale \in Chars : text = Append(Line, stale))
      BY <1>3, TextIsLine
    <3>2. AreWords(Args(buf), text)
      BY <3>1, ArgsAreWords
    <3>3. argv' = Args(buf) /\ entered' = Line
      BY <2>2 DEF Enter
    <3> HIDE DEF e, text
    <3> QED
      BY <3>1, <3>2, <3>3 DEF RunsLine
  <2>3. CASE UNCHANGED vars
    BY <1>3, <2>3 DEF vars, RunsLine
  <2> QED
    BY <1>3, <2>1, <2>2, <2>3 DEF Next, Type, Backspace, Left, Right, Back
<1> QED
  BY <1>2, <1>3, LineInvariant, PTL DEF Spec

----------------------------------------------------------------------------
(* The console.                                                            *)

(* h is the console after each character of a text.                        *)
Prints(h, s, text) ==
  h = [n \in 0..Len(text) |-> IF n = 0 THEN s ELSE Put(h[n - 1], text[n])]

LEMMA PrintingExists ==
  ASSUME NEW s, NEW text, Len(text) \in Nat
  PROVE  \E h : Prints(h, s, text)
<1> DEFINE L == Len(text)
           G(h, m) == h = [n \in 0..m |-> IF n = 0 THEN s ELSE Put(h[n - 1], text[n])]
           T == {n \in 0..L : ~ \E h : G(h, n)}
<1>1. T = {}
  <2> SUFFICES ASSUME T # {} PROVE FALSE
    OBVIOUS
  <2>1. PICK m \in T : \A k \in T : m <= k
    <3>1. T \in SUBSET Nat
      OBVIOUS
    <3> HIDE DEF T
    <3> QED
      BY <3>1, LeastElement
  <2>2. m \in 0..L /\ ~ \E h : G(h, m)
    BY <2>1
  <2>3. m # 0
    <3> DEFINE z == [n \in 0..0 |-> s]
    <3>1. z = [n \in 0..0 |-> IF n = 0 THEN s ELSE Put(z[n - 1], text[n])]
      OBVIOUS
    <3>2. G(z, 0)
      BY <3>1
    <3> HIDE DEF z
    <3> QED
      BY <2>2, <3>2
  <2>4. m - 1 \in 0..L /\ ~ (m <= m - 1)
    BY <2>2, <2>3
  <2>5. m - 1 \notin T
    <3> HIDE DEF T
    <3> QED
      BY <2>1, <2>4
  <2>6. PICK g : G(g, m - 1)
    BY <2>4, <2>5
  <2> DEFINE h == [n \in 0..m |-> IF n = m THEN Put(g[m - 1], text[m]) ELSE g[n]]
  <2>7. ASSUME NEW n \in 0..m
        PROVE  h[n] = IF n = 0 THEN s ELSE Put(h[n - 1], text[n])
    <3>1. CASE n = m
      <4>1. m - 1 \in 0..m /\ m - 1 # m /\ h[m - 1] = g[m - 1]
        BY <2>2, <2>3
      <4> QED
        BY <2>3, <3>1, <4>1
    <3>2. CASE n # m
      <4>1. n \in 0..(m - 1) /\ h[n] = g[n]
        BY <2>2, <3>2
      <4>2. g[n] = IF n = 0 THEN s ELSE Put(g[n - 1], text[n])
        BY <2>6, <4>1
      <4>3. n # 0 => n - 1 \in 0..m /\ n - 1 # m /\ h[n - 1] = g[n - 1]
        BY <2>2, <4>1
      <4> HIDE DEF h
      <4> QED
        BY <4>1, <4>2, <4>3
    <3> QED
      BY <3>1, <3>2
  <2>8. h = [n \in 0..m |-> h[n]]
    OBVIOUS
  <2> HIDE DEF h
  <2>9. G(h, m)
    BY <2>7, <2>8
  <2> QED
    BY <2>2, <2>9
<1>2. L \in 0..L /\ L \notin T
  BY <1>1
<1>3. \E h : G(h, L)
  BY <1>2
<1> QED
  BY <1>3 DEF Prints

LEMMA PrintedUnfolds ==
  ASSUME NEW s, NEW text, Len(text) \in Nat
  PROVE  \E h : Prints(h, s, text) /\ Printed(s, text) = h[Len(text)]
<1> DEFINE upTo[n \in 0..Len(text)] == IF n = 0 THEN s ELSE Put(upTo[n - 1], text[n])
<1>1. Printed(s, text) = upTo[Len(text)]
  BY DEF Printed
<1>5. PICK h : Prints(h, s, text)
  BY PrintingExists
<1>2. h = [n \in 0..Len(text) |-> IF n = 0 THEN s ELSE Put(h[n - 1], text[n])]
  BY <1>5 DEF Prints
<1>3. upTo = [n \in 0..Len(text) |-> IF n = 0 THEN s ELSE Put(upTo[n - 1], text[n])]
  BY <1>2
<1> HIDE DEF upTo
<1>4. Prints(upTo, s, text)
  BY <1>3 DEF Prints
<1> QED
  BY <1>1, <1>4

(* Printing is what puts one character after the other.                    *)
LEMMA PrintedIs ==
  ASSUME NEW s, NEW text, Len(text) \in Nat, NEW g, g[0] = s,
         \A n \in 1..Len(text) : g[n] = Put(g[n - 1], text[n])
  PROVE  Printed(s, text) = g[Len(text)]
<1> DEFINE L == Len(text)
<1>1. PICK h : Prints(h, s, text) /\ Printed(s, text) = h[L]
  BY PrintedUnfolds
<1>2. \A n \in 0..L : h[n] = IF n = 0 THEN s ELSE Put(h[n - 1], text[n])
  <2>1. h = [n \in 0..L |-> IF n = 0 THEN s ELSE Put(h[n - 1], text[n])]
    BY <1>1 DEF Prints
  <2> QED
    BY <2>1
<1> DEFINE B == {n \in 0..L : h[n] # g[n]}
<1>3. B = {}
  <2> SUFFICES ASSUME B # {} PROVE FALSE
    OBVIOUS
  <2>1. PICK m \in B : \A k \in B : m <= k
    <3>1. B \in SUBSET Nat
      OBVIOUS
    <3> HIDE DEF B
    <3> QED
      BY <3>1, LeastElement
  <2>2. m \in 0..L /\ h[m] # g[m]
    BY <2>1
  <2>3. m # 0
    BY <1>2, <2>2
  <2>4. m - 1 \in 0..L /\ ~ (m <= m - 1) /\ m \in 1..L
    BY <2>2, <2>3
  <2>5. m - 1 \notin B
    <3> HIDE DEF B
    <3> QED
      BY <2>1, <2>4
  <2>6. h[m - 1] = g[m - 1]
    BY <2>4, <2>5
  <2> QED
    BY <1>2, <2>2, <2>3, <2>4, <2>6
<1>4. L \in 0..L
  OBVIOUS
<1> QED
  BY <1>1, <1>3, <1>4

LEMMA PrintOne ==
  ASSUME NEW s, NEW x
  PROVE  Printed(s, <<x>>) = Put(s, x)
<1> DEFINE g == [n \in 0..1 |-> IF n = 0 THEN s ELSE Put(s, x)]
           t == <<x>>
<1>1. Len(t) = 1 /\ t[1] = x
  OBVIOUS
<1>2. g[0] = s /\ g[1] = Put(s, x)
  OBVIOUS
<1> HIDE DEF g, t
<1>3. Len(t) \in Nat
  BY <1>1
<1>4. g[0] = s
  BY <1>2
<1>5. \A n \in 1..Len(t) : g[n] = Put(g[n - 1], t[n])
  BY <1>1, <1>2
<1>6. Printed(s, t) = g[Len(t)]
  BY <1>3, <1>4, <1>5, PrintedIs
<1> QED
  BY <1>1, <1>2, <1>6 DEF t

LEMMA PrintBoth ==
  ASSUME NEW s, NEW S, NEW a \in Seq(S), NEW b \in Seq(S)
  PROVE  Printed(s, a \o b) = Printed(Printed(s, a), b)
<1> DEFINE A == Len(a)
           B == Len(b)
           ab == a \o b
<1>1. A \in Nat /\ B \in Nat
  BY LenProperties
<1>2. /\ Len(ab) = A + B
      /\ \A i \in 1..(A + B) : ab[i] = IF i <= A THEN a[i] ELSE b[i - A]
  BY ConcatProperties
<1>3. PICK h : Prints(h, s, a) /\ Printed(s, a) = h[A]
  BY <1>1, PrintedUnfolds
<1> DEFINE t == Printed(s, a)
<1>4. PICK k : Prints(k, t, b) /\ Printed(t, b) = k[B]
  BY <1>1, PrintedUnfolds
<1>5. \A n \in 0..A : h[n] = IF n = 0 THEN s ELSE Put(h[n - 1], a[n])
  <2>1. h = [n \in 0..A |-> IF n = 0 THEN s ELSE Put(h[n - 1], a[n])]
    BY <1>3 DEF Prints
  <2> QED
    BY <2>1
<1>6. \A n \in 0..B : k[n] = IF n = 0 THEN t ELSE Put(k[n - 1], b[n])
  <2>1. k = [n \in 0..B |-> IF n = 0 THEN t ELSE Put(k[n - 1], b[n])]
    BY <1>4 DEF Prints
  <2> QED
    BY <2>1
<1>7. k[0] = h[A] /\ h[0] = s
  BY <1>1, <1>3, <1>5, <1>6
<1> DEFINE g == [n \in 0..(A + B) |-> IF n <= A THEN h[n] ELSE k[n - A]]
<1> HIDE DEF t, ab, A, B
<1>8. g[0] = s
  BY <1>1, <1>7
<1>9. ASSUME NEW n \in 1..(A + B) PROVE g[n] = Put(g[n - 1], ab[n])
  <2>0. n \in 0..(A + B) /\ n - 1 \in 0..(A + B)
    BY <1>1
  <2>1. CASE n <= A
    <3>1. n \in 0..A /\ n # 0 /\ n - 1 <= A
      BY <1>1, <2>1
    <3>2. g[n] = h[n] /\ g[n - 1] = h[n - 1]
      BY <2>0, <2>1, <3>1
    <3> QED
      BY <1>2, <1>5, <2>1, <3>1, <3>2
  <2>2. CASE n = A + 1
    <3>1. ~ (n <= A) /\ n - 1 = A /\ n - A = 1 /\ 1 \in 0..B /\ A <= A
      BY <1>1, <2>2
    <3>2. g[n] = k[1] /\ g[n - 1] = h[A]
      BY <2>0, <3>1
    <3>3. k[1] = Put(k[0], b[1])
      BY <1>6, <3>1
    <3>4. ab[n] = b[1]
      BY <1>2, <3>1
    <3> QED
      BY <1>7, <3>2, <3>3, <3>4
  <2>3. CASE ~ (n <= A) /\ n # A + 1
    <3>1. ~ (n - 1 <= A) /\ n - A \in 0..B /\ n - A # 0 /\ (n - 1) - A = (n - A) - 1
      BY <1>1, <2>3
    <3>2. g[n] = k[n - A] /\ g[n - 1] = k[(n - A) - 1]
      BY <2>0, <2>3, <3>1
    <3>3. k[n - A] = Put(k[(n - A) - 1], b[n - A])
      BY <1>6, <3>1
    <3>4. ab[n] = b[n - A]
      BY <1>2, <2>3
    <3> QED
      BY <3>2, <3>3, <3>4
  <2> QED
    BY <1>1, <2>1, <2>2, <2>3
<1>10. g[A + B] = k[B]
  <2>1. A + B \in 0..(A + B) /\ (A + B) - A = B
    BY <1>1
  <2>2. CASE B = 0
    BY <1>1, <1>7, <2>1, <2>2
  <2>3. CASE B # 0
    <3>1. ~ (A + B <= A)
      BY <1>1, <2>3
    <3> QED
      BY <2>1, <3>1
  <2> QED
    BY <2>2, <2>3
<1> HIDE DEF g
<1>11. Len(ab) \in Nat
  BY <1>1, <1>2
<1>12. Printed(s, ab) = g[A + B]
  BY <1>2, <1>8, <1>9, <1>11, PrintedIs
<1> QED
  BY <1>4, <1>10, <1>12 DEF t, ab, B
----------------------------------------------------------------------------
(* The screen, with its cursor k cells behind home.                        *)
Glyphs == Chars \cup {Old}
At(r, k) == [cells |-> r, at |-> home + k]

LEMMA CellsAre == VmemMax \in Int /\ Cells \subseteq Nat /\ \A i \in Nat : i \in Cells <=> i < VmemMax
<1>1. VmemMax \in Int
  BY ShellAssumption DEF VmemMax
<1> QED
  BY <1>1 DEF Cells

LEMMA PutBack ==
  ASSUME home \in Cells, NEW r, NEW k \in Nat, k > 0
  PROVE  Put(At(r, k), Bs) = At(r, k - 1)
<1>1. home \in Nat
  BY CellsAre
<1>2. home + k > 0 /\ (home + k) - 1 = home + (k - 1)
  BY <1>1
<1> QED
  BY <1>2 DEF Put, At

LEMMA PutChar ==
  ASSUME home \in Cells, NEW r \in [Cells -> Glyphs], NEW k \in Nat, home + k + 1 \in Cells,
         NEW ch \in Chars
  PROVE  Put(At(r, k), ch) = At([r EXCEPT ![home + k] = ch], k + 1)
<1>1. ch # Bs /\ home \in Nat
  BY ShellAssumption, CellsAre
<1>2. (home + k) + 1 = home + (k + 1) /\ ~ ((home + k) + 1 >= VmemMax)
  BY <1>1, CellsAre
<1> QED
  BY <1>1, <1>2 DEF Put, At

(* The cells with n characters of a text over them.                        *)
Under(r, k, text, n) ==
  [i \in Cells |-> IF i - home \in k..(k + n - 1) THEN text[i - home - k + 1] ELSE r[i]]

LEMMA PrintChars ==
  ASSUME home \in Cells, NEW r \in [Cells -> Glyphs], NEW k \in Nat, NEW text \in Seq(Chars),
         home + k + Len(text) \in Cells
  PROVE  Printed(At(r, k), text) = At(Under(r, k, text, Len(text)), k + Len(text))
<1> DEFINE L == Len(text)
           g == [n \in 0..L |-> At(Under(r, k, text, n), k + n)]
<1>1. L \in Nat /\ home \in Nat /\ VmemMax \in Int /\ home + k + L < VmemMax
  BY LenProperties, CellsAre
<1>2. \A n \in 1..L : text[n] \in Chars
  BY ElementOfSeq
<1> HIDE DEF L
<1>3. g[0] = At(r, k)
  <2>1. Under(r, k, text, 0) = r
    BY <1>1, CellsAre DEF Under
  <2>2. k + 0 = k
    OBVIOUS
  <2> QED
    BY <1>1, <2>1, <2>2
<1>4. ASSUME NEW n \in 1..L PROVE g[n] = Put(g[n - 1], text[n])
  <2>1. n \in 0..L /\ n - 1 \in 0..L /\ k + (n - 1) \in Nat /\ home + (k + (n - 1)) + 1 \in Cells
    BY <1>1, CellsAre
  <2> DEFINE u == Under(r, k, text, n - 1)
  <2>2. u \in [Cells -> Glyphs]
    <3>1. ASSUME NEW i \in Cells
          PROVE  (IF i - home \in k..(k + (n - 1) - 1) THEN text[i - home - k + 1] ELSE r[i]) \in Glyphs
      <4>1. CASE i - home \in k..(k + (n - 1) - 1)
        <5>1. i - home - k + 1 \in 1..L
          BY <1>1, <4>1, CellsAre
        <5> QED
          BY <1>2, <4>1, <5>1 DEF Glyphs
      <4>2. CASE i - home \notin k..(k + (n - 1) - 1)
        BY <4>2
      <4> QED
        BY <4>1, <4>2
    <3> QED
      BY <3>1 DEF Under
  <2>3. Under(r, k, text, n) = [u EXCEPT ![home + (k + (n - 1))] = text[n]]
    <3>1. ASSUME NEW i \in Cells
          PROVE  Under(r, k, text, n)[i] = IF i = home + (k + (n - 1)) THEN text[n] ELSE u[i]
      <4>0. i \in Nat
        BY CellsAre
      <4>1. CASE i = home + (k + (n - 1))
        <5>1. i - home \in k..(k + n - 1) /\ i - home - k + 1 = n
          BY <1>1, <4>1
        <5> QED
          BY <4>1, <5>1 DEF Under
      <4>2. CASE i # home + (k + (n - 1))
        <5>1. i - home \in k..(k + n - 1) <=> i - home \in k..(k + (n - 1) - 1)
          BY <1>1, <4>0, <4>2
        <5> QED
          BY <4>2, <5>1 DEF Under
      <4> QED
        BY <4>1, <4>2
    <3>2. Under(r, k, text, n) = [i \in Cells |-> Under(r, k, text, n)[i]]
      BY DEF Under
    <3> HIDE DEF u
    <3> QED
      BY <2>2, <3>1, <3>2
  <2>4. g[n - 1] = At(u, k + (n - 1))
    BY <2>1
  <2>5. g[n] = At(Under(r, k, text, n), k + n)
    BY <2>1
  <2> HIDE DEF g, u
  <2>6. Put(g[n - 1], text[n]) = At([u EXCEPT ![home + (k + (n - 1))] = text[n]], (k + (n - 1)) + 1)
    BY <1>2, <2>1, <2>2, <2>4, PutChar
  <2>7. (k + (n - 1)) + 1 = k + n
    BY <1>1
  <2> QED
    BY <2>3, <2>5, <2>6, <2>7
<1>5. g[L] = At(Under(r, k, text, L), k + L)
  BY <1>1
<1> HIDE DEF g
<1>6. Printed(At(r, k), text) = g[L]
  BY <1>1, <1>3, <1>4, PrintedIs DEF L
<1> QED
  BY <1>5, <1>6 DEF L

LEMMA PrintBacks ==
  ASSUME home \in Cells, NEW r, NEW k \in Nat, NEW n \in 0..k
  PROVE  Printed(At(r, k), Times(n, Bs)) = At(r, k - n)
<1> DEFINE g == [m \in 0..n |-> At(r, k - m)]
<1>1. Times(n, Bs) \in Seq({Bs}) /\ Len(Times(n, Bs)) = n /\ \A m \in 1..n : Times(n, Bs)[m] = Bs
  BY DEF Times
<1>2. g[0] = At(r, k)
  <2>1. k - 0 = k
    OBVIOUS
  <2> QED
    BY <2>1
<1>3. ASSUME NEW m \in 1..n PROVE g[m] = Put(g[m - 1], Times(n, Bs)[m])
  <2>1. /\ m \in 0..n /\ m - 1 \in 0..n /\ (k - (m - 1)) - 1 = k - m
        /\ k - (m - 1) \in Nat /\ k - (m - 1) > 0
    OBVIOUS
  <2>2. g[m - 1] = At(r, k - (m - 1)) /\ g[m] = At(r, k - m)
    BY <2>1
  <2> HIDE DEF g
  <2>3. Put(g[m - 1], Bs) = At(r, (k - (m - 1)) - 1)
    BY <2>1, <2>2, PutBack
  <2> QED
    BY <1>1, <2>1, <2>2, <2>3
<1>4. g[n] = At(r, k - n)
  OBVIOUS
<1> HIDE DEF g
<1>5. Printed(At(r, k), Times(n, Bs)) = g[n]
  BY <1>1, <1>2, <1>3, PrintedIs
<1> QED
  BY <1>4, <1>5

(* The cells that show the first n characters of a buffer, and blanks up   *)
(* to the former end of the line.                                          *)
RowOf(b, n, end) ==
  [i \in Cells |-> IF i - home \in 0..(n - 1) THEN b[i - home]
                   ELSE IF i - home \in 0..(end - 1) THEN Space ELSE Old]

LEMMA ShowingIs ==
  ASSUME home \in Cells, NEW b \in [Index -> Chars \cup {Nul}], NEW n \in 0..(Cap - 2),
         NEW end \in Nat, NEW place, \A i \in 0..(n - 1) : b[i] # Nul,
         NEW line, line = [i \in 1..n |-> b[i - 1]]
  PROVE  /\ RowOf(b, n, end) \in [Cells -> Glyphs]
         /\ Showing(line, end, place) = At(RowOf(b, n, end), place)
<1>1. Cap \in Nat /\ Space \in Chars /\ home \in Nat /\ Cells \subseteq Nat
  BY ShellAssumption, CellsAre
<1>2. ASSUME NEW i \in Cells
      PROVE  (IF i - home \in 0..(n - 1) THEN b[i - home]
              ELSE IF i - home \in 0..(end - 1) THEN Space ELSE Old) \in Glyphs
  <2>1. CASE i - home \in 0..(n - 1)
    <3>1. i - home \in Index
      BY <1>1, <2>1 DEF Index
    <3> QED
      BY <2>1, <3>1 DEF Glyphs
  <2> QED
    BY <1>1, <2>1 DEF Glyphs
<1>3. RowOf(b, n, end) \in [Cells -> Glyphs]
  BY <1>2 DEF RowOf
<1>4. line \in [1..n -> Chars \cup {Nul}] /\ Len(line) = n
  <2>1. \A i \in 1..n : b[i - 1] \in Chars \cup {Nul}
    BY <1>1 DEF Index
  <2>2. n \in Nat
    BY <1>1
  <2> QED
    BY <2>1, <2>2
<1>5. ASSUME NEW i \in Cells
      PROVE  (IF i - home + 1 \in 1..Len(line) THEN line[i - home + 1]
              ELSE IF i - home + 1 \in 1..end THEN Space ELSE Old)
             = (IF i - home \in 0..(n - 1) THEN b[i - home]
                ELSE IF i - home \in 0..(end - 1) THEN Space ELSE Old)
  <2>1. i \in Nat
    BY <1>1
  <2>2. i - home + 1 \in 1..n <=> i - home \in 0..(n - 1)
    BY <1>1, <2>1
  <2>3. i - home + 1 \in 1..end <=> i - home \in 0..(end - 1)
    BY <1>1, <2>1
  <2>4. (i - home + 1) - 1 = i - home
    BY <1>1, <2>1
  <2>5. i - home \in 0..(n - 1) => line[i - home + 1] = b[i - home]
    BY <2>2, <2>4
  <2> QED
    BY <1>4, <2>2, <2>3, <2>5
<1>6. [i \in Cells |-> IF i - home + 1 \in 1..Len(line) THEN line[i - home + 1]
                       ELSE IF i - home + 1 \in 1..end THEN Space ELSE Old] = RowOf(b, n, end)
  BY <1>5 DEF RowOf
<1> QED
  BY <1>3, <1>6 DEF Showing, At

LEMMA TextIs ==
  ASSUME NEW b \in [Index -> Chars \cup {Nul}], NEW n \in 0..(Cap - 1), NEW i \in 0..n,
         \A k \in i..(n - 1) : b[k] # Nul, b[n] = Nul
  PROVE  /\ Text(b, i) \in Seq(Chars) /\ Len(Text(b, i)) = n - i
         /\ \A k \in 1..(n - i) : Text(b, i)[k] = b[i + k - 1]
<1> DEFINE S == {k \in i..Cap : k = Cap \/ b[k] = Nul}
<1>1. Cap \in Nat
  BY ShellAssumption
<1>2. n \in S /\ \A k \in S : n <= k
  BY <1>1
<1>3. Min(S) = n
  <2>1. Min(S) \in S /\ \A k \in S : Min(S) <= k
    BY <1>2 DEF Min
  <2>2. Min(S) <= n /\ n <= Min(S) /\ Min(S) \in Int
    BY <1>2, <2>1
  <2> HIDE DEF S
  <2> QED
    BY <2>2
<1>4. Text(b, i) = [k \in 1..(n - i) |-> b[i + k - 1]]
  BY <1>3 DEF Text
<1>5. ASSUME NEW k \in 1..(n - i) PROVE b[i + k - 1] \in Chars
  <2>1. i + k - 1 \in Index /\ i + k - 1 \in i..(n - 1)
    BY <1>1 DEF Index
  <2> QED
    BY <2>1
<1>6. n - i \in Nat
  BY <1>1
<1>7. Text(b, i) \in [1..(n - i) -> Chars]
  BY <1>4, <1>5
<1> HIDE DEF Text
<1>8. Text(b, i) \in Seq(Chars) /\ Len(Text(b, i)) = n - i
  BY <1>6, <1>7
<1> QED
  BY <1>4, <1>8

(* The console before a key.                                               *)
LEMMA ShownNow ==
  ASSUME LineInv
  PROVE  /\ RowOf(buf, len, len) \in [Cells -> Glyphs]
         /\ Showing(Line, len, cursor) = At(RowOf(buf, len, len), cursor)
         /\ Cap \in Nat /\ len \in 0..(Cap - 2) /\ cursor \in 0..len
         /\ buf \in [Index -> Chars \cup {Nul}] /\ Ended(buf, len)
         /\ home \in Cells /\ home \in Nat /\ Cells \subseteq Nat
<1>1. /\ Cap \in Nat /\ len \in 0..(Cap - 2) /\ cursor \in 0..len
      /\ buf \in [Index -> Chars \cup {Nul}] /\ Ended(buf, len)
      /\ home \in Cells /\ home \in Nat /\ Cells \subseteq Nat
  BY ShellAssumption, CellsAre DEF LineInv, TypeOK
<1>2. \A i \in 0..(len - 1) : buf[i] # Nul
  BY <1>1 DEF Ended
<1>3. len \in Nat /\ home \in Cells /\ len \in 0..(Cap - 2) /\ buf \in [Index -> Chars \cup {Nul}]
  BY <1>1
<1>4. Line = [i \in 1..len |-> buf[i - 1]]
  BY DEF Line
<1>5. RowOf(buf, len, len) \in [Cells -> Glyphs]
  BY <1>2, <1>3, <1>4, ShowingIs
<1>6. Showing(Line, len, cursor) = At(RowOf(buf, len, len), cursor)
  BY <1>2, <1>3, <1>4, ShowingIs
<1> QED
  BY <1>1, <1>5, <1>6

LEMMA ShownThen ==
  ASSUME LineInv, LineInv'
  PROVE  /\ RowOf(buf', len', len) \in [Cells -> Glyphs]
         /\ Showing(Line', len, cursor') = At(RowOf(buf', len', len), cursor')
<1>1. /\ Cap \in Nat /\ len' \in 0..(Cap - 2) /\ len \in Nat /\ home \in Cells
      /\ buf' \in [Index -> Chars \cup {Nul}] /\ Ended(buf', len')
  BY ShellAssumption DEF LineInv, TypeOK
<1>2. \A i \in 0..(len' - 1) : buf'[i] # Nul
  BY <1>1 DEF Ended
<1>3. Line' = [i \in 1..len' |-> buf'[i - 1]]
  BY DEF Line
<1>4. /\ len \in Nat /\ home \in Cells /\ len' \in 0..(Cap - 2)
      /\ buf' \in [Index -> Chars \cup {Nul}]
  BY <1>1
<1>5. RowOf(buf', len', len) \in [Cells -> Glyphs]
  BY <1>2, <1>3, <1>4, ShowingIs
<1>6. Showing(Line', len, cursor') = At(RowOf(buf', len', len), cursor')
  BY <1>2, <1>3, <1>4, ShowingIs
<1> QED
  BY <1>5, <1>6

(* A line that lies on the screen leaves room for the cursor behind it.    *)
LEMMA FitsIs ==
  ASSUME home \in Cells, NEW n \in Nat, home + n \in Cells, NEW k \in Nat, k < n
  PROVE  home + k \in Cells /\ home + k + 1 \in Cells
BY CellsAre

LEMMA CharsType == Chars \subseteq Chars \cup {Bs} /\ Space \in Chars /\ Bs \notin Chars
  BY ShellAssumption

LEMMA LeftShows ==
  ASSUME LineInv, LineInv', Left, shown
  PROVE  shown'
<1>1. cursor > 0 /\ cursor' = cursor - 1 /\ buf' = buf /\ len' = len
      /\ shown' = (shown /\ Printed(Showing(Line, len, cursor), <<Bs>>) = Showing(Line', len, cursor'))
  BY DEF Left, Log
<1>2. Printed(Showing(Line, len, cursor), <<Bs>>) = At(RowOf(buf, len, len), cursor - 1)
  <2>1. /\ Showing(Line, len, cursor) = At(RowOf(buf, len, len), cursor)
        /\ cursor \in Nat /\ home \in Cells
    BY ShownNow
  <2> QED
    BY <1>1, <2>1, PrintOne, PutBack
<1>3. Showing(Line', len, cursor') = At(RowOf(buf', len', len), cursor')
  BY ShownThen
<1> QED
  BY <1>1, <1>2, <1>3

(* A character of the line, or none, put where it is shown.                *)
LEMMA PutShown ==
  ASSUME home \in Cells, NEW r \in [Cells -> Glyphs], NEW k \in Nat, home + k + 1 \in Cells,
         NEW ch \in Chars, NEW w,
         \A i \in Cells : w[i] = IF i - home = k THEN ch ELSE r[i],
         w \in [Cells -> Glyphs]
  PROVE  Put(At(r, k), ch) = At(w, k + 1)
<1>1. \A i \in Cells : i - home = k <=> i = home + k
  BY CellsAre
<1>2. [r EXCEPT ![home + k] = ch] = w
  BY <1>1
<1> QED
  BY <1>2, PutChar

LEMMA RightShows ==
  ASSUME LineInv, LineInv', Right, shown, Fits
  PROVE  shown'
<1>1. /\ cursor < len /\ cursor' = cursor + 1 /\ buf' = buf /\ len' = len
      /\ shown' = (shown /\ Printed(Showing(Line, len, cursor), <<buf[cursor]>>) = Showing(Line', len, cursor'))
  BY DEF Right, Log
<1>2. /\ RowOf(buf, len, len) \in [Cells -> Glyphs]
      /\ Showing(Line, len, cursor) = At(RowOf(buf, len, len), cursor)
      /\ Cap \in Nat /\ len \in 0..(Cap - 2) /\ cursor \in 0..len
      /\ buf \in [Index -> Chars \cup {Nul}] /\ Ended(buf, len)
      /\ home \in Cells /\ home \in Nat /\ Cells \subseteq Nat
  BY ShownNow
<1>3. cursor \in Nat /\ len \in Nat /\ cursor \in Index /\ buf[cursor] \in Chars
  BY <1>1, <1>2 DEF Index, Ended
<1>4. home + cursor \in Cells /\ home + cursor + 1 \in Cells
  BY <1>1, <1>2, <1>3, FitsIs DEF Fits
<1>5. ASSUME NEW i \in Cells
      PROVE  RowOf(buf, len, len)[i] = IF i - home = cursor THEN buf[cursor] ELSE RowOf(buf, len, len)[i]
  <2>1. i - home = cursor => i - home \in 0..(len - 1)
    BY <1>1, <1>2, <1>3
  <2> QED
    BY <2>1 DEF RowOf
<1>6. Put(At(RowOf(buf, len, len), cursor), buf[cursor]) = At(RowOf(buf, len, len), cursor + 1)
  BY <1>2, <1>3, <1>4, <1>5, PutShown
<1>7. Printed(Showing(Line, len, cursor), <<buf[cursor]>>) = At(RowOf(buf, len, len), cursor + 1)
  BY <1>2, <1>6, PrintOne
<1>8. Showing(Line', len, cursor') = At(RowOf(buf', len', len), cursor')
  BY ShownThen
<1> QED
  BY <1>1, <1>7, <1>8

LEMMA TypeShows ==
  ASSUME LineInv, LineInv', NEW ch \in Chars, Type(ch), shown, Fits, Fits'
  PROVE  shown'
<1>1. /\ RowOf(buf, len, len) \in [Cells -> Glyphs]
      /\ Showing(Line, len, cursor) = At(RowOf(buf, len, len), cursor)
      /\ Cap \in Nat /\ len \in 0..(Cap - 2) /\ cursor \in 0..len
      /\ buf \in [Index -> Chars \cup {Nul}] /\ Ended(buf, len)
      /\ home \in Cells /\ home \in Nat /\ Cells \subseteq Nat
  BY ShownNow
<1>2. /\ ~ Full(len) /\ cursor' = cursor + 1 /\ len' = len + 1 /\ len \in 0..(Cap - 3)
      /\ home' = home
  BY <1>1 DEF Type, Full, Log
<1>3. /\ RowOf(buf', len', len) \in [Cells -> Glyphs]
      /\ Showing(Line', len, cursor') = At(RowOf(buf', len', len), cursor')
  BY ShownThen
<1>4. buf' \in [Index -> Chars \cup {Nul}] /\ Ended(buf', len')
  BY DEF LineInv, TypeOK
<1>5. /\ cursor \in Nat /\ cursor \in Index /\ len \in Nat /\ len \in Index
      /\ home + len + 1 \in Cells
  BY <1>1, <1>2 DEF Index, Fits
<1>6. CASE cursor = len
  <2>1. buf' = [buf EXCEPT ![len] = ch, ![len + 2] = Nul]
        /\ shown' = (shown /\ Printed(Showing(Line, len, cursor), <<ch>>) = Showing(Line', len, cursor'))
    BY <1>6 DEF Type, PutLast, Log
  <2>2. ASSUME NEW i \in Cells
        PROVE  RowOf(buf', len', len)[i] = IF i - home = len THEN ch ELSE RowOf(buf, len, len)[i]
    <3>0. i - home \in Int
      BY <1>1
    <3>1. CASE i - home \in 0..(len - 1)
      <4>1. /\ i - home \in Index /\ i - home # len /\ i - home # len + 2
            /\ i - home \in 0..(len' - 1)
        BY <1>1, <1>2, <3>0, <3>1 DEF Index
      <4>2. buf'[i - home] = buf[i - home]
        BY <1>1, <2>1, <4>1
      <4> QED
        BY <3>1, <4>1, <4>2 DEF RowOf
    <3>2. CASE i - home = len
      <4>1. buf'[len] = ch /\ len \in 0..(len' - 1)
        BY <1>1, <1>2, <1>5, <2>1
      <4> QED
        BY <3>2, <4>1 DEF RowOf
    <3>3. CASE i - home \notin 0..len
      <4>1. i - home \notin 0..(len - 1) /\ i - home \notin 0..(len' - 1) /\ i - home # len
        BY <1>1, <1>2, <3>0, <3>3
      <4> QED
        BY <4>1 DEF RowOf
    <3> QED
      BY <1>1, <3>0, <3>1, <3>2, <3>3
  <2>3. Put(At(RowOf(buf, len, len), len), ch) = At(RowOf(buf', len', len), len + 1)
    BY <1>1, <1>3, <1>5, <2>2, PutShown
  <2>4. Printed(Showing(Line, len, cursor), <<ch>>) = At(RowOf(buf', len', len), len + 1)
    BY <1>1, <1>6, <2>3, PrintOne
  <2> QED
    BY <1>2, <1>3, <1>6, <2>1, <2>4
<1>7. CASE cursor # len
  <2> DEFINE rest == Text(buf', cursor + 1)
             text == <<ch>> \o rest
             backs == Times(len - cursor, Bs)
             u == ShiftUp(buf, cursor, len)
  <2>1. buf' = [u EXCEPT ![cursor] = ch, ![len + 1] = Nul]
        /\ shown' = (shown /\ Printed(Showing(Line, len, cursor), text \o backs)
                                = Showing(Line', len, cursor'))
    BY <1>7 DEF Type, Insert, Log
  <2>2. u = [i \in Index |-> IF i \in (cursor + 1)..len THEN buf[i - 1] ELSE buf[i]]
    BY DEF ShiftUp
  <2>3. /\ buf'[cursor] = ch /\ buf'[len + 1] = Nul
        /\ \A i \in 0..(cursor - 1) : buf'[i] = buf[i]
    <3>1. len + 1 \in Index /\ cursor # len + 1
      BY <1>1, <1>2 DEF Index
    <3>2. ASSUME NEW i \in 0..(cursor - 1) PROVE buf'[i] = buf[i]
      <4>1. i \in Index /\ i # cursor /\ i # len + 1 /\ i \notin (cursor + 1)..len
        BY <1>1 DEF Index
      <4> QED
        BY <2>1, <2>2, <4>1
    <3> QED
      BY <1>5, <2>1, <2>2, <3>1, <3>2
  <2> HIDE DEF u
  <2>4. /\ rest \in Seq(Chars) /\ Len(rest) = len - cursor
        /\ \A k \in 1..(len - cursor) : rest[k] = buf'[cursor + k]
    <3>1. /\ len + 1 \in 0..(Cap - 1) /\ cursor + 1 \in 0..(len + 1)
          /\ \A k \in (cursor + 1)..((len + 1) - 1) : buf'[k] # Nul
      BY <1>1, <1>2, <1>4 DEF Ended
    <3>2. /\ rest \in Seq(Chars) /\ Len(rest) = (len + 1) - (cursor + 1)
          /\ \A k \in 1..((len + 1) - (cursor + 1)) : rest[k] = buf'[(cursor + 1) + k - 1]
      BY <1>4, <2>3, <3>1, TextIs
    <3> HIDE DEF rest
    <3>3. (len + 1) - (cursor + 1) = len - cursor
      BY <1>1
    <3>4. ASSUME NEW k \in 1..(len - cursor) PROVE rest[k] = buf'[cursor + k]
      <4>1. (cursor + 1) + k - 1 = cursor + k
        BY <1>1
      <4> QED
        BY <3>2, <3>3, <4>1
    <3> QED
      BY <3>2, <3>3, <3>4
  <2> HIDE DEF rest
  <2>5. /\ text \in Seq(Chars) /\ Len(text) = len - cursor + 1
        /\ \A k \in 1..(len - cursor + 1) : text[k] = buf'[cursor + k - 1]
    <3>1. <<ch>> \in Seq(Chars) /\ Len(<<ch>>) = 1 /\ <<ch>>[1] = ch
      OBVIOUS
    <3>2. /\ text \in Seq(Chars) /\ Len(text) = 1 + Len(rest)
          /\ \A k \in 1..(1 + Len(rest)) : text[k] = IF k <= 1 THEN <<ch>>[k] ELSE rest[k - 1]
      <4>1. rest \in Seq(Chars)
        BY <2>4
      <4> QED
        BY <3>1, <4>1, ConcatProperties
    <3> HIDE DEF text
    <3>3. Len(text) = len - cursor + 1 /\ 1 + Len(rest) = len - cursor + 1
      BY <1>1, <2>4, <3>2
    <3>4. ASSUME NEW k \in 1..(len - cursor + 1) PROVE text[k] = buf'[cursor + k - 1]
      <4>1. CASE k = 1
        <5>1. cursor + k - 1 = cursor
          BY <1>1, <4>1
        <5> QED
          BY <2>3, <3>1, <3>2, <3>3, <4>1, <5>1
      <4>2. CASE k # 1
        <5>1. k - 1 \in 1..(len - cursor) /\ cursor + (k - 1) = cursor + k - 1 /\ ~ (k <= 1)
          BY <1>1, <4>2
        <5>2. text[k] = rest[k - 1]
          BY <3>2, <3>3, <5>1
        <5>3. rest[k - 1] = buf'[cursor + (k - 1)]
          BY <2>4, <5>1
        <5> QED
          BY <5>1, <5>2, <5>3
      <4> QED
        BY <4>1, <4>2
    <3> QED
      BY <3>2, <3>3, <3>4
  <2> HIDE DEF text
  <2>6. cursor + Len(text) = len + 1 /\ home + cursor + Len(text) \in Cells
    BY <1>1, <1>5, <2>5
  <2>7. Printed(Showing(Line, len, cursor), text)
          = At(Under(RowOf(buf, len, len), cursor, text, Len(text)), len + 1)
    BY <1>1, <1>5, <2>5, <2>6, PrintChars
  <2>8. Under(RowOf(buf, len, len), cursor, text, Len(text)) = RowOf(buf', len', len)
    <3>1. ASSUME NEW i \in Cells
          PROVE  (IF i - home \in cursor..(cursor + Len(text) - 1) THEN text[i - home - cursor + 1]
                  ELSE RowOf(buf, len, len)[i])
                 = (IF i - home \in 0..(len' - 1) THEN buf'[i - home]
                    ELSE IF i - home \in 0..(len - 1) THEN Space ELSE Old)
      <4>0. i - home \in Int /\ cursor + Len(text) - 1 = len
        BY <1>1, <2>5
      <4>1. CASE i - home \in 0..(cursor - 1)
        <5>1. i - home \in 0..(len - 1) /\ i - home \in 0..(len' - 1) /\ i - home \notin cursor..len
          BY <1>1, <1>2, <4>0, <4>1
        <5> QED
          BY <2>3, <4>0, <4>1, <5>1 DEF RowOf
      <4>2. CASE i - home \in cursor..len
        <5>1. i - home - cursor + 1 \in 1..(len - cursor + 1)
              /\ cursor + (i - home - cursor + 1) - 1 = i - home
              /\ i - home \in 0..(len' - 1)
          BY <1>1, <1>2, <4>0, <4>2
        <5>2. text[i - home - cursor + 1] = buf'[i - home]
          BY <2>5, <5>1
        <5> QED
          BY <4>0, <4>2, <5>1, <5>2
      <4>3. CASE i - home \notin 0..len
        <5>1. /\ i - home \notin 0..(len - 1) /\ i - home \notin 0..(len' - 1)
              /\ i - home \notin cursor..len
          BY <1>1, <1>2, <4>0, <4>3
        <5> QED
          BY <4>0, <5>1 DEF RowOf
      <4> QED
        BY <1>1, <4>0, <4>1, <4>2, <4>3
    <3> QED
      BY <3>1, Zenon DEF Under, RowOf
  <2>9. Printed(At(RowOf(buf', len', len), len + 1), backs)
          = At(RowOf(buf', len', len), (len + 1) - (len - cursor))
    <3>1. len + 1 \in Nat /\ len - cursor \in 0..(len + 1)
      BY <1>1
    <3> QED
      BY <1>1, <3>1, PrintBacks
  <2>10. (len + 1) - (len - cursor) = cursor + 1
    BY <1>1
  <2>11. Printed(Showing(Line, len, cursor), text \o backs)
           = Printed(Printed(Showing(Line, len, cursor), text), backs)
    <3>1. text \in Seq(Chars \cup {Bs}) /\ backs \in Seq(Chars \cup {Bs})
      <4>1. text \in Seq(Chars \cup {Bs})
        BY <2>5
      <4>2. len - cursor \in Nat
        BY <1>1
      <4>3. backs \in Seq(Chars \cup {Bs})
        BY <4>2 DEF Times
      <4> QED
        BY <4>1, <4>3
    <3> HIDE DEF backs
    <3> QED
      BY <3>1, PrintBoth
  <2> HIDE DEF backs
  <2> QED
    BY <1>2, <1>3, <2>1, <2>7, <2>8, <2>9, <2>10, <2>11
<1> QED
  BY <1>6, <1>7

(* A line that ends where the text does has its terminator at its end.     *)
LEMMA EndsAtNul ==
  ASSUME NEW b, NEW n \in 0..(Cap - 2), Ended(b, n), EndOfText(b) = n
  PROVE  b[n] = Nul
<1> DEFINE S == {k \in 0..Cap : k = Cap \/ b[k] = Nul}
<1>1. Cap \in Nat
  BY ShellAssumption
<1>2. \E m \in S : \A k \in S : m <= k
  <2>1. S \in SUBSET Nat /\ Cap \in S
    BY <1>1
  <2> HIDE DEF S
  <2> QED
    BY <2>1, LeastElement
<1>3. Min(S) \in S
  BY <1>2 DEF Min
<1>4. n \in S
  BY <1>3 DEF EndOfText
<1> QED
  BY <1>1, <1>4

(* What a key prints.                                                      *)
Texts == Seq(Chars \cup {Bs})

(* One text after the other; the provers take it better than \o.           *)
Then(a, b) == a \o b

LEMMA ThenType ==
  ASSUME NEW a \in Texts, NEW b \in Texts
  PROVE  Then(a, b) \in Texts
  BY ConcatProperties DEF Texts, Then

LEMMA PrintThen ==
  ASSUME NEW a \in Texts, NEW b \in Texts, NEW s
  PROVE  Printed(s, Then(a, b)) = Printed(Printed(s, a), b)
  BY PrintBoth DEF Texts, Then

LEMMA PrintFour ==
  ASSUME NEW a \in Texts, NEW b \in Texts, NEW c \in Texts, NEW d \in Texts, NEW s
  PROVE  Printed(s, a \o b \o c \o d)
           = Printed(Printed(Printed(Printed(s, a), b), c), d)
<1>1. Then(a, b) \in Texts
  BY ThenType
<1>2. Then(Then(a, b), c) \in Texts
  BY <1>1, ThenType
<1>3. Printed(s, Then(a, b)) = Printed(Printed(s, a), b)
  BY PrintThen
<1>4. Printed(s, Then(Then(a, b), c)) = Printed(Printed(s, Then(a, b)), c)
  BY <1>1, PrintThen
<1>5. Printed(s, Then(Then(Then(a, b), c), d)) = Printed(Printed(s, Then(Then(a, b), c)), d)
  BY <1>2, PrintThen
<1>6. Printed(s, Then(Then(Then(a, b), c), d))
        = Printed(Printed(Printed(Printed(s, a), b), c), d)
  BY <1>3, <1>4, <1>5
<1> QED
  BY <1>6 DEF Then

LEMMA BackspaceShows ==
  ASSUME LineInv, LineInv', Backspace, shown, EndOfText(buf) = len, Fits
  PROVE  shown'
<1>1. /\ RowOf(buf, len, len) \in [Cells -> Glyphs]
      /\ Showing(Line, len, cursor) = At(RowOf(buf, len, len), cursor)
      /\ Cap \in Nat /\ len \in 0..(Cap - 2) /\ cursor \in 0..len
      /\ buf \in [Index -> Chars \cup {Nul}] /\ Ended(buf, len)
      /\ home \in Cells /\ home \in Nat /\ Cells \subseteq Nat
  BY ShownNow
<1>2. cursor > 0 /\ cursor' = cursor - 1 /\ len' = len - 1 /\ cursor \in 1..len
  BY <1>1 DEF Backspace
<1>3. /\ RowOf(buf', len', len) \in [Cells -> Glyphs]
      /\ Showing(Line', len, cursor') = At(RowOf(buf', len', len), cursor')
  BY ShownThen
<1>4. /\ cursor - 1 \in Nat /\ len - 1 \in Nat /\ len - 1 \in Index
      /\ cursor \in Nat /\ len \in Nat
      /\ home + (len - 1) \in Cells /\ home + (len - 1) + 1 \in Cells
      /\ Space \in Chars
  <2>1. cursor - 1 \in Nat /\ len - 1 \in Nat /\ len - 1 \in Index /\ cursor \in Nat /\ len \in Nat
    BY <1>1, <1>2 DEF Index
  <2>2. len - 1 < len
    BY <2>1
  <2> QED
    BY <1>1, <2>1, <2>2, FitsIs, ShellAssumption DEF Fits
<1>5. Put(At(RowOf(buf, len, len), cursor), Bs) = At(RowOf(buf, len, len), cursor - 1)
  BY <1>1, <1>2, <1>4, PutBack
<1>6. CASE cursor = len
  <2> DEFINE t == <<Bs, Space, Bs>>
             r == RowOf(buf, len, len)
             w == RowOf(buf', len', len)
             g == [n \in 0..3 |-> IF n = 0 THEN At(r, len)
                                  ELSE IF n = 1 THEN At(r, len - 1)
                                  ELSE IF n = 2 THEN At(w, len)
                                  ELSE At(w, len - 1)]
  <2>1. buf' = [buf EXCEPT ![len - 1] = Nul]
        /\ shown' = (shown /\ Printed(Showing(Line, len, cursor), t) = Showing(Line', len, cursor'))
    BY <1>6 DEF Backspace, Shorten, Log
  <2>2. ASSUME NEW i \in Cells
        PROVE  w[i] = IF i - home = len - 1 THEN Space ELSE r[i]
    <3>0. i - home \in Int
      BY <1>1
    <3>1. CASE i - home \in 0..(len - 2)
      <4>1. /\ i - home \in Index /\ i - home # len - 1
            /\ i - home \in 0..(len - 1) /\ i - home \in 0..(len' - 1)
        BY <1>1, <1>2, <3>0, <3>1 DEF Index
      <4>2. buf'[i - home] = buf[i - home]
        BY <1>1, <2>1, <4>1
      <4> QED
        BY <4>1, <4>2 DEF RowOf
    <3>2. CASE i - home = len - 1
      <4>1. i - home \notin 0..(len' - 1) /\ i - home \in 0..(len - 1)
        BY <1>1, <1>2, <3>2
      <4> QED
        BY <3>2, <4>1 DEF RowOf
    <3>3. CASE i - home \notin 0..(len - 1)
      <4>1. i - home \notin 0..(len' - 1) /\ i - home # len - 1
        BY <1>1, <1>2, <3>0, <3>3
      <4> QED
        BY <3>3, <4>1 DEF RowOf
    <3> QED
      BY <1>1, <3>0, <3>1, <3>2, <3>3
  <2> HIDE DEF r, w
  <2>3. r \in [Cells -> Glyphs] /\ w \in [Cells -> Glyphs]
    BY <1>1, <1>3 DEF r, w
  <2>4. Put(At(r, len - 1), Space) = At(w, (len - 1) + 1)
    BY <1>1, <1>4, <2>2, <2>3, PutShown
  <2>5. (len - 1) + 1 = len
    BY <1>1
  <2>6. Put(At(w, len), Bs) = At(w, len - 1)
    BY <1>1, <1>2, <1>4, PutBack
  <2>7. Put(At(r, len), Bs) = At(r, len - 1)
    BY <1>1, <1>2, <1>4, PutBack
  <2>8. Len(t) = 3 /\ t[1] = Bs /\ t[2] = Space /\ t[3] = Bs
    OBVIOUS
  <2>9. /\ g[0] = At(r, len) /\ g[1] = At(r, len - 1)
        /\ g[2] = At(w, len) /\ g[3] = At(w, len - 1)
    OBVIOUS
  <2> HIDE DEF g, t
  <2>10. ASSUME NEW n \in 1..3 PROVE g[n] = Put(g[n - 1], t[n])
    <3>1. CASE n = 1
      BY <2>7, <2>8, <2>9, <3>1
    <3>2. CASE n = 2
      BY <2>4, <2>5, <2>8, <2>9, <3>2
    <3>3. CASE n = 3
      BY <2>6, <2>8, <2>9, <3>3
    <3> QED
      BY <3>1, <3>2, <3>3
  <2>11. Len(t) \in Nat
    BY <2>8
  <2>12. Printed(g[0], t) = g[3]
    <3>1. \A n \in 1..Len(t) : g[n] = Put(g[n - 1], t[n])
      BY <2>8, <2>10
    <3>2. Printed(g[0], t) = g[Len(t)]
      BY <2>11, <3>1, PrintedIs
    <3> QED
      BY <2>8, <3>2
  <2>13. Showing(Line, len, cursor) = At(r, len)
    BY <1>1, <1>6 DEF r
  <2>14. Showing(Line', len, cursor') = At(w, len - 1)
    BY <1>2, <1>3, <1>6 DEF w
  <2> QED
    BY <2>1, <2>9, <2>12, <2>13, <2>14
<1>7. CASE cursor # len
  <2> DEFINE r == RowOf(buf, len, len)
             w == RowOf(buf', len', len)
             rest == Text(buf, cursor)
             first == <<Bs>>
             blank == <<Space, Bs>>
             backs == Times(len - cursor, Bs)
             u == Under(r, cursor - 1, rest, Len(rest))
             moved == ShiftDown(buf, cursor - 1, len - 1)
  <2>1. /\ buf' = [moved EXCEPT ![len - 1] = Nul]
        /\ shown' = (shown /\ Printed(Showing(Line, len, cursor), <<Bs>> \o rest \o blank \o backs)
                                = Showing(Line', len, cursor'))
    BY <1>7 DEF Backspace, Shorten, Log, Over
  <2>2. moved = [i \in Index |-> IF i \in (cursor - 1)..((len - 1) - 1) THEN buf[i + 1] ELSE buf[i]]
    BY DEF ShiftDown
  <2> HIDE DEF moved
  <2>3. buf[len] = Nul
    BY <1>1, EndsAtNul
  <2>4. /\ rest \in Seq(Chars) /\ Len(rest) = len - cursor
        /\ \A k \in 1..(len - cursor) : rest[k] = buf[cursor + k - 1]
    <3>1. /\ len \in 0..(Cap - 1) /\ cursor \in 0..len
          /\ \A k \in cursor..(len - 1) : buf[k] # Nul
      BY <1>1 DEF Ended
    <3> QED
      BY <1>1, <2>3, <3>1, TextIs
  <2>5. Showing(Line, len, cursor) = At(r, cursor)
    BY <1>1
  <2>6. Showing(Line', len, cursor') = At(w, cursor - 1)
    BY <1>2, <1>3
  <2>7. r \in [Cells -> Glyphs] /\ w \in [Cells -> Glyphs]
    BY <1>1, <1>3
  <2>8. ASSUME NEW i \in Cells
        PROVE  w[i] = IF i - home = len - 1 THEN Space
                      ELSE IF i - home \in (cursor - 1)..((cursor - 1) + Len(rest) - 1)
                           THEN rest[i - home - (cursor - 1) + 1] ELSE r[i]
    <3>0. i - home \in Int /\ (cursor - 1) + Len(rest) - 1 = len - 2 /\ (len - 1) - 1 = len - 2
      BY <1>1, <2>4
    <3>1. CASE i - home \in 0..(cursor - 2)
      <4>1. /\ i - home \in Index /\ i - home # len - 1
            /\ i - home \in 0..(len - 1) /\ i - home \in 0..(len' - 1)
            /\ i - home \notin (cursor - 1)..(len - 2)
        BY <1>1, <1>2, <3>0, <3>1 DEF Index
      <4>2. buf'[i - home] = buf[i - home]
        BY <2>1, <2>2, <3>0, <4>1
      <4> QED
        BY <3>0, <4>1, <4>2 DEF RowOf
    <3>2. CASE i - home \in (cursor - 1)..(len - 2)
      <4>1. i - home \in Index /\ i - home # len - 1 /\ i - home \in 0..(len' - 1)
            /\ i - home - (cursor - 1) + 1 \in 1..(len - cursor)
            /\ cursor + (i - home - (cursor - 1) + 1) - 1 = i - home + 1
        BY <1>1, <1>2, <3>0, <3>2 DEF Index
      <4>2. buf'[i - home] = buf[i - home + 1]
        BY <2>1, <2>2, <3>0, <3>2, <4>1
      <4>3. rest[i - home - (cursor - 1) + 1] = buf[i - home + 1]
        BY <2>4, <4>1
      <4>4. w[i] = buf'[i - home]
        BY <4>1 DEF RowOf
      <4> QED
        BY <3>0, <3>2, <4>1, <4>2, <4>3, <4>4
    <3>3. CASE i - home = len - 1
      <4>1. i - home \notin 0..(len' - 1) /\ i - home \in 0..(len - 1)
        BY <1>1, <1>2, <3>3
      <4> QED
        BY <3>3, <4>1 DEF RowOf
    <3>4. CASE i - home \notin 0..(len - 1)
      <4>1. /\ i - home \notin 0..(len' - 1) /\ i - home # len - 1
            /\ i - home \notin (cursor - 1)..(len - 2)
        BY <1>1, <1>2, <3>0, <3>4
      <4> QED
        BY <3>0, <3>4, <4>1 DEF RowOf
    <3> QED
      BY <1>1, <1>2, <3>0, <3>1, <3>2, <3>3, <3>4
  <2> HIDE DEF r, w, rest
  <2>9. (cursor - 1) + Len(rest) = len - 1 /\ home + (cursor - 1) + Len(rest) \in Cells
        /\ (len - 1) + 1 = len /\ len - 1 \in Nat /\ len - cursor \in Nat
        /\ len - cursor \in 0..(len - 1)
        /\ (len - 1) - (len - cursor) = cursor - 1
    <3>1. (cursor - 1) + Len(rest) = len - 1
      BY <1>1, <2>4
    <3>2. home + (cursor - 1) + Len(rest) = home + (len - 1)
      BY <1>1, <2>4
    <3> QED
      BY <1>1, <1>2, <1>4, <3>1, <3>2
  <2>10. ASSUME NEW i \in Cells
         PROVE  (IF i - home \in (cursor - 1)..((cursor - 1) + Len(rest) - 1)
                 THEN rest[i - home - (cursor - 1) + 1] ELSE r[i]) \in Glyphs
    <3>0. i - home \in Int
      BY <1>1
    <3>1. CASE i - home \in (cursor - 1)..((cursor - 1) + Len(rest) - 1)
      <4>1. i - home - (cursor - 1) + 1 \in 1..Len(rest)
        BY <1>1, <2>4, <3>0, <3>1
      <4>2. rest[i - home - (cursor - 1) + 1] \in Chars
        BY <2>4, <4>1, ElementOfSeq
      <4> QED
        BY <3>1, <4>2 DEF Glyphs
    <3>2. CASE i - home \notin (cursor - 1)..((cursor - 1) + Len(rest) - 1)
      BY <2>7, <3>2
    <3> QED
      BY <3>1, <3>2
  <2>11. u \in [Cells -> Glyphs] /\ \A i \in Cells : w[i] = IF i - home = len - 1 THEN Space ELSE u[i]
    BY <2>8, <2>10 DEF Under
  <2> HIDE DEF u
  <2>12. Put(At(u, len - 1), Space) = At(w, (len - 1) + 1)
    BY <1>1, <1>4, <2>7, <2>11, PutShown
  <2>13. Printed(At(r, cursor), first) = At(r, cursor - 1)
    BY <1>1, <1>2, <1>4, PrintOne, PutBack
  <2>14. Printed(At(r, cursor - 1), rest) = At(u, len - 1)
    <3>1. Printed(At(r, cursor - 1), rest)
            = At(Under(r, cursor - 1, rest, Len(rest)), (cursor - 1) + Len(rest))
      BY <1>1, <1>4, <2>4, <2>7, <2>9, PrintChars
    <3> QED
      BY <2>9, <3>1 DEF u
  <2>15. Printed(At(u, len - 1), blank) = At(w, len - 1)
    <3> DEFINE one == <<Space>>
               two == <<Bs>>
    <3>1. one \in Texts /\ two \in Texts /\ blank = one \o two
      BY <1>4 DEF Texts
    <3>2. Printed(At(u, len - 1), one) = At(w, len)
      BY <2>9, <2>12, PrintOne
    <3>3. Printed(At(w, len), two) = At(w, len - 1)
      BY <1>1, <1>2, <1>4, PrintOne, PutBack
    <3> DEFINE x == At(u, len - 1)
               y == At(w, len)
               z == At(w, len - 1)
    <3>4. Printed(x, one) = y
      BY <3>2
    <3>5. Printed(y, two) = z
      BY <3>3
    <3> HIDE DEF blank, one, two, x, y, z
    <3>6. one \in Texts
      BY <3>1
    <3>7. two \in Texts
      BY <3>1
    <3>8. Printed(x, Then(one, two)) = Printed(Printed(x, one), two)
      BY <3>6, <3>7, PrintThen
    <3>9. Printed(x, Then(one, two)) = z
      BY <3>4, <3>5, <3>8
    <3> QED
      BY <3>1, <3>9 DEF x, z, Then
  <2>16. Printed(At(w, len - 1), backs) = At(w, cursor - 1)
    BY <1>1, <2>9, PrintBacks
  <2>17. first \in Texts
    BY DEF Texts
  <2>18. rest \in Texts
    BY <2>4 DEF Texts
  <2>19. blank \in Texts
    BY <1>4 DEF Texts
  <2>20. backs \in Texts
    BY <2>9 DEF Times, Texts
  <2> HIDE DEF first, blank, backs
  <2>21. Printed(At(r, cursor), first \o rest \o blank \o backs)
           = At(w, cursor - 1)
    <3> DEFINE s == At(r, cursor)
               t == At(r, cursor - 1)
               v == At(u, len - 1)
               y == At(w, len - 1)
               z == At(w, cursor - 1)
    <3>1. Printed(s, first) = t
      BY <2>13
    <3>2. Printed(t, rest) = v
      BY <2>14
    <3>3. Printed(v, blank) = y
      BY <2>15
    <3>4. Printed(y, backs) = z
      BY <2>16
    <3> HIDE DEF s, t, v, y, z
    <3>5. Printed(s, first \o rest \o blank \o backs)
            = Printed(Printed(Printed(Printed(s, first), rest), blank), backs)
      BY <2>17, <2>18, <2>19, <2>20, PrintFour
    <3>6. Printed(s, first \o rest \o blank \o backs) = z
      BY <3>1, <3>2, <3>3, <3>4, <3>5
    <3> QED
      BY <3>6 DEF s, z
  <2> QED
    BY <2>1, <2>5, <2>6, <2>21 DEF first
<1> QED
  BY <1>6, <1>7

(* What a key prints leaves the console with the line as it is then, and   *)
(* its cursor in place, if the line ended where it should and stays on the *)
(* screen.                                                                 *)
THEOREM KeysKeepTheScreen == Spec => KeysKeepScreen
<1> DEFINE Kept == shown /\ EndOfText(buf) = len /\ Fits /\ Fits' => shown'
<1>1. LineInv /\ LineInv' /\ Next => Kept
  <2> SUFFICES ASSUME LineInv, LineInv', Next, shown, EndOfText(buf) = len, Fits, Fits'
               PROVE  shown'
    OBVIOUS
  <2>1. CASE \E ch \in Chars : Type(ch)
    BY <2>1, TypeShows
  <2>2. CASE Backspace
    BY <2>2, BackspaceShows
  <2>3. CASE Left
    BY <2>3, LeftShows
  <2>4. CASE Right
    BY <2>4, RightShows
  <2>5. CASE Enter
    BY <2>5 DEF Enter
  <2> QED
    BY <2>1, <2>2, <2>3, <2>4, <2>5 DEF Next
<1>2. LineInv /\ LineInv' /\ [Next]_vars => [Kept]_vars
  BY <1>1
<1>3. KeysKeepScreen <=> [][Kept]_vars
  BY DEF KeysKeepScreen
<1> HIDE DEF Kept
<1> QED
  BY <1>2, <1>3, LineInvariant, PTL DEF Spec

----------------------------------------------------------------------------
(* The arguments of a command, parsed by loomGetOpts.                      *)
Letters == STRING \cup {"?", ":"}
Arg == [flag : Letters, optarg : Seq(STRING)]
Readings == [options : Seq(Arg), files : Seq(Words), separate : BOOLEAN, late : BOOLEAN]

Beyond(words, i) == IF TakesNext(words, i) THEN i + 2 ELSE i + 1

ReadsFrom(h, words, i) ==
  h = [j \in i..(Len(words) + 1) |->
         IF j > Len(words) THEN OnlyFiles(<<>>) ELSE Meant(words, j, h[Beyond(words, j)])]

(* What is behind a word ends with the last word or right behind it.       *)
LEMMA BehindIs ==
  ASSUME NEW words, Len(words) \in Nat, NEW i \in 1..Len(words)
  PROVE  Beyond(words, i) \in (i + 1)..(Len(words) + 1)
BY DEF Beyond, TakesNext

(* The function that reads a list of words exists.                         *)
LEMMA ReadingExists ==
  ASSUME NEW words, NEW n \in Nat, n = Len(words), n >= 1
  PROVE  \E h : ReadsFrom(h, words, 2)
<1> DEFINE T == {k \in 0..(n - 1) : ~ \E h : ReadsFrom(h, words, n + 1 - k)}
<1>1. T = {}
  <2> SUFFICES ASSUME T # {} PROVE FALSE
    OBVIOUS
  <2>1. PICK m \in T : \A k \in T : m <= k
    <3>1. T \in SUBSET Nat
      OBVIOUS
    <3> HIDE DEF T
    <3> QED
      BY <3>1, LeastElement
  <2>2. m \in 0..(n - 1) /\ ~ \E h : ReadsFrom(h, words, n + 1 - m)
    BY <2>1
  <2>3. m # 0
    <3> DEFINE h == [j \in (n + 1)..(n + 1) |-> OnlyFiles(<<>>)]
    <3>1. h = [j \in (n + 1)..(n + 1) |->
                 IF j > n THEN OnlyFiles(<<>>) ELSE Meant(words, j, h[Beyond(words, j)])]
      OBVIOUS
    <3> HIDE DEF h
    <3>2. ReadsFrom(h, words, n + 1)
      BY <3>1 DEF ReadsFrom
    <3>3. m = 0 => n + 1 - m = n + 1
      OBVIOUS
    <3> QED
      BY <2>2, <3>2, <3>3
  <2>4. m - 1 \in 0..(n - 1) /\ ~ (m <= m - 1) /\ n + 1 - (m - 1) = (n + 1 - m) + 1
    BY <2>2, <2>3
  <2>5. m - 1 \notin T
    <3> HIDE DEF T
    <3> QED
      BY <2>1, <2>4
  <2> DEFINE i == n + 1 - m
  <2>6. PICK g : ReadsFrom(g, words, i + 1)
    BY <2>4, <2>5
  <2>7. i \in 2..n /\ i \in 1..n
    BY <2>2, <2>3
  <2> HIDE DEF i
  <2>8. g = [j \in (i + 1)..(n + 1) |->
               IF j > n THEN OnlyFiles(<<>>) ELSE Meant(words, j, g[Beyond(words, j)])]
    BY <2>6 DEF ReadsFrom
  <2> DEFINE h == [j \in i..(n + 1) |-> IF j = i THEN Meant(words, i, g[Beyond(words, i)]) ELSE g[j]]
  <2>9. \A j \in i..n : Beyond(words, j) \in (j + 1)..(n + 1)
    BY <2>7, BehindIs
  <2>10. \A j \in i..n : h[Beyond(words, j)] = g[Beyond(words, j)]
    <3> TAKE j \in i..n
    <3>1. Beyond(words, j) \in i..(n + 1) /\ Beyond(words, j) # i
      BY <2>7, <2>9
    <3> QED
      BY <3>1
  <2>11. \A j \in i..(n + 1) :
           h[j] = IF j > n THEN OnlyFiles(<<>>) ELSE Meant(words, j, h[Beyond(words, j)])
    <3> TAKE j \in i..(n + 1)
    <3>1. CASE j = i
      <4>1. h[j] = Meant(words, i, g[Beyond(words, i)])
        BY <3>1
      <4>2. j \in i..n /\ ~ (j > n)
        BY <3>1, <2>7
      <4>3. h[Beyond(words, j)] = g[Beyond(words, j)]
        BY <4>2, <2>10
      <4> QED
        BY <3>1, <4>1, <4>2, <4>3
    <3>2. CASE j # i
      <4>1. h[j] = g[j] /\ j \in (i + 1)..(n + 1)
        BY <3>2, <2>7
      <4>2. g[j] = IF j > n THEN OnlyFiles(<<>>) ELSE Meant(words, j, g[Beyond(words, j)])
        BY <4>1, <2>8
      <4>3. ~ (j > n) => j \in i..n
        BY <2>7
      <4> HIDE DEF h
      <4> QED
        BY <4>1, <4>2, <4>3, <2>10
    <3> QED
      BY <3>1, <3>2
  <2>12. h = [j \in i..(n + 1) |-> h[j]]
    OBVIOUS
  <2> HIDE DEF h
  <2>13. ReadsFrom(h, words, i)
    BY <2>11, <2>12 DEF ReadsFrom
  <2> QED
    BY <2>2, <2>13 DEF i
<1>2. n - 1 \notin T
  <2> HIDE DEF T
  <2> QED
    BY <1>1
<1>3. n - 1 \in 0..(n - 1) /\ n + 1 - (n - 1) = 2
  OBVIOUS
<1>4. \E h : ReadsFrom(h, words, n + 1 - (n - 1))
  BY <1>2, <1>3
<1> QED
  BY <1>3, <1>4

LEMMA ReadingIs ==
  ASSUME NEW words, NEW n \in Nat, n = Len(words), n >= 1
  PROVE  \A i \in 2..(n + 1) :
           Reading(words)[i] = IF i > n THEN OnlyFiles(<<>>)
                               ELSE Meant(words, i, Reading(words)[Beyond(words, i)])
<1> DEFINE from[i \in 2..(Len(words) + 1)] ==
             IF i > Len(words) THEN OnlyFiles(<<>>)
             ELSE Meant(words, i, from[IF TakesNext(words, i) THEN i + 2 ELSE i + 1])
<1>1. Reading(words) = from
  BY DEF Reading
<1>2. PICK h : ReadsFrom(h, words, 2)
  BY ReadingExists
<1>3. h = [i \in 2..(Len(words) + 1) |->
             IF i > Len(words) THEN OnlyFiles(<<>>)
             ELSE Meant(words, i, h[IF TakesNext(words, i) THEN i + 2 ELSE i + 1])]
  BY <1>2 DEF ReadsFrom, Beyond
<1>4. from = [i \in 2..(Len(words) + 1) |->
                IF i > Len(words) THEN OnlyFiles(<<>>)
                ELSE Meant(words, i, from[IF TakesNext(words, i) THEN i + 2 ELSE i + 1])]
  BY <1>3
<1> HIDE DEF from
<1>5. \A i \in 2..(Len(words) + 1) :
        from[i] = IF i > Len(words) THEN OnlyFiles(<<>>) ELSE Meant(words, i, from[Beyond(words, i)])
  BY <1>4 DEF Beyond
<1> QED
  BY <1>1, <1>5

(* A word of the arguments, and what it is.                                *)
LEMMA WordIs ==
  ASSUME NEW w \in Words
  PROVE  /\ w \in Seq(STRING) /\ Len(w) \in Nat \ {0}
         /\ \A k \in 1..Len(w) : w[k] \in STRING
         /\ Ends(w) => IsOption(w) /\ Len(w) = 2
<1>1. w \in Seq(STRING) /\ w # <<>>
  BY GetOptsAssumption
<1>2. Len(w) \in Nat /\ (\A k \in 1..Len(w) : w[k] \in STRING)
  BY <1>1, LenProperties, ElementOfSeq
<1>3. Len(w) # 0
  BY <1>1, EmptySeq
<1>4. Ends(w) => IsOption(w) /\ Len(w) = 2
  BY DEF Ends, IsOption
<1> QED
  BY <1>1, <1>2, <1>3, <1>4

(* The flags of an option before the first one that takes an argument.     *)
LEMMA AloneIs ==
  ASSUME NEW w \in Words, IsOption(w)
  PROVE  /\ Alone(w) \in Nat /\ Alone(w) < Len(w)
         /\ \A k \in 1..Alone(w) : k + 1 \in 1..Len(w) /\ w[k + 1] \notin ArgFlags
         /\ Takes(w) = {} => Alone(w) = Len(w) - 1
         /\ Takes(w) # {} => /\ Min(Takes(w)) = Alone(w) + 2
                             /\ Alone(w) + 2 \in 2..Len(w) /\ w[Alone(w) + 2] \in ArgFlags
<1>1. Len(w) \in Nat /\ Len(w) > 1
  BY WordIs DEF IsOption
<1>2. Takes(w) \in SUBSET Nat
  BY <1>1 DEF Takes
<1>3. CASE Takes(w) = {}
  <2>1. Alone(w) = Len(w) - 1
    BY <1>1, <1>3 DEF Alone
  <2>2. \A k \in 2..Len(w) : w[k] \notin ArgFlags
    BY <1>3 DEF Takes
  <2>3. \A k \in 1..Alone(w) : k + 1 \in 2..Len(w) /\ k + 1 \in 1..Len(w)
    BY <2>1, <1>1
  <2> QED
    BY <1>1, <1>3, <2>1, <2>2, <2>3
<1>4. CASE Takes(w) # {}
  <2> DEFINE m == Min(Takes(w))
  <2>1. m \in Takes(w) /\ \A k \in Takes(w) : m <= k
    BY <1>2, <1>4, LeastIs
  <2>2. m \in 2..Len(w) /\ w[m] \in ArgFlags
    BY <2>1 DEF Takes
  <2>3. Alone(w) = m - 2
    BY <1>4 DEF Alone
  <2> HIDE DEF m
  <2>4. ASSUME NEW k \in 1..Alone(w)  PROVE k + 1 \in 1..Len(w) /\ w[k + 1] \notin ArgFlags
    <3>1. k + 1 \in 2..Len(w) /\ ~ (m <= k + 1)
      BY <2>2, <2>3, <1>1
    <3>2. k + 1 \notin Takes(w)
      BY <3>1, <2>1
    <3> QED
      BY <3>1, <3>2 DEF Takes
  <2>5. Alone(w) + 2 = m /\ Alone(w) \in Nat /\ Alone(w) < Len(w)
    BY <2>2, <2>3, <1>1
  <2> QED
    BY <2>2, <2>4, <2>5, <1>4 DEF m
<1> QED
  BY <1>3, <1>4

FlagAlone(w, k) == [flag |-> IF w[k + 1] \in Flags THEN w[k + 1] ELSE "?", optarg |-> None]
Taken(w, next) ==
  LET m == Alone(w) + 2
  IN IF m < Len(w) THEN [flag |-> w[m], optarg |-> SubSeq(w, m + 1, Len(w))]
     ELSE [flag |-> IF next = <<>> THEN ":" ELSE w[m], optarg |-> next]

LEMMA FlagAloneType ==
  ASSUME NEW w \in Words, NEW k, k + 1 \in 1..Len(w)
  PROVE  FlagAlone(w, k) \in Arg
<1>1. w[k + 1] \in STRING
  BY WordIs
<1> DEFINE f == IF w[k + 1] \in Flags THEN w[k + 1] ELSE "?"
<1>2. None \in Seq(STRING)
  BY EmptySeq DEF None
<1>3. f \in Letters
  BY <1>1 DEF Letters
<1>4. FlagAlone(w, k) = [flag |-> f, optarg |-> None]
  BY DEF FlagAlone
<1> HIDE DEF f
<1> QED
  BY <1>2, <1>3, <1>4 DEF Arg

LEMMA TakenType ==
  ASSUME NEW w \in Words, IsOption(w), Takes(w) # {}, NEW next \in Seq(STRING)
  PROVE  Taken(w, next) \in Arg
<1> DEFINE m == Alone(w) + 2
<1>1. m \in 2..Len(w) /\ Len(w) \in Nat /\ w[m] \in STRING
  BY AloneIs, WordIs
<1>2. SubSeq(w, m + 1, Len(w)) \in Seq(STRING)
  <2>1. \A k \in (m + 1)..Len(w) : w[k] \in STRING
    BY <1>1, WordIs
  <2> HIDE DEF m
  <2> QED
    BY <2>1, <1>1, SubSeqProperties
<1> DEFINE f == IF next = <<>> THEN ":" ELSE w[m]
           o == SubSeq(w, m + 1, Len(w))
<1>3. f \in Letters
  BY <1>1 DEF Letters
<1>4. Taken(w, next) = IF m < Len(w) THEN [flag |-> w[m], optarg |-> o]
                       ELSE [flag |-> f, optarg |-> next]
  BY DEF Taken
<1>5. w[m] \in Letters /\ o \in Seq(STRING)
  BY <1>1, <1>2 DEF Letters
<1> HIDE DEF f, o, m
<1> QED
  BY <1>3, <1>4, <1>5 DEF Arg

(* The options of a word are its flags, and the one that takes.            *)
LEMMA OptionsAre ==
  ASSUME NEW w \in Words, IsOption(w), NEW next \in Seq(STRING), NEW os, os = Options(w, next)
  PROVE  /\ os \in Seq(Arg)
         /\ Len(os) = IF Takes(w) = {} THEN Alone(w) ELSE Alone(w) + 1
         /\ \A k \in 1..Alone(w) : os[k] = FlagAlone(w, k)
         /\ Takes(w) # {} => os[Alone(w) + 1] = Taken(w, next)
<1> DEFINE a == Alone(w)
           fs == [k \in 1..a |-> FlagAlone(w, k)]
           t == IF Takes(w) = {} THEN <<>> ELSE <<Taken(w, next)>>
<1>1. os = fs \o t
  <2>1. fs = [k \in 1..Alone(w) |-> [flag |-> IF w[k + 1] \in Flags THEN w[k + 1] ELSE "?",
                                     optarg |-> None]]
    BY DEF FlagAlone
  <2>2. CASE Takes(w) = {}
    BY <2>1, <2>2 DEF Options
  <2>3. CASE Takes(w) # {}
    <3>1. Min(Takes(w)) = a + 2 /\ a + 2 \in 2..Len(w) /\ Len(w) \in Nat
      BY <2>3, AloneIs, WordIs
    <3>2. Last(w) = w[Len(w)]
      BY DEF Last
    <3> DEFINE m == a + 2
    <3>0. /\ m = Min(Takes(w))
          /\ Options(w, next) =
               fs \o CASE Takes(w) = {} -> <<>>
                       [] Takes(w) # {} /\ Min(Takes(w)) < Len(w) ->
                            <<[flag |-> w[Min(Takes(w))],
                               optarg |-> SubSeq(w, Min(Takes(w)) + 1, Len(w))]>>
                       [] Takes(w) # {} /\ Min(Takes(w)) = Len(w) ->
                            <<[flag |-> IF next = <<>> THEN ":" ELSE Last(w), optarg |-> next]>>
      BY <2>1, <3>1 DEF Options
    <3> HIDE DEF fs
    <3>3. CASE a + 2 < Len(w)
      <4>1. Taken(w, next) = [flag |-> w[m], optarg |-> SubSeq(w, m + 1, Len(w))]
        BY <3>3 DEF Taken
      <4>2. m < Len(w) /\ m # Len(w)
        BY <3>3, <3>1
      <4> HIDE DEF m
      <4>3. Options(w, next) = fs \o <<[flag |-> w[m], optarg |-> SubSeq(w, m + 1, Len(w))]>>
        BY <2>3, <3>0, <4>2
      <4> QED
        BY <2>3, <4>1, <4>3
    <3>4. CASE a + 2 = Len(w)
      <4>1. Taken(w, next) = [flag |-> IF next = <<>> THEN ":" ELSE w[m], optarg |-> next]
        BY <3>1, <3>4 DEF Taken
      <4>2. ~ (m < Len(w)) /\ m = Len(w)
        BY <3>4, <3>1
      <4> HIDE DEF m
      <4>3. Options(w, next) =
              fs \o <<[flag |-> IF next = <<>> THEN ":" ELSE Last(w), optarg |-> next]>>
        BY <2>3, <3>0, <4>2
      <4>4. Last(w) = w[m]
        BY <3>2, <4>2
      <4> QED
        BY <2>3, <4>1, <4>3, <4>4
    <3> QED
      BY <3>1, <3>3, <3>4
  <2> QED
    BY <2>2, <2>3
<1>2. a \in Nat /\ \A k \in 1..a : FlagAlone(w, k) \in Arg
  BY AloneIs, FlagAloneType
<1> HIDE DEF a
<1>3. fs \in Seq(Arg) /\ Len(fs) = a /\ \A k \in 1..a : fs[k] = FlagAlone(w, k)
  <2>1. fs \in [1..a -> Arg]
    BY <1>2
  <2>2. \A k \in 1..a : fs[k] = FlagAlone(w, k)
    OBVIOUS
  <2>3. DOMAIN fs = 1..a
    OBVIOUS
  <2> HIDE DEF fs
  <2>4. fs \in Seq(Arg)
    BY <2>1, <1>2 DEF Seq
  <2>5. Len(fs) = a
    BY <2>4, <2>3, <1>2, LenProperties
  <2> QED
    BY <2>2, <2>4, <2>5
<1> HIDE DEF fs
<1>4. CASE Takes(w) = {}
  <2>1. t = <<>>
    BY <1>4
  <2>2. os = fs
    BY <1>1, <1>3, <2>1, ConcatEmptySeq
  <2> QED
    BY <1>3, <1>4, <2>2 DEF a
<1>5. CASE Takes(w) # {}
  <2> DEFINE x == Taken(w, next)
  <2>1. t = <<x>> /\ x \in Arg
    BY <1>5, TakenType
  <2> HIDE DEF x
  <2>2. t \in Seq(Arg) /\ Len(t) = 1 /\ t[1] = x
    BY <2>1
  <2> HIDE DEF t
  <2>3. /\ os \in Seq(Arg) /\ Len(os) = a + 1
        /\ \A k \in 1..(a + 1) : os[k] = IF k <= a THEN fs[k] ELSE t[k - a]
    <3>1. /\ fs \o t \in Seq(Arg) /\ Len(fs \o t) = Len(fs) + Len(t)
          /\ \A k \in 1..(Len(fs) + Len(t)) :
               (fs \o t)[k] = IF k <= Len(fs) THEN fs[k] ELSE t[k - Len(fs)]
      BY <1>3, <2>2, ConcatProperties
    <3> QED
      BY <1>1, <1>2, <1>3, <2>2, <3>1
  <2>4. os[a + 1] = x
    BY <2>3, <2>2, <1>2
  <2>5. \A k \in 1..a : os[k] = fs[k]
    BY <2>3, <1>2
  <2> QED
    BY <2>3, <2>4, <2>5, <1>3, <1>5 DEF a, x
<1> QED
  BY <1>4, <1>5

NextWord(words, i) == IF i < Len(words) THEN words[i + 1] ELSE <<>>

Sound(m) == m \in Readings /\ (m.late => m.separate)

(* One turn of the reading, by the kind of the word.                       *)
LEMMA NothingLeft ==
  ASSUME NEW fs \in Seq(Words)
  PROVE  /\ Sound(OnlyFiles(fs)) /\ OnlyFiles(fs).options = <<>> /\ OnlyFiles(fs).files = fs
         /\ ~ OnlyFiles(fs).separate /\ ~ OnlyFiles(fs).late
<1>1. <<>> \in Seq(Arg)
  BY EmptySeq
<1> QED
  BY <1>1 DEF Sound, Readings, OnlyFiles

AfterFile(r, w, m) ==
  /\ r.options = m.options /\ r.files = <<w>> \o m.files
  /\ r.separate = m.separate /\ r.late = m.separate
AfterOptions(r, os, takes, m) ==
  /\ r.options = os \o m.options /\ r.files = m.files
  /\ r.separate = (m.separate \/ takes) /\ r.late = m.late
AfterEnd(r, fs) == r.options = <<>> /\ r.files = fs /\ ~ r.separate /\ ~ r.late

LEMMA FileTurn ==
  ASSUME NEW words \in Seq(Words), NEW i \in 1..Len(words), NEW m, Sound(m),
         ~ IsOption(words[i]), NEW r, r = Meant(words, i, m)
  PROVE  Sound(r) /\ AfterFile(r, words[i], m)
<1> DEFINE w == words[i]
<1>1. w \in Words
  BY ElementOfSeq
<1>2. ~ Ends(w)
  BY <1>1, WordIs
<1> HIDE DEF w
<1>3. ~ IsOption(w)
  BY DEF w
<1>4. r = FileThen(w, m)
  BY <1>2, <1>3 DEF Meant, w
<1>5. /\ m.options \in Seq(Arg) /\ m.files \in Seq(Words) /\ m.separate \in BOOLEAN
      /\ m.late \in BOOLEAN /\ m \in Readings
  BY DEF Sound, Readings
<1> DEFINE fs == <<w>> \o m.files
<1>6. fs \in Seq(Words)
  <2>1. <<w>> \in Seq(Words)
    BY <1>1
  <2> QED
    BY <2>1, <1>5, ConcatProperties
<1>7. r = [m EXCEPT !.files = fs, !.late = m.separate]
  BY <1>4 DEF FileThen
<1> HIDE DEF fs
<1>8. /\ r \in Readings /\ r.options = m.options /\ r.files = fs
      /\ r.separate = m.separate /\ r.late = m.separate
  BY <1>5, <1>6, <1>7 DEF Readings
<1> QED
  BY <1>8 DEF Sound, fs, w, AfterFile

LEMMA NextWordIs ==
  ASSUME NEW words \in Seq(Words), NEW i \in 1..Len(words)
  PROVE  NextWord(words, i) \in Seq(STRING)
<1>1. Len(words) \in Nat
  BY LenProperties
<1>2. CASE i < Len(words)
  <2>1. i + 1 \in 1..Len(words)
    BY <1>1, <1>2
  <2>2. words[i + 1] \in Words
    BY <2>1, ElementOfSeq
  <2> QED
    BY <2>2, <1>2, WordIs DEF NextWord
<1>3. CASE ~ (i < Len(words))
  BY <1>3, EmptySeq DEF NextWord
<1> QED
  BY <1>2, <1>3

LEMMA OptionTurn ==
  ASSUME NEW words \in Seq(Words), NEW i \in 1..Len(words), NEW m, Sound(m),
         IsOption(words[i]), ~ Ends(words[i]), NEW r, r = Meant(words, i, m),
         NEW os, os = Options(words[i], NextWord(words, i))
  PROVE  Sound(r) /\ AfterOptions(r, os, TakesNext(words, i), m)
<1> DEFINE w == words[i]  next == NextWord(words, i)
<1>1. w \in Words /\ Len(words) \in Nat
  BY ElementOfSeq, LenProperties
<1>2. next \in Seq(STRING)
  BY NextWordIs
<1> HIDE DEF w, next
<1>3. IsOption(w) /\ ~ Ends(w) /\ os = Options(w, next)
  BY DEF w, next
<1>4. r = OptionsThen(os, TakesNext(words, i), m)
  BY <1>3 DEF Meant, w, next, NextWord
<1>5. /\ m.options \in Seq(Arg) /\ m.files \in Seq(Words) /\ m.separate \in BOOLEAN
      /\ m.late \in BOOLEAN /\ m \in Readings
  BY DEF Sound, Readings
<1>6. os \in Seq(Arg)
  BY <1>1, <1>2, <1>3, OptionsAre
<1> DEFINE ms == os \o m.options  t == m.separate \/ TakesNext(words, i)
<1>7. ms \in Seq(Arg)
  BY <1>5, <1>6, ConcatProperties
<1>8. t \in BOOLEAN
  BY <1>5 DEF TakesNext
<1>9. r = [m EXCEPT !.options = ms, !.separate = t]
  BY <1>4 DEF OptionsThen
<1>10. m.late => t
  BY DEF Sound
<1> HIDE DEF ms, t
<1>11. /\ r \in Readings /\ r.options = ms /\ r.files = m.files
       /\ r.separate = t /\ r.late = m.late
  BY <1>5, <1>7, <1>8, <1>9 DEF Readings
<1> QED
  BY <1>10, <1>11 DEF Sound, ms, t, AfterOptions

LEMMA EndTurn ==
  ASSUME NEW words \in Seq(Words), NEW i \in 1..Len(words), NEW m,
         Ends(words[i]), NEW r, r = Meant(words, i, m)
  PROVE  Sound(r) /\ AfterEnd(r, SubSeq(words, i + 1, Len(words)))
<1> DEFINE w == words[i]  fs == SubSeq(words, i + 1, Len(words))
<1>1. w \in Words /\ Len(words) \in Nat
  BY ElementOfSeq, LenProperties
<1>2. IsOption(w) /\ Ends(w)
  BY <1>1, WordIs
<1>3. fs \in Seq(Words)
  <2>1. \A k \in (i + 1)..Len(words) : words[k] \in Words
    BY <1>1, ElementOfSeq
  <2> QED
    BY <2>1, <1>1, SubSeqProperties
<1> HIDE DEF w
<1>4. r = OnlyFiles(fs)
  BY <1>2 DEF Meant, w
<1> HIDE DEF fs
<1>5. Sound(r) /\ r.options = <<>> /\ r.files = fs /\ ~ r.separate /\ ~ r.late
  BY <1>3, <1>4, NothingLeft
<1> QED
  BY <1>5 DEF fs, AfterEnd

LEMMA TurnIsSound ==
  ASSUME NEW words \in Seq(Words), NEW i \in 1..Len(words), NEW m, Sound(m)
  PROVE  Sound(Meant(words, i, m))
<1>1. CASE Ends(words[i])
  BY <1>1, EndTurn
<1>2. CASE ~ IsOption(words[i])
  BY <1>2, FileTurn
<1>3. CASE IsOption(words[i]) /\ ~ Ends(words[i])
  BY <1>3, OptionTurn
<1> QED
  BY <1>1, <1>2, <1>3

LEMMA ReadingIsSound ==
  ASSUME NEW words \in Seq(Words), NEW n \in Nat, n = Len(words), n >= 1
  PROVE  \A i \in 2..(n + 1) : Sound(Reading(words)[i])
<1> DEFINE h == Reading(words)
           B == {k \in 0..(n - 1) : ~ Sound(h[n + 1 - k])}
<1>1. \A i \in 2..(n + 1) :
        h[i] = IF i > n THEN OnlyFiles(<<>>) ELSE Meant(words, i, h[Beyond(words, i)])
  BY ReadingIs
<1> HIDE DEF h
<1>2. B = {}
  <2> SUFFICES ASSUME B # {} PROVE FALSE
    OBVIOUS
  <2>1. PICK m \in B : \A k \in B : m <= k
    <3>1. B \in SUBSET Nat
      OBVIOUS
    <3> HIDE DEF B
    <3> QED
      BY <3>1, LeastElement
  <2> DEFINE i == n + 1 - m
  <2>2. m \in 0..(n - 1) /\ i \in 2..(n + 1) /\ ~ Sound(h[i])
    BY <2>1
  <2>3. m = 0 <=> i > n
    BY <2>2
  <2> HIDE DEF i
  <2>4. CASE i > n
    <3>1. h[i] = OnlyFiles(<<>>)
      BY <1>1, <2>2, <2>4
    <3>2. <<>> \in Seq(Words)
      BY EmptySeq
    <3> QED
      BY <2>2, <3>1, <3>2, NothingLeft
  <2>5. CASE ~ (i > n)
    <3> DEFINE j == Beyond(words, i)
    <3>1. i \in 1..n /\ h[i] = Meant(words, i, h[j])
      BY <1>1, <2>2, <2>5
    <3>2. j \in (i + 1)..(n + 1)
      BY <3>1, BehindIs
    <3> HIDE DEF j
    <3>3. n + 1 - j \in 0..(n - 1) /\ ~ (m <= n + 1 - j) /\ n + 1 - (n + 1 - j) = j
      BY <2>2, <3>1, <3>2 DEF i
    <3>4. n + 1 - j \notin B
      <4> HIDE DEF B
      <4> QED
        BY <2>1, <3>3
    <3>5. Sound(h[j])
      BY <3>3, <3>4
    <3> QED
      BY <2>2, <3>1, <3>5, TurnIsSound
  <2> QED
    BY <2>4, <2>5
<1>3. ASSUME NEW i \in 2..(n + 1)  PROVE Sound(h[i])
  <2>1. n + 1 - i \in 0..(n - 1) /\ n + 1 - (n + 1 - i) = i
    OBVIOUS
  <2> QED
    BY <1>2, <2>1
<1> QED
  BY <1>3 DEF h

(* b is a with the word at o + 1 moved ahead of the n words before it.     *)
Moved(b, a, N, o, n) ==
  /\ b \in [1..N -> Words]
  /\ b[(o + 1) - n] = a[o + 1]
  /\ \A i \in ((o + 2) - n)..(o + 1) : b[i] = a[i - 1]
  /\ \A i \in 1..N : i < (o + 1) - n \/ i > o + 1 => b[i] = a[i]

(* The move of an option before the positionals.                           *)
LEMMA ShiftIs ==
  ASSUME NEW N \in Nat, NEW a \in [1..N -> Words], NEW o \in 1..(N - 1), NEW n \in 0..(o - 1),
         NEW b, b = ShiftPositionalArgs(a, o, n)
  PROVE  Moved(b, a, N, o, n)
<1>1. b = [i \in 1..N |-> IF i = (o + 1) - n THEN a[o + 1]
                          ELSE IF i \in ((o + 2) - n)..(o + 1) THEN a[i - 1] ELSE a[i]]
  BY DEF ShiftPositionalArgs
<1>2. o + 1 \in 1..N /\ (o + 1) - n \in 1..N
  OBVIOUS
<1>3. \A i \in ((o + 2) - n)..(o + 1) : i \in 1..N /\ i - 1 \in 1..N /\ i # (o + 1) - n
  OBVIOUS
<1>4. b \in [1..N -> Words]
  <2>1. \A i \in 1..N : (IF i = (o + 1) - n THEN a[o + 1]
                         ELSE IF i \in ((o + 2) - n)..(o + 1) THEN a[i - 1] ELSE a[i]) \in Words
    BY <1>2, <1>3
  <2> QED
    BY <1>1, <2>1
<1>5. b[(o + 1) - n] = a[o + 1]
  BY <1>1, <1>2
<1>6. \A i \in ((o + 2) - n)..(o + 1) : b[i] = a[i - 1]
  BY <1>1, <1>3
<1>7. \A i \in 1..N : i < (o + 1) - n \/ i > o + 1 => b[i] = a[i]
  <2> TAKE i \in 1..N
  <2>1. i < (o + 1) - n \/ i > o + 1 =>
          i # (o + 1) - n /\ ~ (i \in ((o + 2) - n)..(o + 1))
    OBVIOUS
  <2> QED
    BY <1>1, <2>1
<1> QED
  BY <1>4, <1>5, <1>6, <1>7 DEF Moved

Places(a, N, w) == {i \in 1..N : a[i] = w}

(* It keeps the number of every argument.                                  *)
LEMMA ShiftKeeps ==
  ASSUME NEW N \in Nat, NEW a \in [1..N -> Words], NEW o \in 1..(N - 1), NEW n \in 0..(o - 1),
         NEW b, b = ShiftPositionalArgs(a, o, n), NEW w
  PROVE  Cardinality(Places(b, N, w)) = Cardinality(Places(a, N, w))
<1> DEFINE S == Places(a, N, w)  T == Places(b, N, w)
           to == (o + 1) - n
           f == [i \in S |-> IF i = o + 1 THEN to ELSE IF i \in to..o THEN i + 1 ELSE i]
<1>1. /\ b[to] = a[o + 1]
      /\ \A i \in (to + 1)..(o + 1) : b[i] = a[i - 1]
      /\ \A i \in 1..N : i < to \/ i > o + 1 => b[i] = a[i]
  <2>1. (o + 2) - n = to + 1
    OBVIOUS
  <2>2. /\ b[(o + 1) - n] = a[o + 1]
        /\ \A i \in ((o + 2) - n)..(o + 1) : b[i] = a[i - 1]
        /\ \A i \in 1..N : i < (o + 1) - n \/ i > o + 1 => b[i] = a[i]
    <3> HIDE DEF S, T, f, to
    <3>1. Moved(b, a, N, o, n)
      BY ShiftIs
    <3> QED
      BY <3>1 DEF Moved
  <2>3. to = (o + 1) - n
    OBVIOUS
  <2> HIDE DEF to
  <2> QED
    BY <2>1, <2>2, <2>3
<1>2. to \in 1..(o + 1) /\ o + 1 \in 1..N /\ to \in Int
  OBVIOUS
<1> HIDE DEF to
<1>3. ASSUME NEW i \in S  PROVE i \in 1..N /\ a[i] = w
  BY DEF Places
<1>4. ASSUME NEW i \in S  PROVE f[i] \in T
  <2>1. CASE i = o + 1
    <3>1. f[i] = to
      BY <2>1
    <3> QED
      BY <3>1, <1>1, <1>2, <1>3, <2>1 DEF Places
  <2>2. CASE i # o + 1 /\ i \in to..o
    <3>1. f[i] = i + 1
      BY <2>2
    <3>2. i + 1 \in (to + 1)..(o + 1) /\ i + 1 \in 1..N /\ (i + 1) - 1 = i
      BY <1>2, <2>2
    <3>3. b[i + 1] = a[i]
      BY <1>1, <3>2
    <3> QED
      BY <3>1, <3>2, <3>3, <1>3 DEF Places
  <2>3. CASE i # o + 1 /\ ~ (i \in to..o)
    <3>1. f[i] = i
      BY <2>3
    <3>2. i < to \/ i > o + 1
      BY <1>2, <1>3, <2>3
    <3> QED
      BY <3>1, <3>2, <1>1, <1>3 DEF Places
  <2> QED
    BY <2>1, <2>2, <2>3
<1>5. ASSUME NEW i \in S, NEW j \in S, f[i] = f[j]  PROVE i = j
  BY <1>2, <1>3, <1>5
<1>6. ASSUME NEW t \in T  PROVE \E i \in S : f[i] = t
  <2>1. t \in 1..N /\ b[t] = w
    BY DEF Places
  <2>2. CASE t = to
    <3>1. o + 1 \in S
      BY <1>1, <1>2, <2>1, <2>2 DEF Places
    <3> QED
      BY <3>1, <2>2
  <2>3. CASE t \in (to + 1)..(o + 1)
    <3>1. t - 1 \in 1..N /\ t - 1 \in to..o /\ t - 1 # o + 1 /\ (t - 1) + 1 = t
      BY <1>2, <2>3
    <3>2. t - 1 \in S
      BY <1>1, <2>1, <2>3, <3>1 DEF Places
    <3> QED
      BY <3>1, <3>2
  <2>4. CASE t < to \/ t > o + 1
    <3>1. t \in S
      BY <1>1, <2>1, <2>4 DEF Places
    <3>2. t # o + 1 /\ ~ (t \in to..o)
      BY <1>2, <2>1, <2>4
    <3> QED
      BY <3>1, <3>2
  <2> QED
    BY <1>2, <2>1, <2>2, <2>3, <2>4
<1>7. f \in [S -> T]
  <2>1. f = [i \in S |-> f[i]]
    OBVIOUS
  <2> HIDE DEF f
  <2> QED
    BY <1>4, <2>1
<1> HIDE DEF f
<1>8. f \in Bijection(S, T)
  BY <1>5, <1>6, <1>7, Fun_IsBij
<1>9. ExistsBijection(S, T)
  BY <1>8, Fun_ExistsBij
<1>10. IsFiniteSet(S)
  <2>1. IsFiniteSet(1..N) /\ S \subseteq 1..N
    BY FS_Interval DEF Places
  <2> HIDE DEF S
  <2> QED
    BY <2>1, FS_Subset
<1> HIDE DEF S, T
<1>11. Cardinality(T) = Cardinality(S)
  BY <1>9, <1>10, FS_Bijection
<1> QED
  BY <1>11 DEF S, T

(* What is returned and what is still to come are the options meant.       *)
Joined(total, front, rest, skip) ==
  /\ Len(total) = (Len(front) + Len(rest)) - skip
  /\ \A k \in 1..Len(front) : total[k] = front[k]
  /\ \A j \in (skip + 1)..Len(rest) : total[(Len(front) + j) - skip] = rest[j]

LEMMA JoinOne ==
  ASSUME NEW total, NEW front \in Seq(Arg), NEW rest \in Seq(Arg), NEW skip \in 0..(Len(rest) - 1),
         Joined(total, front, rest, skip), NEW x \in Arg, rest[skip + 1] = x
  PROVE  Joined(total, Append(front, x), rest, skip + 1)
<1> DEFINE g == Append(front, x)
<1>1. Len(front) \in Nat /\ Len(rest) \in Nat
  BY LenProperties
<1>2. Len(g) = Len(front) + 1 /\ (\A k \in 1..Len(front) : g[k] = front[k]) /\ g[Len(front) + 1] = x
  BY AppendProperties
<1> HIDE DEF g
<1>3. total[Len(front) + 1] = x
  <2>1. skip + 1 \in (skip + 1)..Len(rest) /\ (Len(front) + (skip + 1)) - skip = Len(front) + 1
    BY <1>1
  <2> QED
    BY <2>1 DEF Joined
<1>4. Len(total) = (Len(g) + Len(rest)) - (skip + 1)
  BY <1>1, <1>2 DEF Joined
<1>5. \A k \in 1..Len(g) : total[k] = g[k]
  BY <1>1, <1>2, <1>3 DEF Joined
<1>6. ASSUME NEW j \in (skip + 2)..Len(rest)  PROVE total[(Len(g) + j) - (skip + 1)] = rest[j]
  <2>1. j \in (skip + 1)..Len(rest) /\ (Len(g) + j) - (skip + 1) = (Len(front) + j) - skip
    BY <1>1, <1>2
  <2> QED
    BY <2>1 DEF Joined
<1>7. (skip + 1) + 1 = skip + 2
  OBVIOUS
<1> QED
  BY <1>4, <1>5, <1>6, <1>7 DEF Joined, g

LEMMA JoinNext ==
  ASSUME NEW total, NEW front \in Seq(Arg), NEW os \in Seq(Arg), NEW m \in Seq(Arg),
         NEW rest, rest = os \o m, Joined(total, front, rest, Len(os))
  PROVE  Joined(total, front, m, 0)
<1>1. Len(front) \in Nat /\ Len(os) \in Nat /\ Len(m) \in Nat
  BY LenProperties
<1>2. /\ Len(rest) = Len(os) + Len(m)
      /\ \A i \in 1..(Len(os) + Len(m)) : rest[i] = IF i <= Len(os) THEN os[i] ELSE m[i - Len(os)]
  BY ConcatProperties
<1>3. Len(total) = (Len(front) + Len(m)) - 0
  BY <1>1, <1>2 DEF Joined
<1>4. ASSUME NEW j \in 1..Len(m)  PROVE total[(Len(front) + j) - 0] = m[j]
  <2> DEFINE i == Len(os) + j
  <2>1. /\ i \in (Len(os) + 1)..Len(rest) /\ i \in 1..(Len(os) + Len(m)) /\ ~ (i <= Len(os))
        /\ i - Len(os) = j /\ (Len(front) + i) - Len(os) = (Len(front) + j) - 0
    BY <1>1, <1>2
  <2> HIDE DEF i
  <2>2. total[(Len(front) + i) - Len(os)] = rest[i]
    BY <2>1 DEF Joined
  <2>3. rest[i] = m[i - Len(os)]
    BY <1>2, <2>1
  <2> QED
    BY <2>1, <2>2, <2>3
<1>5. \A k \in 1..Len(front) : total[k] = front[k]
  BY DEF Joined
<1>6. 0 + 1 = 1
  OBVIOUS
<1> QED
  BY <1>3, <1>4, <1>5, <1>6 DEF Joined

LEMMA JoinAll ==
  ASSUME NEW total \in Seq(Arg), NEW front \in Seq(Arg), Joined(total, front, <<>>, 0)
  PROVE  front = total
<1>1. /\ Len(front) \in Nat /\ Len(total) \in Nat /\ Len(<<>>) = 0
      /\ front \in [1..Len(front) -> Arg] /\ total \in [1..Len(total) -> Arg]
  BY LenProperties, EmptySeq
<1>2. Len(total) = Len(front) /\ \A k \in 1..Len(front) : total[k] = front[k]
  BY <1>1 DEF Joined
<1> QED
  BY <1>1, <1>2

LEMMA JoinNone ==
  ASSUME NEW total \in Seq(Arg)
  PROVE  Joined(total, <<>>, total, 0)
<1>1. Len(total) \in Nat /\ Len(<<>>) = 0
  BY LenProperties, EmptySeq
<1> QED
  BY <1>1 DEF Joined

(* The n arguments up to the place at are the first of the files.          *)
Passed(files, a, at, n, rest) ==
  /\ Len(files) = n + Len(rest)
  /\ \A k \in 1..n : files[k] = a[(at - n) + k]
  /\ \A j \in 1..Len(rest) : files[n + j] = rest[j]

LEMMA PassFile ==
  ASSUME NEW files, NEW a, NEW o \in Nat, NEW n \in Nat, NEW m \in Seq(Words), NEW w \in Words,
         w = a[o + 1], NEW rest, rest = <<w>> \o m, Passed(files, a, o, n, rest)
  PROVE  Passed(files, a, o + 1, n + 1, m)
<1>1. Len(m) \in Nat /\ <<w>> \in Seq(Words) /\ Len(<<w>>) = 1
  BY LenProperties
<1>2. /\ Len(rest) = 1 + Len(m)
      /\ \A i \in 1..(1 + Len(m)) : rest[i] = IF i <= 1 THEN <<w>>[i] ELSE m[i - 1]
  BY <1>1, ConcatProperties
<1>3. rest[1] = w
  BY <1>1, <1>2
<1>4. files[n + 1] = w
  <2>1. 1 \in 1..Len(rest)
    BY <1>1, <1>2
  <2> QED
    BY <2>1, <1>3 DEF Passed
<1>5. Len(files) = (n + 1) + Len(m)
  BY <1>1, <1>2 DEF Passed
<1>6. ASSUME NEW k \in 1..(n + 1)  PROVE files[k] = a[((o + 1) - (n + 1)) + k]
  <2>1. ((o + 1) - (n + 1)) + k = (o - n) + k
    OBVIOUS
  <2>2. CASE k \in 1..n
    BY <2>1, <2>2 DEF Passed
  <2>3. CASE k = n + 1
    <3>1. (o - n) + k = o + 1
      BY <2>3
    <3> QED
      BY <2>1, <2>3, <3>1, <1>4
  <2> QED
    BY <2>2, <2>3
<1>7. ASSUME NEW j \in 1..Len(m)  PROVE files[(n + 1) + j] = m[j]
  <2>1. /\ j + 1 \in 1..Len(rest) /\ j + 1 \in 1..(1 + Len(m)) /\ ~ (j + 1 <= 1)
        /\ (j + 1) - 1 = j /\ n + (j + 1) = (n + 1) + j
    BY <1>1, <1>2
  <2>2. files[n + (j + 1)] = rest[j + 1]
    BY <2>1 DEF Passed
  <2>3. rest[j + 1] = m[j]
    BY <2>1, <1>2
  <2> QED
    BY <2>1, <2>2, <2>3
<1> QED
  BY <1>5, <1>6, <1>7 DEF Passed

LEMMA PassShift ==
  ASSUME NEW N \in Nat, NEW a \in [1..N -> Words], NEW o \in 1..(N - 1), NEW n \in 0..(o - 1),
         NEW b, b = ShiftPositionalArgs(a, o, n), NEW files, NEW rest, Passed(files, a, o, n, rest)
  PROVE  Passed(files, b, o + 1, n, rest)
<1>1. \A i \in ((o + 2) - n)..(o + 1) : b[i] = a[i - 1]
  <2>1. Moved(b, a, N, o, n)
    BY ShiftIs
  <2> QED
    BY <2>1 DEF Moved
<1>2. ASSUME NEW k \in 1..n  PROVE files[k] = b[((o + 1) - n) + k]
  <2> DEFINE i == ((o + 1) - n) + k
  <2>1. i \in ((o + 2) - n)..(o + 1) /\ i - 1 = (o - n) + k
    OBVIOUS
  <2> HIDE DEF i
  <2>2. b[i] = a[i - 1]
    BY <1>1, <2>1
  <2>3. files[k] = a[(o - n) + k]
    BY DEF Passed
  <2> QED
    BY <2>1, <2>2, <2>3 DEF i
<1> QED
  BY <1>2 DEF Passed

(* What is left behind the options are the files.                          *)
LastOf(rest, a, o, N) == Len(rest) = N - o /\ \A j \in 1..Len(rest) : rest[j] = a[o + j]

LeftIs(a, m, N, files) == SubSeq(a, m, N) = files

LEMMA PassAll ==
  ASSUME NEW N \in Nat, NEW a \in [1..N -> Words], NEW o \in 1..N, NEW n \in 0..(o - 1),
         NEW rest \in Seq(Words), LastOf(rest, a, o, N),
         NEW files \in Seq(Words), Passed(files, a, o, n, rest),
         NEW m, m = (o - n) + 1
  PROVE  LeftIs(a, m, N, files)
<1> DEFINE s == SubSeq(a, m, N)
<1>1. m \in 1..(N + 1) /\ m \in Int /\ N \in Int
  OBVIOUS
<1>2. \A i \in m..N : a[i] \in Words
  BY <1>1
<1>3. Len(files) = (N - o) + n
  BY DEF Passed, LastOf
<1>4. /\ s \in Seq(Words)
      /\ Len(s) = IF m <= N THEN (N - m) + 1 ELSE 0
      /\ \A i \in 1..((N - m) + 1) : s[i] = a[(m + i) - 1]
  <2>1. /\ SubSeq(a, m, N) \in Seq(Words)
        /\ Len(SubSeq(a, m, N)) = IF m <= N THEN N - m + 1 ELSE 0
        /\ \A i \in 1 .. N - m + 1 : SubSeq(a, m, N)[i] = a[m + i - 1]
    BY <1>1, <1>2, SubSeqProperties
  <2> QED
    BY <1>1, <2>1
<1> HIDE DEF s
<1>5. Len(s) = Len(files)
  BY <1>3, <1>4
<1>6. ASSUME NEW i \in 1..Len(files)  PROVE s[i] = files[i]
  <2>1. i \in 1..((N - m) + 1) /\ (m + i) - 1 = (o - n) + i /\ i \in Nat
    BY <1>3
  <2>2. s[i] = a[(o - n) + i]
    BY <1>4, <2>1
  <2>3. CASE i <= n
    <3>1. files[i] = a[(o - n) + i]
      BY <2>1, <2>3 DEF Passed
    <3> QED
      BY <2>2, <3>1
  <2>4. CASE ~ (i <= n)
    <3> DEFINE j == i - n
    <3>1. j \in 1..Len(rest) /\ n + j = i /\ o + j = (o - n) + i
      BY <2>1, <2>4, <1>3 DEF LastOf
    <3> HIDE DEF j
    <3>2. files[n + j] = rest[j] /\ rest[j] = a[o + j]
      BY <3>1 DEF Passed, LastOf
    <3> QED
      BY <2>2, <3>1, <3>2
  <2> QED
    BY <2>3, <2>4
<1>7. /\ s \in [1..Len(s) -> Words] /\ files \in [1..Len(files) -> Words]
  BY <1>4, LenProperties
<1>8. s = files
  BY <1>5, <1>6, <1>7
<1> QED
  BY <1>8 DEF s, LeftIs
----------------------------------------------------------------------------
From(words, i) == Reading(words)[i]
Here == From(given, optind + 1)
Skip == IF ind = 0 THEN 0 ELSE ind - 1

Shape ==
  /\ argc \in Nat \ {0} /\ given \in Seq(Words) /\ args \in [1..argc -> Words]
  /\ optind \in 1..argc /\ ind \in Nat /\ pos \in 0..(argc - 1)
  /\ done \in BOOLEAN /\ returned \in Seq(Arg)
  /\ ~done => pos < optind /\ \A i \in (optind + 1)..argc : args[i] = given[i]
InOption ==
  ind > 0 => /\ ~done /\ optind < argc
             /\ IsOption(Argv(optind)) /\ ~Ends(Argv(optind))
             /\ ind <= Alone(Argv(optind)) + 1
OptionsSoFar ==
  IF done THEN returned = Meaning(given).options
  ELSE Joined(Meaning(given).options, returned, Here.options, Skip)
FilesSoFar ==
  ~Meaning(given).late =>
    IF done THEN FilesLeft = Meaning(given).files
    ELSE /\ ~Here.late /\ (pos > 0 => ~Here.separate)
         /\ Passed(Meaning(given).files, args, optind, pos, Here.files)
OptInv == Shape /\ InOption /\ OptionsSoFar /\ FilesSoFar

LEMMA OptStart ==
  ASSUME OptInit
  PROVE  OptInv
<1>1. PICK n \in 0..MaxArgs : given \in [1..(n + 1) -> Words]
  BY DEF OptInit
<1>2. n + 1 \in Nat \ {0}
  BY GetOptsAssumption
<1>3. given \in Seq(Words)
  BY <1>1, <1>2 DEF Seq
<1>4. argc = n + 1
  <2>1. DOMAIN given = 1..(n + 1) /\ DOMAIN given = 1..Len(given) /\ Len(given) \in Nat
    BY <1>1, <1>3, LenProperties
  <2> QED
    BY <2>1, <1>2 DEF argc
<1>5. returned = <<>> /\ returned \in Seq(Arg)
  BY EmptySeq DEF OptInit
<1>7. optind = 1 /\ ind = 0 /\ pos = 0 /\ done = FALSE /\ args = given
  BY DEF OptInit
<1>6. Shape
  <2>1. args \in [1..argc -> Words]
    BY <1>1, <1>4, <1>7
  <2>2. optind \in 1..argc /\ ind \in Nat /\ pos \in 0..(argc - 1) /\ pos < optind
    BY <1>2, <1>4, <1>7
  <2>3. \A i \in (optind + 1)..argc : args[i] = given[i]
    BY <1>7
  <2> QED
    BY <1>2, <1>3, <1>4, <1>5, <1>7, <2>1, <2>2, <2>3 DEF Shape
<1>8. Here = Meaning(given)
  BY <1>7 DEF Here, Meaning, From
<1>9. Sound(Meaning(given))
  <2>1. 2 \in 2..(Len(given) + 1) /\ Len(given) >= 1 /\ Len(given) \in Nat
    BY <1>2, <1>4 DEF argc
  <2> QED
    BY <2>1, <1>3, ReadingIsSound DEF Meaning
<1> DEFINE m == Meaning(given)
<1>10. m \in Readings /\ (m.late => m.separate)
  BY <1>9 DEF Sound
<1> HIDE DEF m
<1>11. m.options \in Seq(Arg) /\ m.files \in Seq(Words)
  BY <1>10 DEF Readings
<1>12. Joined(m.options, <<>>, m.options, 0)
  BY <1>11, JoinNone
<1>13. OptionsSoFar
  BY <1>5, <1>7, <1>8, <1>12 DEF OptionsSoFar, Skip, m
<1>14. Passed(m.files, args, 1, 0, m.files)
  <2>1. Len(m.files) \in Nat
    BY <1>11, LenProperties
  <2> QED
    BY <2>1 DEF Passed
<1>15. FilesSoFar
  BY <1>7, <1>8, <1>14 DEF FilesSoFar, m
<1> QED
  BY <1>6, <1>7, <1>13, <1>15 DEF OptInv, InOption

(* The word a call looks at, and what the words behind it mean.            *)
LEMMA Now ==
  ASSUME Shape, ~done, optind < argc,
         NEW i, i = optind + 1, NEW w, w = Argv(optind), NEW m, m = From(given, Beyond(given, i))
  PROVE  /\ given \in Seq(Words) /\ i \in 1..Len(given) /\ argc = Len(given) /\ argc \in Nat
         /\ w = given[i] /\ w = args[i] /\ w \in Words /\ optind \in 1..(argc - 1) /\ pos \in 0..(optind - 1)
         /\ Sound(m) /\ Here = Meant(given, i, m) /\ m.options \in Seq(Arg) /\ m.files \in Seq(Words)
         /\ Meaning(given).options \in Seq(Arg) /\ Meaning(given).files \in Seq(Words)
<1>1. /\ given \in Seq(Words) /\ argc \in Nat \ {0} /\ argc = Len(given) /\ args \in [1..argc -> Words]
      /\ optind \in 1..argc /\ pos \in 0..(argc - 1) /\ pos < optind
      /\ \A j \in (optind + 1)..argc : args[j] = given[j]
  BY DEF Shape, argc
<1>2. i \in 2..argc /\ i \in 1..argc /\ optind \in 1..(argc - 1) /\ pos \in 0..(optind - 1)
  BY <1>1
<1>3. w = args[i] /\ w = given[i] /\ w \in Words
  BY <1>1, <1>2 DEF Argv
<1> DEFINE j == Beyond(given, i)
<1>4. j \in (i + 1)..(argc + 1)
  BY <1>1, <1>2, BehindIs
<1> HIDE DEF j
<1>5. \A k \in 2..(argc + 1) : Sound(Reading(given)[k])
  <2>1. argc \in Nat /\ argc >= 1
    BY <1>1
  <2> QED
    BY <2>1, <1>1, ReadingIsSound
<1>6. Sound(m) /\ Sound(Meaning(given))
  <2>1. j \in 2..(argc + 1) /\ 2 \in 2..(argc + 1)
    BY <1>1, <1>2, <1>4
  <2> QED
    BY <2>1, <1>5 DEF j, Meaning, From
<1>7. Here = Meant(given, i, m)
  <2>1. i \in 2..(argc + 1) /\ ~ (i > argc) /\ argc >= 1 /\ argc \in Nat
    BY <1>1, <1>2
  <2>2. Reading(given)[i] = IF i > argc THEN OnlyFiles(<<>>)
                            ELSE Meant(given, i, Reading(given)[Beyond(given, i)])
    BY <1>1, <2>1, ReadingIs
  <2> QED
    BY <2>1, <2>2 DEF Here, From
<1>8. ASSUME NEW x, Sound(x)  PROVE x.options \in Seq(Arg) /\ x.files \in Seq(Words)
  BY <1>8 DEF Sound, Readings
<1> QED
  BY <1>1, <1>2, <1>3, <1>6, <1>7, <1>8

LEMMA FileNow ==
  ASSUME Shape, ~done, optind < argc, NEW i, i = optind + 1, NEW w, w = Argv(optind),
         NEW m, m = From(given, Beyond(given, i)), ~ IsOption(w)
  PROVE  AfterFile(Here, w, m)
<1>1. /\ given \in Seq(Words) /\ i \in 1..Len(given) /\ w = given[i] /\ Sound(m)
      /\ Here = Meant(given, i, m)
  BY Now
<1>2. ~ IsOption(given[i])
  BY <1>1
<1>3. AfterFile(Here, given[i], m)
  BY <1>1, <1>2, FileTurn
<1> QED
  BY <1>1, <1>3

LEMMA OptionNow ==
  ASSUME Shape, ~done, optind < argc, NEW i, i = optind + 1, NEW w, w = Argv(optind),
         NEW m, m = From(given, Beyond(given, i)), IsOption(w), ~ Ends(w),
         NEW os, os = Options(w, NextWord(given, i))
  PROVE  AfterOptions(Here, os, TakesNext(given, i), m)
<1>1. /\ given \in Seq(Words) /\ i \in 1..Len(given) /\ w = given[i] /\ Sound(m)
      /\ Here = Meant(given, i, m)
  BY Now
<1>2. IsOption(given[i]) /\ ~ Ends(given[i]) /\ os = Options(given[i], NextWord(given, i))
  BY <1>1
<1> QED
  BY <1>1, <1>2, OptionTurn

LEMMA EndNow ==
  ASSUME Shape, ~done, optind < argc, NEW i, i = optind + 1, NEW w, w = Argv(optind), Ends(w)
  PROVE  AfterEnd(Here, SubSeq(given, i + 1, Len(given)))
<1> DEFINE m == From(given, Beyond(given, i))
<1>1. /\ given \in Seq(Words) /\ i \in 1..Len(given) /\ w = given[i] /\ Here = Meant(given, i, m)
  BY Now
<1>2. Ends(given[i])
  BY <1>1
<1> HIDE DEF m
<1> QED
  BY <1>1, <1>2, EndTurn

LEMMA KeptByPositional ==
  ASSUME OptInv, Positional
  PROVE  OptInv'
<1> DEFINE i == optind + 1  w == Argv(optind)  m == From(given, Beyond(given, i))
           M == Meaning(given)
<1>0. Shape /\ ~done /\ optind < argc /\ ind = 0 /\ ~ IsOption(w)
  BY DEF OptInv, Positional, Looking
<1>1. /\ given \in Seq(Words) /\ i \in 1..Len(given) /\ argc = Len(given) /\ argc \in Nat
      /\ w = given[i] /\ w = args[i] /\ w \in Words /\ optind \in 1..(argc - 1) /\ pos \in 0..(optind - 1)
      /\ Sound(m) /\ Here = Meant(given, i, m) /\ m.files \in Seq(Words)
  BY <1>0, Now
<1>2. Beyond(given, i) = i + 1
  BY <1>0, <1>1 DEF Beyond, TakesNext
<1>3. /\ optind' = i /\ pos' = pos + 1 /\ ind' = 0 /\ done' = done /\ given' = given /\ args' = args
      /\ returned' = returned /\ argc' = argc
  BY <1>0 DEF Positional, argc
<1>4. Here' = m
  BY <1>2, <1>3 DEF Here
<1> HIDE DEF w, m, M
<1>5. /\ Here.options = m.options /\ Here.files = <<w>> \o m.files
      /\ Here.separate = m.separate /\ Here.late = m.separate
  BY <1>0, FileNow DEF w, m, AfterFile
<1>6. Shape'
  <2>1. optind + 1 \in 1..argc /\ pos + 1 \in 0..(argc - 1) /\ pos + 1 < optind + 1
    BY <1>1
  <2>2. \A j \in ((optind + 1) + 1)..argc : j \in (optind + 1)..argc
    BY <1>1
  <2> QED
    BY <1>0, <1>3, <2>1, <2>2 DEF Shape, argc
<1>7. InOption'
  BY <1>0, <1>3 DEF InOption
<1>8. OptionsSoFar'
  <2>1. Joined(M.options, returned, m.options, 0)
    BY <1>0, <1>5 DEF OptInv, OptionsSoFar, Skip, M
  <2> QED
    BY <1>0, <1>3, <1>4, <2>1 DEF OptionsSoFar, Skip, M
<1>9. FilesSoFar'
  <2> SUFFICES ASSUME ~ M.late
               PROVE  ~ m.late /\ ~ m.separate /\ Passed(M.files, args, i, pos + 1, m.files)
    BY <1>0, <1>3, <1>4 DEF FilesSoFar, M
  <2>1. ~ Here.late /\ Passed(M.files, args, optind, pos, Here.files)
    BY <1>0 DEF OptInv, FilesSoFar, M
  <2>2. ~ m.separate /\ ~ m.late
    BY <1>1, <1>5, <2>1 DEF Sound
  <2>3. optind \in Nat /\ pos \in Nat
    BY <1>1
  <2>4. Passed(M.files, args, optind + 1, pos + 1, m.files)
    BY <1>1, <1>5, <2>1, <2>3, PassFile
  <2> QED
    BY <2>2, <2>4
<1> QED
  BY <1>6, <1>7, <1>8, <1>9 DEF OptInv

LEMMA KeptByOptionStart ==
  ASSUME OptInv, OptionStart
  PROVE  OptInv'
<1> DEFINE w == Argv(optind)
<1>0. Shape /\ ~done /\ optind < argc /\ ind = 0 /\ IsOption(w) /\ ~ Ends(w)
  BY DEF OptInv, OptionStart, Looking
<1>1. w \in Words
  BY <1>0, Now
<1>2. /\ ind' = 1 /\ done' = done /\ optind' = optind /\ pos' = pos /\ given' = given /\ args' = args
      /\ returned' = returned /\ argc' = argc
  BY DEF OptionStart, argc
<1>3. Here' = Here /\ Argv(optind)' = w /\ Skip' = Skip
  BY <1>0, <1>2 DEF Here, Argv, Skip
<1>4. Shape'
  BY <1>0, <1>2 DEF Shape
<1>5. InOption'
  <2>1. 1 <= Alone(w) + 1
    BY <1>0, <1>1, AloneIs
  <2> QED
    BY <1>0, <1>2, <1>3, <2>1 DEF InOption, Argv
<1>6. OptionsSoFar'
  BY <1>2, <1>3 DEF OptInv, OptionsSoFar
<1>7. FilesSoFar'
  BY <1>0, <1>2, <1>3 DEF OptInv, FilesSoFar
<1> QED
  BY <1>4, <1>5, <1>6, <1>7 DEF OptInv

LEMMA KeptByFlag ==
  ASSUME OptInv, Flag
  PROVE  OptInv'
<1> DEFINE i == optind + 1  w == Argv(optind)  m == From(given, Beyond(given, i))
           M == Meaning(given)  x == w[ind + 1]
           os == Options(given[i], NextWord(given, i))
           next == NextWord(given, i)
           o == [flag |-> IF x \in Flags THEN x ELSE "?", optarg |-> None]
<1>0. /\ Shape /\ ~done /\ optind < argc /\ ind > 0 /\ ind < Len(w) /\ ind \in Nat
      /\ IsOption(w) /\ ~ Ends(w) /\ ind <= Alone(w) + 1 /\ x \notin ArgFlags
  BY DEF OptInv, Flag, Inside, InOption, Shape
<1>1. /\ given \in Seq(Words) /\ i \in 1..Len(given) /\ argc = Len(given) /\ argc \in Nat
      /\ w = given[i] /\ w \in Words
      /\ Sound(m) /\ Here = Meant(given, i, m) /\ m.options \in Seq(Arg)
  BY <1>0, Now
<1>2. /\ ind' = ind + 1 /\ done' = done /\ optind' = optind /\ pos' = pos /\ given' = given
      /\ args' = args /\ argc' = argc
  BY DEF Flag, argc
<1>3. returned' = Append(returned, o)
  BY DEF Flag, Return
<1>4. Here' = Here /\ Argv(optind)' = w /\ Skip = ind - 1 /\ Skip' = (ind - 1) + 1
  BY <1>0, <1>2 DEF Here, Argv, Skip
<1>5. Len(w) \in Nat
  BY <1>1, WordIs
<1>6. ind <= Alone(w) /\ Alone(w) \in Nat
  <2>1. CASE Takes(w) = {}
    BY <1>0, <1>1, <1>5, <2>1, AloneIs
  <2>2. CASE Takes(w) # {}
    <3>1. Alone(w) \in Nat /\ w[Alone(w) + 2] \in ArgFlags
      BY <1>0, <1>1, <2>2, AloneIs
    <3>2. ind + 1 # Alone(w) + 2
      BY <1>0, <3>1
    <3> QED
      BY <1>0, <3>1, <3>2
  <2> QED
    BY <2>1, <2>2
<1>7. next \in Seq(STRING)
  BY <1>1, NextWordIs
<1>8. /\ os \in Seq(Arg) /\ Len(os) >= Alone(w) /\ \A k \in 1..Alone(w) : os[k] = FlagAlone(w, k)
  <2> HIDE DEF next
  <2>1. os = Options(w, next)
    BY <1>1 DEF next
  <2> QED
    BY <1>0, <1>1, <1>6, <1>7, <2>1, OptionsAre
<1>9. os[ind] = o
  <2>1. ind \in 1..Alone(w)
    BY <1>0, <1>6
  <2> QED
    BY <1>8, <2>1 DEF FlagAlone
<1>10. o \in Arg
  <2>1. ind + 1 \in 1..Len(w)
    BY <1>0, <1>5
  <2>2. FlagAlone(w, ind) \in Arg
    BY <1>1, <2>1, FlagAloneType
  <2> QED
    BY <2>2 DEF FlagAlone
<1>11. returned \in Seq(Arg)
  BY <1>0 DEF Shape
<1>12. Joined(M.options, returned, Here.options, ind - 1)
  BY <1>0, <1>4 DEF OptInv, OptionsSoFar
<1>13. Here.options = os \o m.options
  BY <1>0, <1>1, OptionNow DEF w, m, os, AfterOptions
<1> HIDE DEF w, m, M, os, o, x
<1>14. /\ Here.options \in Seq(Arg) /\ ind - 1 \in 0..(Len(Here.options) - 1)
       /\ Here.options[(ind - 1) + 1] = o
  <2>1. Len(os) \in Nat /\ Len(m.options) \in Nat
    BY <1>1, <1>8, LenProperties
  <2>2. /\ Here.options \in Seq(Arg) /\ Len(Here.options) = Len(os) + Len(m.options)
        /\ \A k \in 1..(Len(os) + Len(m.options)) :
             Here.options[k] = IF k <= Len(os) THEN os[k] ELSE m.options[k - Len(os)]
    <3>1. /\ os \o m.options \in Seq(Arg) /\ Len(os \o m.options) = Len(os) + Len(m.options)
          /\ \A k \in 1..(Len(os) + Len(m.options)) :
               (os \o m.options)[k] = IF k <= Len(os) THEN os[k] ELSE m.options[k - Len(os)]
      BY <1>1, <1>8, ConcatProperties
    <3> QED
      BY <1>13, <3>1
  <2>3. ind \in 1..(Len(os) + Len(m.options)) /\ ind <= Len(os) /\ (ind - 1) + 1 = ind
    BY <1>0, <1>6, <1>8, <2>1
  <2>4. Here.options[ind] = os[ind]
    BY <2>2, <2>3
  <2> QED
    BY <2>1, <2>2, <2>3, <2>4, <1>0, <1>9
<1>15. Joined(M.options, Append(returned, o), Here.options, (ind - 1) + 1)
  BY <1>10, <1>11, <1>12, <1>14, JoinOne
<1>16. Shape'
  <2>1. returned' \in Seq(Arg)
    BY <1>3, <1>10, <1>11, AppendProperties
  <2>2. ind' \in Nat
    BY <1>0, <1>2
  <2> QED
    BY <1>0, <1>2, <2>1, <2>2 DEF Shape
<1>17. InOption'
  <2>1. ind + 1 <= Alone(w) + 1
    BY <1>0, <1>6
  <2>2. (ind <= Alone(Argv(optind)) + 1)'
    BY <1>2, <1>4, <2>1
  <2> QED
    BY <1>0, <1>2, <1>4, <2>2 DEF InOption
<1>18. OptionsSoFar'
  <2>1. Meaning(given)' = M
    BY <1>2 DEF M
  <2> QED
    BY <1>0, <1>2, <1>3, <1>4, <1>15, <2>1 DEF OptionsSoFar
<1>19. FilesSoFar'
  BY <1>0, <1>2, <1>4 DEF OptInv, FilesSoFar
<1> QED
  BY <1>16, <1>17, <1>18, <1>19 DEF OptInv

(* A shifted list of arguments keeps its type and the words ahead.         *)
LEMMA Shifted ==
  ASSUME Shape, ~done, optind < argc, Shift
  PROVE  /\ args' \in [1..argc -> Words]
         /\ \A j \in (optind + 2)..argc : args'[j] = given[j]
<1>1. /\ argc \in Nat /\ args \in [1..argc -> Words] /\ optind \in 1..(argc - 1)
      /\ pos \in 0..(optind - 1) /\ \A j \in (optind + 1)..argc : args[j] = given[j]
  BY DEF Shape
<1>2. args' = ShiftPositionalArgs(args, optind, pos)
  BY DEF Shift
<1>3. /\ args' \in [1..argc -> Words]
      /\ \A i \in 1..argc : i < (optind + 1) - pos \/ i > optind + 1 => args'[i] = args[i]
  <2>1. Moved(args', args, argc, optind, pos)
    BY <1>1, <1>2, ShiftIs
  <2> QED
    BY <2>1 DEF Moved
<1>4. ASSUME NEW j \in (optind + 2)..argc  PROVE args'[j] = given[j]
  <2>1. j \in 1..argc /\ j > optind + 1 /\ j \in (optind + 1)..argc
    BY <1>1
  <2> QED
    BY <2>1, <1>1, <1>3
<1> QED
  BY <1>3, <1>4

LEMMA ShiftPasses ==
  ASSUME Shape, ~done, optind < argc, Shift, NEW files, NEW rest,
         Passed(files, args, optind, pos, rest)
  PROVE  Passed(files, args', optind + 1, pos, rest)
<1>1. /\ argc \in Nat /\ args \in [1..argc -> Words] /\ optind \in 1..(argc - 1)
      /\ pos \in 0..(optind - 1)
  BY DEF Shape
<1>2. args' = ShiftPositionalArgs(args, optind, pos)
  BY DEF Shift
<1> QED
  BY <1>1, <1>2, PassShift

LEMMA KeptByOptionEnd ==
  ASSUME OptInv, OptionEnd
  PROVE  OptInv'
<1> DEFINE i == optind + 1  w == Argv(optind)  m == From(given, Beyond(given, i))
           M == Meaning(given)  next == NextWord(given, i)  os == Options(w, next)
<1>0. /\ Shape /\ ~done /\ optind < argc /\ ind > 0 /\ ind = Len(w) /\ ind \in Nat
      /\ IsOption(w) /\ ~ Ends(w) /\ ind <= Alone(w) + 1 /\ Shift
  BY DEF OptInv, OptionEnd, Inside, InOption, Shape
<1>1. /\ given \in Seq(Words) /\ i \in 1..Len(given) /\ argc = Len(given) /\ argc \in Nat
      /\ w = given[i] /\ w \in Words /\ optind \in 1..(argc - 1) /\ pos \in 0..(optind - 1)
      /\ Sound(m) /\ m.options \in Seq(Arg)
  BY <1>0, Now
<1>2. /\ ind' = 0 /\ done' = done /\ optind' = i /\ pos' = pos /\ given' = given
      /\ returned' = returned /\ argc' = argc
  BY DEF OptionEnd, argc
<1>3. Takes(w) = {} /\ Alone(w) = ind - 1
  <2>1. Takes(w) # {} => Alone(w) + 2 \in 2..Len(w)
    BY <1>0, <1>1, AloneIs
  <2>3. Alone(w) \in Nat
    BY <1>0, <1>1, AloneIs
  <2>2. Takes(w) = {}
    BY <1>0, <2>1, <2>3
  <2> QED
    BY <1>0, <1>1, <2>2, AloneIs
<1>4. ~ TakesNext(given, i) /\ Beyond(given, i) = i + 1
  BY <1>1, <1>3 DEF TakesNext, Beyond
<1>5. Here' = m
  BY <1>2, <1>4 DEF Here
<1>6. next \in Seq(STRING)
  BY <1>1, NextWordIs
<1>7. os \in Seq(Arg) /\ Len(os) = ind - 1
  <2> HIDE DEF next, w
  <2> QED
    BY <1>0, <1>1, <1>3, <1>6, OptionsAre
<1>8. AfterOptions(Here, os, TakesNext(given, i), m)
  BY <1>0, OptionNow
<1> HIDE DEF w, m, M, os, next
<1>9. Shape'
  <2>1. /\ args' \in [1..argc -> Words] /\ \A j \in (optind + 2)..argc : args'[j] = given[j]
    BY <1>0, Shifted
  <2>2. i \in 1..argc /\ pos < i /\ i + 1 = optind + 2
    BY <1>1
  <2> QED
    BY <1>0, <1>2, <2>1, <2>2 DEF Shape
<1>10. InOption'
  BY <1>2 DEF InOption
<1>11. OptionsSoFar'
  <2>1. Joined(M.options, returned, Here.options, Len(os))
    BY <1>0, <1>7 DEF OptInv, OptionsSoFar, Skip, M
  <2>2. returned \in Seq(Arg)
    BY <1>0 DEF Shape
  <2>3. Here.options = os \o m.options
    BY <1>8 DEF AfterOptions
  <2>4. Joined(M.options, returned, m.options, 0)
    BY <1>1, <1>7, <2>1, <2>2, <2>3, JoinNext
  <2> QED
    BY <1>0, <1>2, <1>5, <2>4 DEF OptionsSoFar, Skip, M
<1>12. FilesSoFar'
  <2> SUFFICES ASSUME ~ M.late
               PROVE  ~ m.late /\ (pos > 0 => ~ m.separate) /\ Passed(M.files, args', i, pos, m.files)
    BY <1>0, <1>2, <1>5 DEF FilesSoFar, M
  <2>1. ~ Here.late /\ (pos > 0 => ~Here.separate) /\ Passed(M.files, args, optind, pos, Here.files)
    BY <1>0 DEF OptInv, FilesSoFar, M
  <2>2. ~ m.late /\ (pos > 0 => ~ m.separate) /\ Here.files = m.files
    BY <1>8, <2>1 DEF AfterOptions
  <2>3. Passed(M.files, args', optind + 1, pos, Here.files)
    BY <1>0, <2>1, ShiftPasses
  <2> QED
    BY <2>2, <2>3
<1> QED
  BY <1>9, <1>10, <1>11, <1>12 DEF OptInv

LEMMA KeptByDoubleDash ==
  ASSUME OptInv, DoubleDash
  PROVE  OptInv'
<1> DEFINE i == optind + 1  w == Argv(optind)  M == Meaning(given)
           rest == SubSeq(given, i + 1, argc)
<1>0. Shape /\ ~done /\ optind < argc /\ ind = 0 /\ Ends(w) /\ Shift
  BY DEF OptInv, DoubleDash, Looking
<1>1. /\ given \in Seq(Words) /\ i \in 1..Len(given) /\ argc = Len(given) /\ argc \in Nat
      /\ optind \in 1..(argc - 1) /\ pos \in 0..(optind - 1)
      /\ M.options \in Seq(Arg) /\ M.files \in Seq(Words)
  BY <1>0, Now
<1>2. /\ ind' = 0 /\ done' = TRUE /\ optind' = (optind + 1) - pos
      /\ pos' = pos + (argc - (optind + 1)) /\ given' = given
      /\ returned' = returned /\ argc' = argc
  <2>1. /\ ind' = ind /\ done' = TRUE /\ pos' = pos + (argc - (optind + 1)) /\ optind' = argc - pos'
        /\ given' = given /\ returned' = returned
    BY DEF DoubleDash
  <2> QED
    BY <1>0, <1>1, <2>1 DEF argc
<1>3. AfterEnd(Here, rest)
  BY <1>0, <1>1, EndNow
<1>4. /\ args' \in [1..argc -> Words] /\ \A j \in (optind + 2)..argc : args'[j] = given[j]
  BY <1>0, Shifted
<1>5. /\ rest \in Seq(Words) /\ Len(rest) = argc - i
      /\ \A j \in 1..Len(rest) : rest[j] = args'[i + j]
  <2>1. \A j \in (i + 1)..argc : given[j] \in Words
    BY <1>1, ElementOfSeq
  <2>2. i + 1 \in Int /\ argc \in Int
    BY <1>1
  <2>3. /\ rest \in Seq(Words)
        /\ Len(rest) = IF i + 1 <= argc THEN argc - (i + 1) + 1 ELSE 0
        /\ \A j \in 1..(argc - (i + 1) + 1) : rest[j] = given[(i + 1) + j - 1]
    BY <2>1, <2>2, SubSeqProperties
  <2> HIDE DEF rest
  <2>4. Len(rest) = argc - i
    BY <1>1, <2>3
  <2>5. ASSUME NEW j \in 1..Len(rest)  PROVE rest[j] = args'[i + j]
    <3>1. /\ j \in 1..(argc - (i + 1) + 1) /\ (i + 1) + j - 1 = i + j
          /\ i + j \in (optind + 2)..argc
      BY <1>1, <2>4
    <3>2. rest[j] = given[i + j]
      BY <2>3, <3>1
    <3> QED
      BY <3>1, <3>2, <1>4
  <2> QED
    BY <2>3, <2>4, <2>5
<1> HIDE DEF w, M, rest
<1>6. Shape'
  <2>1. (optind + 1) - pos \in 1..argc /\ pos + (argc - (optind + 1)) \in 0..(argc - 1)
    BY <1>1
  <2> QED
    BY <1>0, <1>2, <1>4, <2>1 DEF Shape
<1>7. InOption'
  BY <1>2 DEF InOption
<1>8. OptionsSoFar'
  <2>1. Joined(M.options, returned, <<>>, 0)
    BY <1>0, <1>3 DEF OptInv, OptionsSoFar, Skip, M, AfterEnd
  <2>2. returned \in Seq(Arg)
    BY <1>0 DEF Shape
  <2>3. returned = M.options
    BY <1>1, <2>1, <2>2, JoinAll
  <2> QED
    BY <1>2, <2>3 DEF OptionsSoFar, M
<1>9. FilesSoFar'
  <2> SUFFICES ASSUME ~ M.late
               PROVE  SubSeq(args', ((optind + 1) - pos) + 1, argc) = M.files
    BY <1>2 DEF FilesSoFar, FilesLeft, M
  <2>1. Passed(M.files, args, optind, pos, rest)
    BY <1>0, <1>3 DEF OptInv, FilesSoFar, M, AfterEnd
  <2>2. Passed(M.files, args', i, pos, rest)
    BY <1>0, <2>1, ShiftPasses
  <2>3. i \in 1..argc /\ pos \in 0..(i - 1)
    BY <1>1
  <2> DEFINE fs == M.files  m == (i - pos) + 1
  <2>4. fs \in Seq(Words) /\ Passed(fs, args', i, pos, rest) /\ LastOf(rest, args', i, argc)
    BY <1>1, <1>5, <2>2 DEF LastOf
  <2>5. m = ((optind + 1) - pos) + 1 /\ m = (i - pos) + 1
    OBVIOUS
  <2> HIDE DEF fs, m, i
  <2>6. LeftIs(args', m, argc, fs)
    BY <1>1, <1>4, <1>5, <2>3, <2>4, <2>5, PassAll
  <2> QED
    BY <2>5, <2>6 DEF fs, LeftIs
<1> QED
  BY <1>6, <1>7, <1>8, <1>9 DEF OptInv

LEMMA KeptByFinish ==
  ASSUME OptInv, Finish
  PROVE  OptInv'
<1> DEFINE M == Meaning(given)  none == <<>>
<1>0. Shape /\ ~done /\ optind >= argc
  BY DEF OptInv, Finish
<1>1. /\ given \in Seq(Words) /\ argc \in Nat \ {0} /\ argc = Len(given) /\ optind = argc
      /\ args \in [1..argc -> Words] /\ pos \in 0..(argc - 1) /\ returned \in Seq(Arg)
  BY <1>0 DEF Shape, argc
<1>2. ind = 0
  BY <1>1 DEF OptInv, InOption, Shape
<1>3. /\ ind' = 0 /\ done' = TRUE /\ optind' = argc - pos /\ pos' = pos /\ given' = given
      /\ args' = args /\ returned' = returned /\ argc' = argc
  BY <1>2 DEF Finish, argc
<1>4. Here = OnlyFiles(none)
  <2>1. argc + 1 \in 2..(argc + 1) /\ argc + 1 > argc /\ argc >= 1
    BY <1>1
  <2>2. Reading(given)[argc + 1] = OnlyFiles(<<>>)
    BY <1>1, <2>1, ReadingIs
  <2> QED
    BY <1>1, <2>2 DEF Here, From
<1>5. none \in Seq(Words) /\ Len(none) = 0
  BY EmptySeq
<1>6. Here.options = <<>> /\ Here.files = none
  BY <1>4, <1>5, NothingLeft
<1>7. M.options \in Seq(Arg) /\ M.files \in Seq(Words)
  <2>1. 2 \in 2..(argc + 1) /\ argc >= 1
    BY <1>1
  <2>2. Sound(M)
    BY <1>1, <2>1, ReadingIsSound DEF Meaning
  <2> HIDE DEF M
  <2> QED
    BY <2>2 DEF Sound, Readings
<1> HIDE DEF M, none
<1>8. Shape'
  <2>1. argc - pos \in 1..argc
    BY <1>1
  <2> QED
    BY <1>0, <1>1, <1>3, <2>1 DEF Shape
<1>9. InOption'
  BY <1>3 DEF InOption
<1>10. OptionsSoFar'
  <2>1. Joined(M.options, returned, <<>>, 0)
    BY <1>0, <1>2, <1>6 DEF OptInv, OptionsSoFar, Skip, M
  <2>2. returned = M.options
    BY <1>1, <1>7, <2>1, JoinAll
  <2> QED
    BY <1>3, <2>2 DEF OptionsSoFar, M
<1>11. FilesSoFar'
  <2> SUFFICES ASSUME ~ M.late
               PROVE  SubSeq(args, (argc - pos) + 1, argc) = M.files
    BY <1>3 DEF FilesSoFar, FilesLeft, M
  <2>1. Passed(M.files, args, argc, pos, none)
    BY <1>0, <1>1, <1>6 DEF OptInv, FilesSoFar, M
  <2>2. argc \in 1..argc /\ pos \in 0..(argc - 1) /\ argc \in Nat /\ Len(none) = argc - argc
    BY <1>1, <1>5
  <2>3. LastOf(none, args, argc, argc)
    BY <1>5, <2>2 DEF LastOf
  <2> DEFINE fs == M.files  m == (argc - pos) + 1
  <2>4. fs \in Seq(Words) /\ Passed(fs, args, argc, pos, none)
    BY <1>7, <2>1
  <2>5. m = (argc - pos) + 1
    OBVIOUS
  <2> HIDE DEF fs, m
  <2>6. LeftIs(args, m, argc, fs)
    BY <1>1, <1>5, <2>2, <2>3, <2>4, <2>5, PassAll
  <2> QED
    BY <2>5, <2>6 DEF fs, LeftIs
<1> QED
  BY <1>8, <1>9, <1>10, <1>11 DEF OptInv

(* The flag that takes an argument is the last of its word's options.      *)
LEMMA TakesIt ==
  ASSUME NEW w \in Words, IsOption(w), NEW k \in Nat, k > 0, k < Len(w), k <= Alone(w) + 1,
         w[k + 1] \in ArgFlags
  PROVE  Takes(w) # {} /\ Alone(w) = k - 1
<1>1. Len(w) \in Nat /\ Alone(w) \in Nat
  BY WordIs, AloneIs
<1>2. k + 1 \in Takes(w)
  BY <1>1 DEF Takes
<1>3. ~ (k <= Alone(w))
  <2>1. k \in 1..Alone(w) => w[k + 1] \notin ArgFlags
    BY AloneIs
  <2> QED
    BY <2>1, <1>1
<1> QED
  BY <1>1, <1>2, <1>3

LEMMA ArgReturned ==
  ASSUME OptInv, FlagWithArg, NEW i, i = optind + 1, NEW w, w = Argv(optind),
         NEW next, next = NextWord(given, i)
  PROVE  /\ Takes(w) # {} /\ Alone(w) = ind - 1 /\ Beyond(given, i) = optind' + 1
         /\ optind' \in (optind + 1)..argc
         /\ returned' = Append(returned, Taken(w, next))
         /\ TakesNext(given, i) \/ optind' = optind + 1
<1> DEFINE rest == Rest(Argv(optind), ind + 1)
<1>0. /\ Shape /\ ~done /\ optind < argc /\ ind > 0 /\ ind < Len(w) /\ ind \in Nat
      /\ IsOption(w) /\ ~ Ends(w) /\ ind <= Alone(w) + 1 /\ w[ind + 1] \in ArgFlags
  BY DEF OptInv, FlagWithArg, Inside, InOption, Shape
<1>1. /\ given \in Seq(Words) /\ i \in 1..Len(given) /\ argc = Len(given) /\ argc \in Nat
      /\ w = given[i] /\ w \in Words /\ optind \in 1..(argc - 1)
  BY <1>0, Now
<1>2. Takes(w) # {} /\ Alone(w) = ind - 1
  BY <1>0, <1>1, TakesIt
<1>3. Min(Takes(w)) = ind + 1 /\ Len(w) \in Nat
  <2>1. Min(Takes(w)) = Alone(w) + 2
    BY <1>0, <1>1, <1>2, AloneIs
  <2> QED
    BY <2>1, <1>0, <1>1, <1>2, WordIs
<1>4. TakesNext(given, i) <=> i < argc /\ ind + 1 = Len(w)
  BY <1>0, <1>1, <1>2, <1>3 DEF TakesNext
<1>5. rest = SubSeq(w, ind + 2, Len(w))
  BY <1>0 DEF Rest
<1>6. rest = <<>> <=> ind + 1 = Len(w)
  <2> DEFINE lo == ind + 2  n == Len(w)
  <2>1. \A k \in lo..n : w[k] \in STRING
    BY <1>0, <1>1, <1>3, WordIs
  <2>2. lo \in Int /\ n \in Int /\ rest = SubSeq(w, lo, n)
    BY <1>0, <1>3, <1>5
  <2> HIDE DEF rest, lo, n
  <2>5. /\ SubSeq(w, lo, n) \in Seq(STRING)
        /\ Len(SubSeq(w, lo, n)) = IF lo <= n THEN n - lo + 1 ELSE 0
    BY <2>1, <2>2, SubSeqProperties
  <2>3. /\ rest \in Seq(STRING)
        /\ Len(rest) = IF ind + 2 <= Len(w) THEN Len(w) - (ind + 2) + 1 ELSE 0
    BY <2>2, <2>5 DEF lo, n
  <2>4. rest = <<>> <=> Len(rest) = 0
    BY <2>3, EmptySeq
  <2> QED
    BY <2>3, <2>4, <1>0, <1>3
<1>7. /\ \/ rest # <<>> /\ optind' = optind + 1 /\ Return(w[ind + 1], rest)
         \/ rest = <<>> /\ optind + 1 = argc /\ optind' = argc /\ Return(":", None)
         \/ rest = <<>> /\ optind + 1 < argc /\ optind' = optind + 2
            /\ Return(w[ind + 1], Argv(optind + 1))
  BY DEF FlagWithArg
<1>8. Alone(w) + 2 = ind + 1 /\ (ind + 1) + 1 = ind + 2
  BY <1>0, <1>2
<1> DEFINE t == Taken(w, next)
<1>9. t = IF ind + 1 < Len(w) THEN [flag |-> w[ind + 1], optarg |-> rest]
          ELSE [flag |-> IF next = <<>> THEN ":" ELSE w[ind + 1], optarg |-> next]
  BY <1>5, <1>8 DEF Taken
<1> HIDE DEF rest, t
<1>10. CASE rest # <<>>
  <2>1. ind + 1 < Len(w) /\ ~ TakesNext(given, i)
    BY <1>0, <1>3, <1>4, <1>6, <1>10
  <2>2. optind' = optind + 1 /\ Return(w[ind + 1], rest)
    BY <1>7, <1>10
  <2>3. returned' = Append(returned, t)
    BY <1>9, <2>1, <2>2 DEF Return
  <2> QED
    BY <1>1, <1>2, <2>1, <2>2, <2>3 DEF Beyond, t
<1>11. CASE rest = <<>> /\ optind + 1 = argc
  <2>1. ~ (ind + 1 < Len(w)) /\ ~ TakesNext(given, i) /\ ~ (i < Len(given))
    BY <1>0, <1>1, <1>3, <1>4, <1>6, <1>11
  <2>2. optind' = optind + 1 /\ Return(":", None)
    BY <1>1, <1>7, <1>11
  <2>3. next = <<>>
    BY <2>1 DEF NextWord
  <2>4. t = [flag |-> ":", optarg |-> None]
    BY <1>9, <2>1, <2>3 DEF None
  <2>5. returned' = Append(returned, t)
    BY <2>2, <2>4 DEF Return
  <2> QED
    BY <1>1, <1>2, <2>1, <2>2, <2>5 DEF Beyond, t
<1>12. CASE rest = <<>> /\ optind + 1 < argc
  <2>1. ~ (ind + 1 < Len(w)) /\ TakesNext(given, i) /\ i < Len(given)
    BY <1>0, <1>1, <1>3, <1>4, <1>6, <1>12
  <2>2. optind' = optind + 2 /\ Return(w[ind + 1], Argv(optind + 1))
    BY <1>1, <1>7, <1>12
  <2>3. Argv(optind + 1) = given[optind + 2]
    <3>1. \A j \in (optind + 1)..argc : args[j] = given[j]
      BY <1>0 DEF Shape
    <3>2. optind + 2 \in (optind + 1)..argc /\ (optind + 1) + 1 = optind + 2
      BY <1>1, <1>12
    <3> QED
      BY <3>1, <3>2 DEF Argv
  <2>4. next = given[optind + 2] /\ next # <<>>
    <3>1. i + 1 = optind + 2 /\ i + 1 \in 1..Len(given)
      BY <1>1, <2>1
    <3>2. next = given[optind + 2]
      BY <2>1, <3>1 DEF NextWord
    <3>3. next \in Words
      BY <3>1, <3>2, <1>1, ElementOfSeq
    <3> QED
      BY <3>2, <3>3, GetOptsAssumption
  <2>5. t = [flag |-> w[ind + 1], optarg |-> next]
    BY <1>9, <2>1, <2>4
  <2>6. returned' = Append(returned, t)
    BY <2>2, <2>3, <2>4, <2>5 DEF Return
  <2>7. Beyond(given, i) = optind' + 1
    BY <2>1, <2>2, <1>1 DEF Beyond
  <2> QED
    BY <1>1, <1>2, <1>12, <2>1, <2>2, <2>6, <2>7 DEF t
<1> QED
  BY <1>1, <1>10, <1>11, <1>12

LEMMA Further ==
  ASSUME NEW p \in Int, NEW q \in Int, NEW n \in Int, q >= p + 1
  PROVE  \A j \in (q + 1)..n : j \in (p + 2)..n
OBVIOUS

LEMMA KeptByFlagWithArg ==
  ASSUME OptInv, FlagWithArg
  PROVE  OptInv'
<1> DEFINE i == optind + 1  w == Argv(optind)  m == From(given, Beyond(given, i))
           M == Meaning(given)  next == NextWord(given, i)  os == Options(w, next)
           x == Taken(w, next)
<1>0. /\ Shape /\ ~done /\ optind < argc /\ ind > 0 /\ ind \in Nat
      /\ IsOption(w) /\ ~ Ends(w) /\ Shift
  BY DEF OptInv, FlagWithArg, Inside, InOption, Shape
<1>1. /\ given \in Seq(Words) /\ i \in 1..Len(given) /\ argc = Len(given) /\ argc \in Nat
      /\ w = given[i] /\ w \in Words /\ optind \in 1..(argc - 1) /\ pos \in 0..(optind - 1)
      /\ Sound(m) /\ m.options \in Seq(Arg)
  BY <1>0, Now
<1>2. /\ ind' = 0 /\ done' = done /\ pos' = pos /\ given' = given /\ argc' = argc
  BY DEF FlagWithArg, argc
<1>3. /\ Takes(w) # {} /\ Alone(w) = ind - 1 /\ Beyond(given, i) = optind' + 1
      /\ optind' \in (optind + 1)..argc
      /\ returned' = Append(returned, x)
      /\ TakesNext(given, i) \/ optind' = optind + 1
  BY ArgReturned
<1>4. Here' = m
  BY <1>2, <1>3 DEF Here
<1>5. next \in Seq(STRING)
  BY <1>1, NextWordIs
<1>6. os \in Seq(Arg) /\ Len(os) = (ind - 1) + 1 /\ os[(ind - 1) + 1] = x /\ x \in Arg
  <2>0. os = Options(w, next) /\ x = Taken(w, next) /\ w \in Words /\ IsOption(w)
    BY <1>0, <1>1
  <2> HIDE DEF next, w, os, x, m, M
  <2>1. x \in Arg
    BY <2>0, <1>3, <1>5, TakenType
  <2>2. os \in Seq(Arg) /\ Len(os) = Alone(w) + 1 /\ os[Alone(w) + 1] = x
    BY <2>0, <1>3, <1>5, OptionsAre
  <2> QED
    BY <2>1, <2>2, <1>3
<1>7. AfterOptions(Here, os, TakesNext(given, i), m)
  BY <1>0, OptionNow
<1> HIDE DEF w, m, M, os, next, x
<1>8. returned \in Seq(Arg) /\ returned' \in Seq(Arg)
  <2>1. returned \in Seq(Arg)
    BY <1>0 DEF Shape
  <2> QED
    BY <2>1, <1>3, <1>6, AppendProperties
<1>9. Shape'
  <2>1. /\ args' \in [1..argc -> Words] /\ \A j \in (optind + 2)..argc : args'[j] = given[j]
    BY <1>0, Shifted
  <2>2. optind' \in 1..argc /\ pos < optind'
    BY <1>1, <1>3
  <2>0. optind' \in Int /\ optind \in Int /\ argc \in Int /\ optind' >= optind + 1
    BY <1>1, <1>3
  <2>3. \A j \in (optind' + 1)..argc : j \in (optind + 2)..argc
    BY <2>0, Further
  <2>4. \A j \in (optind' + 1)..argc : args'[j] = given[j]
    BY <2>1, <2>3
  <2> QED
    BY <1>0, <1>2, <1>8, <2>1, <2>2, <2>4 DEF Shape
<1>10. InOption'
  BY <1>2 DEF InOption
<1>11. OptionsSoFar'
  <2>1. Joined(M.options, returned, Here.options, ind - 1)
    BY <1>0 DEF OptInv, OptionsSoFar, Skip, M
  <2> DEFINE r == Here.options  o == m.options  g == Append(returned, x)  T == M.options
  <2>2. r = os \o o /\ o \in Seq(Arg)
    BY <1>1, <1>7 DEF AfterOptions
  <2> HIDE DEF r, o, g, T
  <2>3. Len(os) \in Nat /\ Len(o) \in Nat
    BY <1>6, <2>2, LenProperties
  <2>4. /\ r \in Seq(Arg) /\ Len(r) = Len(os) + Len(o)
        /\ \A k \in 1..(Len(os) + Len(o)) : r[k] = IF k <= Len(os) THEN os[k] ELSE o[k - Len(os)]
    BY <1>6, <2>2, ConcatProperties
  <2>5. ind - 1 \in 0..(Len(r) - 1) /\ r[(ind - 1) + 1] = x
    <3>1. (ind - 1) + 1 \in 1..(Len(os) + Len(o)) /\ (ind - 1) + 1 <= Len(os)
      BY <1>0, <1>6, <2>3
    <3>2. r[(ind - 1) + 1] = os[(ind - 1) + 1]
      BY <2>4, <3>1
    <3> QED
      BY <1>0, <1>6, <2>3, <2>4, <3>1, <3>2
  <2>6. Joined(T, returned, r, ind - 1)
    BY <2>1 DEF r, T
  <2>7. Joined(T, g, r, (ind - 1) + 1)
    BY <1>6, <1>8, <2>4, <2>5, <2>6, JoinOne DEF g
  <2>8. Joined(T, g, r, Len(os)) /\ g \in Seq(Arg)
    BY <1>3, <1>6, <1>8, <2>7 DEF g
  <2>9. Joined(T, g, o, 0)
    BY <1>6, <2>2, <2>8, JoinNext
  <2> QED
    BY <1>0, <1>2, <1>3, <1>4, <2>9 DEF OptionsSoFar, Skip, M, T, g, o
<1>12. FilesSoFar'
  <2> SUFFICES ASSUME ~ M.late
               PROVE  /\ ~ m.late /\ (pos > 0 => ~ m.separate)
                      /\ Passed(M.files, args', optind', pos, m.files)
    BY <1>0, <1>2, <1>4 DEF FilesSoFar, M
  <2>1. ~ Here.late /\ (pos > 0 => ~Here.separate) /\ Passed(M.files, args, optind, pos, Here.files)
    BY <1>0 DEF OptInv, FilesSoFar, M
  <2>2. /\ ~ m.late /\ (pos > 0 => ~ m.separate /\ ~ TakesNext(given, i)) /\ Here.files = m.files
    BY <1>7, <2>1 DEF AfterOptions
  <2>3. CASE optind' = optind + 1
    <3>1. Passed(M.files, args', optind + 1, pos, Here.files)
      BY <1>0, <2>1, ShiftPasses
    <3> QED
      BY <2>2, <2>3, <3>1
  <2>4. CASE optind' # optind + 1
    <3>1. pos = 0
      BY <1>1, <1>3, <2>2, <2>4
    <3> DEFINE fs == M.files  ms == m.files
    <3>2. Passed(fs, args, optind, 0, ms)
      BY <2>1, <2>2, <3>1
    <3> HIDE DEF fs, ms
    <3>3. Passed(fs, args', optind', 0, ms)
      BY <3>2 DEF Passed
    <3> QED
      BY <2>2, <3>1, <3>3 DEF fs, ms
  <2> QED
    BY <2>3, <2>4
<1> QED
  BY <1>9, <1>10, <1>11, <1>12 DEF OptInv

LEMMA OptInvariant == OptSpec => []OptInv
<1>1. OptInit => OptInv
  BY OptStart
<1>2. OptInv /\ [OptNext]_optVars => OptInv'
  <2> SUFFICES ASSUME OptInv, [OptNext]_optVars  PROVE OptInv'
    OBVIOUS
  <2>1. CASE Positional
    BY <2>1, KeptByPositional
  <2>2. CASE OptionStart
    BY <2>2, KeptByOptionStart
  <2>3. CASE DoubleDash
    BY <2>3, KeptByDoubleDash
  <2>4. CASE OptionEnd
    BY <2>4, KeptByOptionEnd
  <2>5. CASE Flag
    BY <2>5, KeptByFlag
  <2>6. CASE FlagWithArg
    BY <2>6, KeptByFlagWithArg
  <2>7. CASE Finish
    BY <2>7, KeptByFinish
  <2>8. CASE UNCHANGED optVars
    BY <2>8 DEF optVars, OptInv, Shape, InOption, OptionsSoFar, FilesSoFar, FilesLeft, Here, Skip,
                Argv, argc
  <2> QED
    BY <2>1, <2>2, <2>3, <2>4, <2>5, <2>6, <2>7, <2>8 DEF OptNext
<1> QED
  BY <1>1, <1>2, PTL DEF OptSpec

(* Every flag is returned with the argument that belongs to it, for any    *)
(* list of arguments (util.c:42).                                          *)
THEOREM OptionsAreRight == OptSpec => []OptionsRight
<1>1. OptInv => OptionsRight
  BY DEF OptInv, OptionsSoFar, OptionsRight
<1> QED
  BY <1>1, OptInvariant, PTL

(* What is left to the command are the files, in the order they are given, *)
(* if no option behind one has a separate argument (util.c:124).           *)
THEOREM FilesAreRight == OptSpec => []FilesRight
<1>1. OptInv => FilesRight
  BY DEF OptInv, FilesSoFar, FilesRight
<1> QED
  BY <1>1, OptInvariant, PTL

(* No argument is lost or doubled (shiftPositionalArgs, util.c:13).        *)
THEOREM ArgsAreKept == OptSpec => []KeepsArgs
<1>1. OptInit => KeepsArgs
  BY DEF OptInit, KeepsArgs
<1>2. OptInv /\ KeepsArgs /\ [OptNext]_optVars => KeepsArgs'
  <2> SUFFICES ASSUME OptInv, KeepsArgs, [OptNext]_optVars  PROVE KeepsArgs'
    OBVIOUS
  <2>1. given' = given /\ argc' = argc
    BY DEF OptNext, optVars, Positional, OptionStart, DoubleDash, OptionEnd, Flag, FlagWithArg,
           Finish, argc
  <2>2. args' = args \/ (Shift /\ ~done /\ optind < argc)
    BY DEF OptNext, optVars, Positional, OptionStart, DoubleDash, OptionEnd, Flag, FlagWithArg,
           Finish, Looking, Inside
  <2>3. ASSUME NEW w \in Words
        PROVE  Cardinality(Places(args', argc, w)) = Cardinality(Places(args, argc, w))
    <3>1. CASE args' = args
      BY <3>1
    <3>2. CASE Shift /\ ~done /\ optind < argc
      <4>1. /\ argc \in Nat /\ args \in [1..argc -> Words] /\ optind \in 1..(argc - 1)
            /\ pos \in 0..(optind - 1)
        BY <3>2 DEF OptInv, Shape
      <4>2. args' = ShiftPositionalArgs(args, optind, pos)
        BY <3>2 DEF Shift
      <4> QED
        BY <4>1, <4>2, ShiftKeeps
    <3> QED
      BY <2>2, <3>1, <3>2
  <2>4. \A w \in Words : Cardinality(Places(args, argc, w)) = Cardinality(Places(given, argc, w))
    BY DEF KeepsArgs, Places
  <2>5. \A w \in Words : Cardinality(Places(args', argc, w)) = Cardinality(Places(given, argc, w))
    BY <2>3, <2>4
  <2> QED
    BY <2>1, <2>5 DEF KeepsArgs, Places
<1> QED
  BY <1>1, <1>2, OptInvariant, PTL DEF OptSpec
=============================================================================
