------------------------------ MODULE Ps2Proofs ------------------------------
(***************************************************************************)
(* Proofs about the keyboard's interrupt line, for any ring, keys and      *)
(* number of polls.                                                        *)
(***************************************************************************)
EXTENDS Ps2, FiniteSetTheorems, SequenceTheorems, WellFoundedInduction, TLAPS

(* The vectors are the BIOS's during its calls; between them the           *)
(* controller has the mask that is saved, and that follows the module.     *)
LineInv ==
  /\ bios \in BOOLEAN /\ masked \in BOOLEAN /\ masks \in BOOLEAN
  /\ bios <=> offsets = "bios"
  /\ ~bios => masked = masks
  /\ ~masks => module = "loaded"

LEMMA InitLine == Init => LineInv
BY DEF Init, PicInit, LineInv

LEMMA StepLine ==
  ASSUME LineInv, bios_masks \in BOOLEAN, [Next]_vars
  PROVE  LineInv' /\ bios_masks' \in BOOLEAN
<1>1. CASE UNCHANGED vars
  BY <1>1 DEF vars, picVars, LineInv
<1>2. CASE \E a \in Typings : Types(a)
  BY <1>2 DEF Types, picVars, LineInv
<1>3. CASE Receives
  BY <1>3 DEF Receives, Rise, LineInv
<1>4. CASE Isr
  BY <1>4 DEF Isr, Serve, LineInv
<1>5. CASE IrqSave
  BY <1>5 DEF IrqSave, picVars, LineInv
<1>6. CASE Poll
  BY <1>6 DEF Poll, picVars, LineInv
<1>7. CASE PollNothing
  BY <1>7 DEF PollNothing, LineInv
<1>8. CASE BiosEnter
  BY <1>8 DEF BiosEnter, ResetBiosDefaults, Remap, LineInv
<1>9. CASE BiosIsr
  BY <1>9 DEF BiosIsr, Serve, LineInv
<1>10. CASE BiosLeave
  BY <1>10 DEF BiosLeave, SaveAndRestore, Remap, RestoreMasks, LineInv
<1>11. CASE ModInit
  BY <1>11 DEF ModInit, SetMask, picVars, LineInv
<1>12. CASE ModDeinit
  BY <1>12 DEF ModDeinit, SetMask, LineInv
<1> QED
  BY <1>1, <1>2, <1>3, <1>4, <1>5, <1>6, <1>7, <1>8, <1>9, <1>10, <1>11, <1>12 DEF Next

(* ps2Isr never runs without its module, wherever BIOS calls come between  *)
(* its loading and rmmod.                                                  *)
THEOREM HandlersThere == Spec => []HandlerThere
<1> DEFINE I == LineInv /\ bios_masks \in BOOLEAN
<1>1. Init => I
  BY InitLine DEF Init, PicInit
<1>2. I /\ [Next]_vars => I'
  BY StepLine
<1>3. I => HandlerThere
  BY DEF LineInv, HandlerThere, Serves
<1> HIDE DEF I
<1> QED
  BY <1>1, <1>2, <1>3, PTL DEF Spec
----------------------------------------------------------------------------
(* The ring's arithmetic: what a byte put and a byte taken do to the       *)
(* count and to the slots of the others.                                   *)

Count(h, t) == (t - h + Cap) % Cap
Slot(h, k) == (h + k - 1) % Cap

LEMMA Wraps == \A x \in 0..(2 * Cap - 1) : x % Cap = IF x < Cap THEN x ELSE x - Cap
BY Ps2Assumption

LEMMA CountIs ==
  ASSUME NEW h \in Slots, NEW t \in Slots
  PROVE  /\ Count(h, t) = IF h <= t THEN t - h ELSE t - h + Cap
         /\ Count(h, t) \in 0..(Cap - 1)
<1>1. t - h + Cap \in 0..(2 * Cap - 1)
  BY Ps2Assumption DEF Slots
<1>2. Count(h, t) = IF t - h + Cap < Cap THEN t - h + Cap ELSE t - h + Cap - Cap
  BY <1>1, Wraps, Ps2Assumption DEF Count, Slots
<1> QED
  BY <1>2, Ps2Assumption DEF Slots

LEMMA SlotIs ==
  ASSUME NEW h \in Slots, NEW k \in 1..Cap
  PROVE  /\ Slot(h, k) = IF h + k <= Cap THEN h + k - 1 ELSE h + k - 1 - Cap
         /\ Slot(h, k) \in Slots
<1>1. h + k - 1 \in 0..(2 * Cap - 1)
  BY Ps2Assumption DEF Slots
<1>2. Slot(h, k) = IF h + k - 1 < Cap THEN h + k - 1 ELSE h + k - 1 - Cap
  BY <1>1, Wraps, Ps2Assumption DEF Slot, Slots
<1> QED
  BY <1>2, Ps2Assumption DEF Slots

LEMMA AfterIs ==
  ASSUME NEW t \in Slots
  PROVE  /\ After(t) = IF t = Cap - 1 THEN 0 ELSE t + 1
         /\ After(t) \in Slots
<1>1. t + 1 \in 0..(2 * Cap - 1)
  BY Ps2Assumption DEF Slots
<1>2. After(t) = IF t + 1 < Cap THEN t + 1 ELSE t + 1 - Cap
  BY <1>1, Wraps, Ps2Assumption DEF After, Slots
<1> QED
  BY <1>2, Ps2Assumption DEF Slots

LEMMA PutSlot ==
  ASSUME NEW h \in Slots, NEW t \in Slots, After(t) # h
  PROVE  /\ Count(h, After(t)) = Count(h, t) + 1
         /\ Slot(h, Count(h, t) + 1) = t
         /\ \A k \in 1..Count(h, t) : Slot(h, k) # t
<1>1. /\ Count(h, t) = IF h <= t THEN t - h ELSE t - h + Cap
      /\ Count(h, t) \in 0..(Cap - 1)
  BY CountIs
<1>2. After(t) = IF t = Cap - 1 THEN 0 ELSE t + 1
  BY AfterIs
<1>3. Count(h, After(t)) = IF h <= After(t) THEN After(t) - h ELSE After(t) - h + Cap
  BY AfterIs, CountIs
<1>4. \A k \in 1..Cap : Slot(h, k) = IF h + k <= Cap THEN h + k - 1 ELSE h + k - 1 - Cap
  BY SlotIs
<1>5. Cap \in Nat /\ h \in 0..(Cap - 1) /\ t \in 0..(Cap - 1)
  BY Ps2Assumption DEF Slots
<1>6. Count(h, After(t)) = Count(h, t) + 1
  BY <1>1, <1>2, <1>3, <1>5
<1>7. Slot(h, Count(h, t) + 1) = t
  BY <1>1, <1>4, <1>5
<1>8. ASSUME NEW k \in 1..Count(h, t) PROVE Slot(h, k) # t
  BY <1>1, <1>4, <1>5
<1> QED
  BY <1>6, <1>7, <1>8

LEMMA TakeSlot ==
  ASSUME NEW h \in Slots, NEW t \in Slots, h # t
  PROVE  /\ Count(h, t) \in 1..(Cap - 1)
         /\ Count(After(h), t) = Count(h, t) - 1
         /\ Slot(h, 1) = h
         /\ \A k \in 1..(Count(h, t) - 1) : Slot(After(h), k) = Slot(h, k + 1)
<1>1. /\ Count(h, t) = IF h <= t THEN t - h ELSE t - h + Cap
      /\ Count(h, t) \in 0..(Cap - 1)
  BY CountIs
<1>2. After(h) = IF h = Cap - 1 THEN 0 ELSE h + 1
  BY AfterIs
<1>3. Count(After(h), t) = IF After(h) <= t THEN t - After(h) ELSE t - After(h) + Cap
  BY AfterIs, CountIs
<1>4. \A k \in 1..Cap : Slot(h, k) = IF h + k <= Cap THEN h + k - 1 ELSE h + k - 1 - Cap
  BY SlotIs
<1>5. \A k \in 1..Cap : Slot(After(h), k) =
         IF After(h) + k <= Cap THEN After(h) + k - 1 ELSE After(h) + k - 1 - Cap
  BY AfterIs, SlotIs
<1>6. Cap \in Nat /\ Cap >= 2 /\ h \in 0..(Cap - 1) /\ t \in 0..(Cap - 1)
  BY Ps2Assumption DEF Slots
<1>7. Count(h, t) \in 1..(Cap - 1) /\ Count(After(h), t) = Count(h, t) - 1
  BY <1>1, <1>2, <1>3, <1>6
<1>8. Slot(h, 1) = h
  BY <1>4, <1>6
<1>9. ASSUME NEW k \in 1..(Count(h, t) - 1) PROVE Slot(After(h), k) = Slot(h, k + 1)
  BY <1>2, <1>4, <1>5, <1>6, <1>7
<1> QED
  BY <1>7, <1>8, <1>9
----------------------------------------------------------------------------
(* The bytes behind the one polled last, by their place in the ring.       *)
Item(b, h, last, k) == IF k = 0 THEN last ELSE b[Slot(h, k)]

RingType ==
  /\ head \in Slots /\ tail \in Slots
  /\ buf \in [Slots -> Nat] /\ taken \in Nat
  /\ sent \in Nat /\ data = sent
  /\ full \in BOOLEAN /\ irr \in BOOLEAN /\ spoiled \in BOOLEAN

(* A latched request without a byte puts the last one there once more, and *)
(* is the only one that can.                                               *)
Ordered ==
  LET n == Count(head, tail)
      P(k) == Item(buf, head, taken, k)
  IN /\ \A i, j \in 0..n : i < j => P(i) <= P(j)
     /\ \A i, j \in 0..n : i + 2 <= j => P(i) < P(j)
     /\ \A i \in 0..n : P(i) <= data
     /\ full => \A i \in 0..n : P(i) < data
     /\ irr => \A i \in 0..n : i < n => P(i) < data

(* Until a byte is lost or comes twice the places are filled in turn.      *)
InTurn ==
  LET n == Count(head, tail)
      P(k) == Item(buf, head, taken, k)
  IN ~spoiled =>
       /\ \A i \in 0..n : P(i) = taken + i
       /\ sent = taken + n + (IF full THEN 1 ELSE 0)

(* Nothing is put in the ring but while the module is loaded.              *)
Unused ==
  /\ module = "out" => head = tail
  /\ off => module = "loaded"

PipeInv ==
  /\ LineInv /\ bios_masks \in BOOLEAN
  /\ RingType /\ Ordered /\ InTurn /\ Unused

LEMMA ItemType ==
  ASSUME RingType, NEW k \in 0..Count(head, tail)
  PROVE  Item(buf, head, taken, k) \in Nat
<1>1. Count(head, tail) \in 0..(Cap - 1)
  BY CountIs DEF RingType
<1>2. CASE k = 0
  BY <1>2 DEF Item, RingType
<1>3. CASE k # 0
  <2>1. k \in 1..Cap
    BY <1>1, <1>3, Ps2Assumption
  <2>2. Slot(head, k) \in Slots
    BY <2>1, SlotIs DEF RingType
  <2> QED
    BY <1>3, <2>2 DEF Item, RingType
<1> QED
  BY <1>2, <1>3

(* Steps that leave the ring alone.  The controller's byte may go to the   *)
(* BIOS, which spoils.                                                     *)
LEMMA RingAlone ==
  ASSUME RingType, Ordered, InTurn,
         UNCHANGED <<buf, head, tail, taken, sent, data>>,
         full' \in BOOLEAN, irr' \in BOOLEAN, spoiled' \in BOOLEAN,
         full' => full, irr' => irr, ~spoiled' => ~spoiled /\ full' = full
  PROVE  RingType' /\ Ordered' /\ InTurn'
<1>1. RingType'
  BY DEF RingType
<1>2. Count(head, tail)' = Count(head, tail)
  BY DEF Count
<1>3. \A k : Item(buf, head, taken, k)' = Item(buf, head, taken, k)
  BY DEF Item, Slot
<1> QED
  BY <1>1, <1>2, <1>3 DEF Ordered, InTurn

(* A byte arrives at the controller.                                       *)
LEMMA ByteArrives ==
  ASSUME RingType, Ordered, InTurn, ~full,
         UNCHANGED <<buf, head, tail, taken, spoiled>>,
         sent' = sent + 1, data' = sent + 1, full' = TRUE, irr' = TRUE
  PROVE  RingType' /\ Ordered' /\ InTurn'
<1> DEFINE n == Count(head, tail)
           P(k) == Item(buf, head, taken, k)
           Q(k) == Item(buf', head', taken', k)
<1>1. RingType'
  BY DEF RingType
<1>2. n' = n /\ n \in Nat
  BY CountIs DEF Count, RingType
<1>3. \A k : Q(k) = P(k)
  BY DEF Item, Slot
<1>4. \A k \in 0..n : P(k) \in Nat
  BY ItemType
<1>5. data \in Nat /\ data' = data + 1 /\ sent' = sent + 1 /\ sent \in Nat /\ taken \in Nat
  BY DEF RingType
<1>6. /\ \A i, j \in 0..n : i < j => P(i) <= P(j)
      /\ \A i, j \in 0..n : i + 2 <= j => P(i) < P(j)
      /\ \A i \in 0..n : P(i) <= data
  BY DEF Ordered
<1>7. ~spoiled => /\ \A i \in 0..n : P(i) = taken + i
                  /\ sent = taken + n
  BY <1>2, <1>5 DEF InTurn
<1>8. n' = Count(head, tail)' /\ \A k : Q(k) = Item(buf', head', taken', k)
  OBVIOUS
<1> HIDE DEF n, P, Q
<1>9. \A i \in 0..n : P(i) < data'
  BY <1>2, <1>4, <1>5, <1>6
<1>10. Ordered'
  BY <1>2, <1>3, <1>6, <1>8, <1>9, <1>4, <1>5 DEF Ordered
<1>11. InTurn'
  BY <1>2, <1>3, <1>5, <1>7, <1>8 DEF InTurn
<1> QED
  BY <1>1, <1>10, <1>11

(* The byte of the data port is put in the ring, which has room.           *)
LEMMA BytePut ==
  ASSUME RingType, Ordered, InTurn, spoiled \in BOOLEAN,
         After(tail) # head, irr \/ full,
         PutByte, UNCHANGED <<head, taken, sent, data>>,
         full' = FALSE, irr' \in BOOLEAN, irr' => full,
         spoiled' \in BOOLEAN, ~spoiled' => ~spoiled /\ full
  PROVE  RingType' /\ Ordered' /\ InTurn'
<1> DEFINE n == Count(head, tail)
           P(k) == Item(buf, head, taken, k)
           Q(k) == Item(buf', head', taken', k)
<1>1. head \in Slots /\ tail \in Slots /\ buf \in [Slots -> Nat] /\ data \in Nat
      /\ sent = data /\ taken \in Nat
  BY DEF RingType
<1>2. n \in 0..(Cap - 1) /\ n' = n + 1
  BY <1>1, CountIs, PutSlot DEF PutByte, Count
<1>3. Slot(head, n + 1) = tail /\ \A k \in 1..n : Slot(head, k) # tail
  BY <1>1, PutSlot
<1>4. RingType'
  BY <1>1, AfterIs DEF RingType, PutByte
<1>5. Q(n + 1) = data
  <2>1. Slot(head', n + 1) = tail
    BY <1>3
  <2> QED
    BY <2>1, <1>1, <1>2, Ps2Assumption DEF Item, PutByte
<1>6. \A k \in 0..n : Q(k) = P(k)
  <2> SUFFICES ASSUME NEW k \in 0..n PROVE Q(k) = P(k)
    OBVIOUS
  <2>1. k # 0 => Slot(head', k) = Slot(head, k) /\ Slot(head, k) # tail
    BY <1>2, <1>3
  <2>2. k # 0 => Slot(head, k) \in Slots
    BY <1>1, <1>2, SlotIs, Ps2Assumption
  <2> QED
    BY <2>1, <2>2, <1>1 DEF Item, PutByte
<1>7. \A k \in 0..n : P(k) \in Nat
  BY ItemType
<1>8. /\ \A i, j \in 0..n : i < j => P(i) <= P(j)
      /\ \A i, j \in 0..n : i + 2 <= j => P(i) < P(j)
      /\ \A i \in 0..n : P(i) <= data
      /\ full => \A i \in 0..n : P(i) < data
      /\ irr => \A i \in 0..n : i < n => P(i) < data
  BY DEF Ordered
<1>9. ~spoiled' => /\ \A i \in 0..n : P(i) = taken + i
                   /\ data = taken + (n + 1)
  BY <1>1, <1>2 DEF InTurn
<1>10. n' = Count(head, tail)' /\ \A k : Q(k) = Item(buf', head', taken', k)
  OBVIOUS
<1>11. data' = data /\ taken' = taken /\ sent' = data
  BY <1>1
<1> HIDE DEF n, P, Q
<1>12. \A i \in 0..n : i < n => P(i) < data
  BY <1>2, <1>8
<1>13. \A i \in 0..(n + 1) : i \in 0..n \/ i = n + 1
  BY <1>2
<1>14. /\ \A i, j \in 0..(n + 1) : i < j => Q(i) <= Q(j)
       /\ \A i, j \in 0..(n + 1) : i + 2 <= j => Q(i) < Q(j)
       /\ \A i \in 0..(n + 1) : Q(i) <= data
  BY <1>2, <1>5, <1>6, <1>7, <1>8, <1>12, <1>13, <1>1
<1>15. irr' => \A i \in 0..(n + 1) : i < n + 1 => Q(i) < data
  BY <1>2, <1>6, <1>8
<1>16. Ordered'
  BY <1>2, <1>10, <1>11, <1>14, <1>15 DEF Ordered
<1>17. InTurn'
  BY <1>1, <1>2, <1>5, <1>6, <1>9, <1>10, <1>11, <1>13 DEF InTurn
<1> QED
  BY <1>4, <1>16, <1>17

(* The first byte of the ring is polled.                                   *)
LEMMA ByteTaken ==
  ASSUME RingType, Ordered, InTurn, head # tail,
         head' = After(head), taken' = buf[head],
         UNCHANGED <<buf, tail, sent, data, full, irr, spoiled>>
  PROVE  RingType' /\ Ordered' /\ InTurn'
<1> DEFINE n == Count(head, tail)
           P(k) == Item(buf, head, taken, k)
           Q(k) == Item(buf', head', taken', k)
<1>1. head \in Slots /\ tail \in Slots /\ buf \in [Slots -> Nat] /\ data \in Nat
      /\ sent = data /\ taken \in Nat
  BY DEF RingType
<1>2. n \in 1..(Cap - 1) /\ n' = n - 1
  BY <1>1, TakeSlot DEF Count
<1>3. Slot(head, 1) = head /\ \A k \in 1..(n - 1) : Slot(After(head), k) = Slot(head, k + 1)
  BY <1>1, TakeSlot
<1>4. RingType'
  BY <1>1, AfterIs DEF RingType
<1>5. \A k \in 0..(n - 1) : Q(k) = P(k + 1)
  <2> SUFFICES ASSUME NEW k \in 0..(n - 1) PROVE Q(k) = P(k + 1)
    OBVIOUS
  <2>1. CASE k = 0
    BY <2>1, <1>3 DEF Item
  <2>2. CASE k # 0
    <3>1. Slot(head', k) = Slot(head, k + 1)
      BY <2>2, <1>2, <1>3
    <3> QED
      BY <3>1, <2>2 DEF Item
  <2> QED
    BY <2>1, <2>2
<1>6. \A k \in 0..n : P(k) \in Nat
  BY ItemType
<1>7. /\ \A i, j \in 0..n : i < j => P(i) <= P(j)
      /\ \A i, j \in 0..n : i + 2 <= j => P(i) < P(j)
      /\ \A i \in 0..n : P(i) <= data
      /\ full => \A i \in 0..n : P(i) < data
      /\ irr => \A i \in 0..n : i < n => P(i) < data
  BY DEF Ordered
<1>8. ~spoiled => /\ \A i \in 0..n : P(i) = taken + i
                  /\ data = taken + n + (IF full THEN 1 ELSE 0)
  BY <1>1 DEF InTurn
<1>9. n' = Count(head, tail)' /\ \A k : Q(k) = Item(buf', head', taken', k)
  OBVIOUS
<1>10. taken' = P(1)
  BY <1>3 DEF Item
<1> HIDE DEF n, P, Q
<1>11. \A i \in 0..(n - 1) : i + 1 \in 0..n
  BY <1>2
<1>12. /\ \A i, j \in 0..(n - 1) : i < j => Q(i) <= Q(j)
       /\ \A i, j \in 0..(n - 1) : i + 2 <= j => Q(i) < Q(j)
       /\ \A i \in 0..(n - 1) : Q(i) <= data
       /\ full => \A i \in 0..(n - 1) : Q(i) < data
       /\ irr => \A i \in 0..(n - 1) : i < n - 1 => Q(i) < data
  BY <1>2, <1>5, <1>7, <1>11
<1>13. Ordered'
  BY <1>2, <1>9, <1>12 DEF Ordered
<1>14. InTurn'
  BY <1>1, <1>2, <1>5, <1>8, <1>9, <1>10, <1>11 DEF InTurn
<1> QED
  BY <1>4, <1>13, <1>14

(* The module's buffer is new and empty, and was before.                   *)
LEMMA RingReset ==
  ASSUME RingType, Ordered, InTurn, head = tail,
         head' = 0, tail' = 0, buf' = [i \in Slots |-> 0],
         UNCHANGED <<taken, sent, data, full, irr, spoiled>>
  PROVE  RingType' /\ Ordered' /\ InTurn'
<1>1. 0 \in Slots
  BY Ps2Assumption DEF Slots
<1>2. RingType'
  BY <1>1 DEF RingType
<1>3. Count(head, tail) = 0 /\ Count(head, tail)' = 0
  <2>1. Count(head, tail) = 0
    BY CountIs DEF RingType, Slots
  <2>2. Count(0, 0) = 0
    BY <1>1, CountIs
  <2> QED
    BY <2>1, <2>2
<1>4. Item(buf, head, taken, 0) = taken /\ Item(buf, head, taken, 0)' = taken
  BY DEF Item
<1>5. taken <= data /\ (full => taken < data)
  BY <1>3, <1>4 DEF Ordered
<1>5a. /\ Count(head', tail') = 0 /\ Item(buf', head', taken', 0) = taken
       /\ UNCHANGED <<data, full>>
  BY <1>3, <1>4
<1>5b. /\ \A i, j \in 0..0 : i = 0 /\ j = 0 /\ ~ (i < j) /\ ~ (i + 2 <= j)
       /\ \A i \in 0..0 : i = 0
  OBVIOUS
<1>5c. Ordered'
  BY <1>5, <1>5a, <1>5b DEF Ordered
<1>6. InTurn'
  BY <1>3, <1>4 DEF InTurn
<1> QED
  BY <1>2, <1>5c, <1>6
----------------------------------------------------------------------------
LEMMA InitPipe == Init => PipeInv
<1> SUFFICES ASSUME Init PROVE PipeInv
  OBVIOUS
<1>1. 0 \in Slots
  BY Ps2Assumption DEF Slots
<1>2. LineInv /\ bios_masks \in BOOLEAN
  BY InitLine DEF Init, PicInit
<1>3. RingType /\ Unused
  BY <1>1 DEF Init, RingType, Unused
<1>4. Count(head, tail) = 0
  <2>1. Count(0, 0) = 0
    BY <1>1, CountIs
  <2> QED
    BY <2>1 DEF Init
<1>5. Item(buf, head, taken, 0) = 0 /\ data = 0 /\ taken = 0 /\ sent = 0 /\ ~full /\ ~irr
  BY DEF Item, Init
<1>6. /\ \A i, j \in 0..0 : i = 0 /\ j = 0 /\ ~ (i < j) /\ ~ (i + 2 <= j)
      /\ \A i \in 0..0 : i = 0
  OBVIOUS
<1>7. Ordered
  BY <1>4, <1>5, <1>6 DEF Ordered
<1>8. InTurn
  BY <1>4, <1>5, <1>6 DEF InTurn
<1> QED
  BY <1>2, <1>3, <1>7, <1>8 DEF PipeInv

LEMMA StepPipe ==
  ASSUME PipeInv, [Next]_vars
  PROVE  PipeInv'
<1>0. /\ LineInv' /\ bios_masks' \in BOOLEAN
      /\ LineInv /\ RingType /\ Ordered /\ InTurn /\ Unused
  BY StepLine DEF PipeInv
<1>1. /\ full \in BOOLEAN /\ irr \in BOOLEAN /\ spoiled \in BOOLEAN
      /\ head \in Slots /\ tail \in Slots
  BY <1>0 DEF RingType
<1> SUFFICES RingType' /\ Ordered' /\ InTurn' /\ Unused'
  BY <1>0 DEF PipeInv
<1>2. CASE UNCHANGED <<irr, sent, data, full, off, module, buf, head, tail, taken, spoiled>>
  BY <1>0, <1>1, <1>2, RingAlone DEF Unused
<1>3. CASE UNCHANGED vars
  BY <1>2, <1>3 DEF vars, picVars, kbVars, ghosts
<1>4. CASE \E a \in Typings : Types(a)
  BY <1>2, <1>4 DEF Types, picVars, kbVars, ghosts
<1>5. CASE Receives
  <2>1. /\ ~full /\ UNCHANGED <<buf, head, tail, taken, spoiled, module, off>>
        /\ sent' = sent + 1 /\ data' = sent + 1 /\ full' = TRUE /\ irr' = TRUE
    BY <1>5 DEF Receives, Rise, kbVars, ghosts
  <2> QED
    BY <2>1, <1>0, ByteArrives DEF Unused
<1>6. CASE Isr
  <2>1. /\ irr /\ irr' = FALSE /\ full' = FALSE
        /\ UNCHANGED <<head, taken, sent, data, module, off>>
        /\ spoiled' = (spoiled \/ (head = After(tail)) \/ ~full)
    BY <1>6 DEF Isr, Serves, Serve, Spoils, Full
  <2>2. Unused'
    <3>1. module = "loaded"
      BY <1>6, <1>0 DEF Isr, Serves, LineInv
    <3> QED
      BY <3>1, <2>1, <1>0 DEF Unused
  <2>3. CASE After(tail) = head
    <3>1. UNCHANGED <<buf, tail>> /\ spoiled' = TRUE
      BY <1>6, <2>1, <2>3 DEF Isr, Full
    <3> QED
      BY <1>0, <1>1, <2>1, <2>2, <3>1, RingAlone
  <2>4. CASE After(tail) # head
    <3>1. PutByte
      BY <1>6, <2>4 DEF Isr, Full
    <3> QED
      BY <1>0, <1>1, <2>1, <2>2, <2>4, <3>1, BytePut
  <2> QED
    BY <2>3, <2>4
<1>7. CASE IrqSave
  BY <1>7, <1>0, <1>1, RingAlone DEF IrqSave, picVars, kbVars, ghosts, Unused
<1>8. CASE Poll
  <2>1. /\ head # tail /\ head' = After(head) /\ taken' = buf[head]
        /\ off /\ off' = FALSE
        /\ UNCHANGED <<buf, tail, sent, data, full, irr, spoiled, module>>
    BY <1>8 DEF Poll, picVars
  <2> QED
    BY <2>1, <1>0, ByteTaken DEF Unused
<1>9. CASE PollNothing
  <2>1. /\ head = tail /\ off /\ off' = FALSE
        /\ UNCHANGED <<head, sent, data, module, taken, spoiled>>
    BY <1>9 DEF PollNothing, ghosts
  <2>2. Unused'
    BY <2>1, <1>0 DEF Unused
  <2>3. CASE Fallback
    <3>1. PutByte /\ full /\ full' = FALSE /\ irr' \in {irr, FALSE}
      BY <1>9, <2>3 DEF PollNothing, Fallback
    <3>2. After(tail) # head
      BY <1>1, <2>1, AfterIs, Ps2Assumption DEF Slots
    <3> QED
      BY <1>0, <1>1, <2>1, <2>2, <3>1, <3>2, BytePut
  <2>4. CASE ~Fallback
    <3>1. UNCHANGED <<buf, tail, full, irr>>
      BY <1>9, <2>4 DEF PollNothing
    <3> QED
      BY <1>0, <1>1, <2>1, <2>2, <3>1, RingAlone
  <2> QED
    BY <2>3, <2>4
<1>10. CASE BiosEnter
  <2>1. irr' = FALSE /\ UNCHANGED <<sent, data, full, off, module, buf, head, tail, taken, spoiled>>
    BY <1>10 DEF BiosEnter, ResetBiosDefaults, Remap, kbVars, ghosts
  <2> QED
    BY <2>1, <1>0, <1>1, RingAlone DEF Unused
<1>11. CASE BiosIsr
  <2>1. /\ irr' = FALSE /\ full' = FALSE /\ spoiled' = (spoiled \/ full)
        /\ UNCHANGED <<sent, data, off, module, buf, head, tail, taken>>
    BY <1>11 DEF BiosIsr, Serve, kbVars
  <2> QED
    BY <2>1, <1>0, <1>1, RingAlone DEF Unused
<1>12. CASE BiosLeave
  <2>1. irr' = FALSE /\ UNCHANGED <<sent, data, full, off, module, buf, head, tail, taken, spoiled>>
    BY <1>12 DEF BiosLeave, SaveAndRestore, Remap, kbVars, ghosts
  <2> QED
    BY <2>1, <1>0, <1>1, RingAlone DEF Unused
<1>13. CASE ModInit
  <2>1. /\ module = "out" /\ head' = 0 /\ tail' = 0 /\ buf' = [i \in Slots |-> 0]
        /\ ~off /\ UNCHANGED <<irr, sent, data, full, off, taken, spoiled>>
    BY <1>13 DEF ModInit, SetMask, picVars, ghosts
  <2>2. Unused'
    BY <2>1 DEF Unused
  <2> QED
    BY <2>1, <2>2, <1>0, RingReset DEF Unused
<1>14. CASE ModDeinit
  <2>1. /\ UNCHANGED <<irr, sent, data, full, off, buf, head, tail, taken>>
        /\ ~off /\ module' # "out"
        /\ spoiled' = (spoiled \/ head # tail \/ last_key = E0 \/ mods # {})
    BY <1>14 DEF ModDeinit, SetMask, kbVars
  <2> QED
    BY <2>1, <1>0, <1>1, RingAlone DEF Unused
<1> QED
  BY <1>3, <1>4, <1>5, <1>6, <1>7, <1>8, <1>9, <1>10, <1>11, <1>12, <1>13, <1>14 DEF Next

(* The interrupt, the fall-back and rmmod keep the pipe's invariant.       *)
THEOREM PipeInvariant == Spec => []PipeInv
<1>1. PipeInv /\ [Next]_vars => PipeInv'
  BY StepPipe
<1> QED
  BY InitPipe, <1>1, PTL DEF Spec

(* What Pipe is, place by place.                                           *)
LEMMA PipeIs ==
  ASSUME RingType
  PROVE  /\ DOMAIN Pipe = 1..(Count(head, tail) + 1 + (IF full THEN 1 ELSE 0))
         /\ Len(Pipe) = Count(head, tail) + 1 + (IF full THEN 1 ELSE 0)
         /\ \A i \in 1..(Count(head, tail) + 1) : Pipe[i] = Item(buf, head, taken, i - 1)
         /\ full => Pipe[Count(head, tail) + 2] = data
<1> DEFINE n == Count(head, tail)
           last == IF full THEN <<data>> ELSE <<>>
<1>1. n \in 0..(Cap - 1) /\ n \in Nat
  BY CountIs DEF RingType
<1>2. Ring = [k \in 1..n |-> buf[Slot(head, k)]]
  BY DEF Ring, Count, Slot
<1>3. \A k \in 1..n : buf[Slot(head, k)] \in Nat
  <2>1. \A k \in 1..n : Slot(head, k) \in Slots
    BY <1>1, SlotIs, Ps2Assumption DEF RingType
  <2> QED
    BY <2>1 DEF RingType
<1> HIDE DEF n
<1>4. Ring \in Seq(Nat) /\ Len(Ring) = n /\ \A k \in 1..n : Ring[k] = buf[Slot(head, k)]
  BY <1>1, <1>2, <1>3
<1>5. <<taken>> \in Seq(Nat) /\ Len(<<taken>>) = 1
  BY DEF RingType
<1>6. /\ last \in Seq(Nat) /\ Len(last) = IF full THEN 1 ELSE 0
      /\ full => last[1] = data
  BY DEF RingType
<1> DEFINE s == <<taken>> \o Ring
<1>7. /\ s \in Seq(Nat) /\ Len(s) = 1 + n
      /\ \A i \in 1..(1 + n) : s[i] = IF i <= 1 THEN <<taken>>[i] ELSE Ring[i - 1]
  BY <1>4, <1>5, ConcatProperties
<1> HIDE DEF s, last
<1>8. /\ s \o last \in Seq(Nat) /\ Len(s \o last) = 1 + n + Len(last)
      /\ \A i \in 1..(1 + n + Len(last)) :
           (s \o last)[i] = IF i <= 1 + n THEN s[i] ELSE last[i - (1 + n)]
  <2>1. /\ s \o last \in Seq(Nat) /\ Len(s \o last) = Len(s) + Len(last)
        /\ \A i \in 1..(Len(s) + Len(last)) :
             (s \o last)[i] = IF i <= Len(s) THEN s[i] ELSE last[i - Len(s)]
    BY <1>6, <1>7, ConcatProperties
  <2> QED
    BY <2>1, <1>7
<1>9. Pipe = s \o last
  BY DEF Pipe, s, last
<1>10. DOMAIN Pipe = 1..(n + 1 + (IF full THEN 1 ELSE 0)) /\ Len(Pipe) = n + 1 + (IF full THEN 1 ELSE 0)
  BY <1>1, <1>6, <1>8, <1>9, LenProperties
<1>11. ASSUME NEW i \in 1..(n + 1) PROVE Pipe[i] = Item(buf, head, taken, i - 1)
  <2>1. Pipe[i] = s[i]
    BY <1>1, <1>6, <1>8, <1>9
  <2>2. CASE i = 1
    BY <2>1, <2>2, <1>1, <1>7 DEF Item
  <2>3. CASE i # 1
    <3>1. i - 1 \in 1..n /\ i - 1 # 0
      BY <2>3, <1>1
    <3>2. s[i] = Ring[i - 1]
      BY <2>3, <1>1, <1>7
    <3> QED
      BY <2>1, <3>1, <3>2, <1>4 DEF Item
  <2> QED
    BY <2>2, <2>3
<1>12. full => Pipe[n + 2] = data
  BY <1>1, <1>6, <1>8, <1>9
<1> QED
  BY <1>10, <1>11, <1>12 DEF n

(* Interrupt and fall-back keep the order of the bytes, and none is in the *)
(* ring a third time, for any ring, keys and order of the steps.           *)
THEOREM PipeInOrder == Spec => []InOrder
<1>1. PipeInv => InOrder
  <2> SUFFICES ASSUME PipeInv
               PROVE  /\ \A i, j \in DOMAIN Pipe : i < j => Pipe[i] <= Pipe[j]
                      /\ \A i \in DOMAIN Pipe : i + 2 \in DOMAIN Pipe => Pipe[i] < Pipe[i + 2]
    BY DEF InOrder
  <2> DEFINE n == Count(head, tail)
             m == n + 1 + (IF full THEN 1 ELSE 0)
             P(k) == Item(buf, head, taken, k)
  <2>1. RingType /\ Ordered /\ n \in Nat /\ data \in Nat
    BY CountIs DEF PipeInv, RingType
  <2>2. /\ DOMAIN Pipe = 1..m
        /\ \A i \in 1..(n + 1) : Pipe[i] = P(i - 1)
        /\ full => Pipe[n + 2] = data
    BY <2>1, PipeIs
  <2>3. /\ \A i, j \in 0..n : i < j => P(i) <= P(j)
        /\ \A i, j \in 0..n : i + 2 <= j => P(i) < P(j)
        /\ \A i \in 0..n : P(i) <= data
        /\ full => \A i \in 0..n : P(i) < data
    BY <2>1 DEF Ordered
  <2> HIDE DEF n, P
  <2>4. \A i \in 1..m : i - 1 \in 0..n \/ (full /\ i = n + 2)
    BY <2>1
  <2>5. ASSUME NEW i \in 1..m, NEW j \in 1..m, i < j
        PROVE  Pipe[i] <= Pipe[j] /\ (j = i + 2 => Pipe[i] < Pipe[j])
    <3>1. i - 1 \in 0..n /\ i \in 1..(n + 1) /\ Pipe[i] = P(i - 1)
      BY <2>1, <2>2, <2>4, <2>5
    <3>2. CASE j - 1 \in 0..n
      <4>1. j \in 1..(n + 1) /\ Pipe[j] = P(j - 1) /\ i - 1 < j - 1
        BY <2>1, <2>2, <2>5, <3>2
      <4>2. j = i + 2 => i - 1 + 2 <= j - 1
        BY <2>5
      <4> QED
        BY <3>1, <3>2, <4>1, <4>2, <2>3
    <3>3. CASE full /\ j = n + 2
      BY <3>1, <3>3, <2>2, <2>3
    <3> QED
      BY <3>2, <3>3, <2>4
  <2> QED
    BY <2>1, <2>2, <2>5
<1> QED
  BY <1>1, PipeInvariant, PTL

(* Unless a byte was lost or came twice, all the bytes sent are polled,    *)
(* each once and in turn, however interrupts, BIOS calls and polls come.   *)
THEOREM BytesInTurn == Spec => []ByteForByte
<1>1. PipeInv => ByteForByte
  <2> SUFFICES ASSUME PipeInv, ~spoiled
               PROVE  /\ Pipe = [i \in DOMAIN Pipe |-> (taken + i) - 1]
                      /\ Pipe[Len(Pipe)] = sent
    BY DEF ByteForByte
  <2> DEFINE n == Count(head, tail)
             m == n + 1 + (IF full THEN 1 ELSE 0)
             P(k) == Item(buf, head, taken, k)
  <2>1. RingType /\ n \in Nat /\ data = sent /\ sent \in Nat /\ taken \in Nat
    BY CountIs DEF PipeInv, RingType
  <2>2. /\ DOMAIN Pipe = 1..m /\ Len(Pipe) = m
        /\ \A i \in 1..(n + 1) : Pipe[i] = P(i - 1)
        /\ full => Pipe[n + 2] = data
    BY <2>1, PipeIs
  <2>3. /\ \A i \in 0..n : P(i) = taken + i
        /\ sent = taken + n + (IF full THEN 1 ELSE 0)
    BY DEF PipeInv, InTurn
  <2> HIDE DEF n, P
  <2>4. ASSUME NEW i \in 1..m PROVE Pipe[i] = (taken + i) - 1
    <3>1. CASE i \in 1..(n + 1)
      <4>1. i - 1 \in 0..n
        BY <3>1, <2>1
      <4> QED
        BY <3>1, <4>1, <2>1, <2>2, <2>3
    <3>2. CASE full /\ i = n + 2
      BY <3>2, <2>1, <2>2, <2>3
    <3> QED
      BY <3>1, <3>2, <2>1
  <2>5. m \in 1..m /\ sent = (taken + m) - 1
    BY <2>1, <2>3
  <2>6. Pipe = [i \in DOMAIN Pipe |-> Pipe[i]]
    BY DEF Pipe
  <2> HIDE DEF m
  <2> QED
    BY <2>2, <2>4, <2>5, <2>6
<1> QED
  BY <1>1, PipeInvariant, PTL

----------------------------------------------------------------------------
(* What the decoder makes of the bytes.  The reference flattens sequences, *)
(* of the bytes and of the events of each key: what one key more adds.     *)

(* The least element of a set of numbers: induction without an operator.   *)
LEMMA LeastElement ==
  ASSUME NEW T \in SUBSET Nat, T # {}
  PROVE  \E m \in T : \A k \in T : m <= k
<1> DEFINE R == {ss \in Nat \X Nat : ss[1] < ss[2]}
<1>1. IsWellFoundedOn(R, Nat)
  BY NatLessThanWellFounded, Zenon DEF OpToRel
<1>2. PICK x \in T : \A y \in T : ~ (<<y, x>> \in R)
  BY <1>1, WFMin
<1>3. ASSUME NEW y \in T PROVE x <= y
  <2>1. ~ (y < x)
    BY <1>2
  <2> QED
    BY <2>1
<1> QED
  BY <1>3

(* What FlattenSeq computes up to each place.                              *)
Flattens(f, s, n) == \A i \in 1..n : f[i] = IF i = 1 THEN s[i] ELSE f[i - 1] \o s[i]

FlattenOf(f, s, n) == f = [i \in 1..n |-> IF i = 1 THEN s[i] ELSE f[i - 1] \o s[i]]

LEMMA FlattenExists ==
  ASSUME NEW n \in Nat, NEW s
  PROVE  \E f : FlattenOf(f, s, n)
<1> DEFINE Is(f, m) == FlattenOf(f, s, m)
           T == {m \in Nat : ~ \E f : Is(f, m)}
<1>1. T = {}
  <2> SUFFICES ASSUME T # {} PROVE FALSE
    OBVIOUS
  <2>1. PICK m \in T : \A k \in T : m <= k
    <3>1. T \in SUBSET Nat
      OBVIOUS
    <3> HIDE DEF T
    <3> QED
      BY <3>1, LeastElement
  <2>2. m # 0
    <3>1. Is([i \in 1..0 |-> 0], 0)
      BY DEF FlattenOf
    <3> HIDE DEF Is
    <3> QED
      BY <3>1, <2>1
  <2>3. m \in Nat /\ m - 1 \in Nat
    BY <2>1, <2>2
  <2>4. PICK f : Is(f, m - 1)
    <3>1. m - 1 \notin T
      <4> HIDE DEF T
      <4> QED
        BY <2>1, <2>3
    <3> HIDE DEF Is
    <3> QED
      BY <3>1, <2>3
  <2>5. \A i \in 1..(m - 1) : f[i] = IF i = 1 THEN s[i] ELSE f[i - 1] \o s[i]
    BY <2>4 DEF FlattenOf
  <2> DEFINE g == [i \in 1..m |-> IF i = 1 THEN s[i] ELSE f[i - 1] \o s[i]]
  <2>6. \A i \in 1..(m - 1) : g[i] = f[i]
    BY <2>3, <2>5
  <2>7. \A i \in 1..m : i # 1 => g[i - 1] = f[i - 1]
    <3> HIDE DEF g
    <3> QED
      BY <2>3, <2>6
  <2>8. ASSUME NEW i \in 1..m
        PROVE  (IF i = 1 THEN s[i] ELSE f[i - 1] \o s[i]) = IF i = 1 THEN s[i] ELSE g[i - 1] \o s[i]
    <3> HIDE DEF g
    <3> QED
      BY <2>7
  <2>9. Is(g, m)
    BY <2>8 DEF FlattenOf
  <2> HIDE DEF Is, g
  <2> QED
    BY <2>1, <2>9
<1>2. n \notin T
  BY <1>1
<1> QED
  BY <1>2

LEMMA FlattensSame ==
  ASSUME NEW n \in Nat, NEW s, NEW t, NEW f, NEW g,
         \A i \in 1..n : s[i] = t[i], Flattens(f, s, n), Flattens(g, t, n)
  PROVE  \A i \in 1..n : f[i] = g[i]
<1> DEFINE T == {i \in 1..n : f[i] # g[i]}
<1>1. T = {}
  <2> SUFFICES ASSUME T # {} PROVE FALSE
    OBVIOUS
  <2>1. PICK m \in T : \A k \in T : m <= k
    <3>1. T \in SUBSET Nat
      OBVIOUS
    <3> HIDE DEF T
    <3> QED
      BY <3>1, LeastElement
  <2>2. m \in 1..n /\ f[m] # g[m] /\ s[m] = t[m]
    BY <2>1
  <2>3. f[m] = (IF m = 1 THEN s[m] ELSE f[m - 1] \o s[m]) /\ g[m] = IF m = 1 THEN t[m] ELSE g[m - 1] \o t[m]
    BY <2>2 DEF Flattens
  <2>4. m # 1 /\ f[m - 1] # g[m - 1]
    BY <2>2, <2>3
  <2>5. m - 1 \in T
    BY <2>2, <2>4
  <2> HIDE DEF T
  <2> QED
    BY <2>1, <2>2, <2>5
<1> QED
  BY <1>1

LEMMA FlattensType ==
  ASSUME NEW S, NEW s \in Seq(Seq(S)), NEW f, Flattens(f, s, Len(s))
  PROVE  \A i \in 1..Len(s) : f[i] \in Seq(S)
<1> DEFINE T == {i \in 1..Len(s) : f[i] \notin Seq(S)}
<1>1. T = {}
  <2> SUFFICES ASSUME T # {} PROVE FALSE
    OBVIOUS
  <2>1. PICK m \in T : \A k \in T : m <= k
    <3>1. T \in SUBSET Nat
      OBVIOUS
    <3> HIDE DEF T
    <3> QED
      BY <3>1, LeastElement
  <2>2. m \in 1..Len(s) /\ f[m] \notin Seq(S) /\ s[m] \in Seq(S)
    BY <2>1
  <2>3. f[m] = IF m = 1 THEN s[m] ELSE f[m - 1] \o s[m]
    BY <2>2 DEF Flattens
  <2>4. m # 1
    BY <2>2, <2>3
  <2>5. f[m - 1] \notin Seq(S)
    <3> SUFFICES ASSUME f[m - 1] \in Seq(S) PROVE FALSE
      OBVIOUS
    <3>1. f[m - 1] \o s[m] \in Seq(S)
      BY <2>2, ConcatProperties
    <3> QED
      BY <3>1, <2>2, <2>3, <2>4
  <2>6. m - 1 \in T
    BY <2>2, <2>4, <2>5
  <2> HIDE DEF T
  <2> QED
    BY <2>1, <2>2, <2>6
<1> QED
  BY <1>1

(* FlattenSeq is the last of them.                                         *)
LEMMA FlattenIs ==
  ASSUME NEW S, NEW s \in Seq(Seq(S)), Len(s) # 0
  PROVE  \E f : Flattens(f, s, Len(s)) /\ FlattenSeq(s) = f[Len(s)]
<1> DEFINE f == CHOOSE g : FlattenOf(g, s, Len(s))
<1>1. FlattenSeq(s) = f[Len(s)]
  BY DEF FlattenSeq, FlattenOf
<1>2. FlattenOf(f, s, Len(s))
  <2>1. Len(s) \in Nat
    OBVIOUS
  <2>2. \E g : FlattenOf(g, s, Len(s))
    BY <2>1, FlattenExists
  <2> QED
    BY <2>2
<1> HIDE DEF f
<1>3. Flattens(f, s, Len(s))
  BY <1>2 DEF Flattens, FlattenOf
<1> QED
  BY <1>1, <1>3

LEMMA FlattenNone == FlattenSeq(<<>>) = <<>>
BY DEF FlattenSeq

(* A sequence more is flattened behind the others.                         *)
LEMMA FlattenAppend ==
  ASSUME NEW S, NEW s \in Seq(Seq(S)), NEW e \in Seq(S)
  PROVE  /\ FlattenSeq(s) \in Seq(S)
         /\ FlattenSeq(Append(s, e)) = FlattenSeq(s) \o e
<1>1. FlattenSeq(<<>>) = <<>>
  BY FlattenNone
<1> DEFINE t == Append(s, e)
           n == Len(s)
<1>2. /\ t \in Seq(Seq(S)) /\ Len(t) = n + 1 /\ n \in Nat
      /\ \A i \in 1..n : t[i] = s[i]
      /\ t[n + 1] = e
  OBVIOUS
<1> HIDE DEF t
<1>3. PICK g : Flattens(g, t, n + 1) /\ FlattenSeq(t) = g[n + 1]
  <2>1. Len(t) # 0
    BY <1>2
  <2> QED
    BY <2>1, <1>2, FlattenIs
<1>4. g[n + 1] = IF n = 0 THEN e ELSE g[n] \o e
  <2>1. n + 1 \in 1..(n + 1) /\ (n + 1) - 1 = n /\ (n + 1 = 1 <=> n = 0)
    BY <1>2
  <2> HIDE DEF n
  <2> QED
    BY <2>1, <1>2, <1>3 DEF Flattens
<1>5. CASE n = 0
  <2>1. s = <<>>
    BY <1>5
  <2>2. <<>> \o e = e
    BY ConcatEmptySeq
  <2>3. FlattenSeq(t) = e
    BY <1>3, <1>4, <1>5
  <2>4. FlattenSeq(s) = <<>> /\ <<>> \in Seq(S)
    BY <2>1, <1>1
  <2> HIDE DEF n
  <2> QED
    BY <2>2, <2>3, <2>4, <1>1 DEF t
<1>6. CASE n # 0
  <2>1. PICK f : Flattens(f, s, n) /\ FlattenSeq(s) = f[n]
    BY <1>6, FlattenIs
  <2>2. f[n] \in Seq(S)
    BY <2>1, <1>2, <1>6, FlattensType
  <2>3. f[n] = g[n]
    <3>1. Flattens(g, t, n)
      BY <1>2, <1>3 DEF Flattens
    <3> HIDE DEF n
    <3>2. \A i \in 1..n : f[i] = g[i]
      BY <3>1, <2>1, <1>2, FlattensSame
    <3> QED
      BY <3>2, <1>2, <1>6
  <2>4. FlattenSeq(t) = FlattenSeq(s) \o e
    BY <2>1, <2>3, <1>3, <1>4, <1>6
  <2> QED
    BY <2>1, <2>2, <2>4, <1>1 DEF t
<1> QED
  BY <1>5, <1>6

(* What a list of keys sends: the bytes of one more come behind the rest.  *)
Sends(ks) == FlattenSeq([i \in DOMAIN ks |-> Bytes(ks[i])])
ByteType == [code : Keys \cup {E0}, press : BOOLEAN]

LEMMA BytesType ==
  ASSUME NEW a \in Typings
  PROVE  /\ Bytes(a) \in Seq(ByteType)
         /\ Len(Bytes(a)) = IF a.ext THEN 2 ELSE 1
<1>1. Scan(a) \in ByteType /\ Prefix \in ByteType
  BY DEF Typings, Scan, Prefix, ByteType
<1> QED
  BY <1>1 DEF Bytes

LEMMA IsSeq ==
  ASSUME NEW S, NEW n \in Nat, NEW f \in [1..n -> S]
  PROVE  f \in Seq(S) /\ Len(f) = n /\ DOMAIN f = 1..n
<1>1. f \in Seq(S)
  BY SeqDef
<1>2. DOMAIN f = 1..n
  OBVIOUS
<1> QED
  BY <1>1, <1>2

LEMMA SendsMore ==
  ASSUME NEW ks \in Seq(Typings), NEW a \in Typings
  PROVE  /\ Sends(ks) \in Seq(ByteType)
         /\ Sends(Append(ks, a)) = Sends(ks) \o Bytes(a)
<1> DEFINE s == [i \in DOMAIN ks |-> Bytes(ks[i])]
           bs == Append(ks, a)
           t == [i \in DOMAIN bs |-> Bytes(bs[i])]
<1>1. /\ bs \in Seq(Typings) /\ Len(bs) = Len(ks) + 1 /\ Len(ks) \in Nat
      /\ \A i \in 1..Len(ks) : bs[i] = ks[i] /\ ks[i] \in Typings
      /\ bs[Len(ks) + 1] = a
      /\ DOMAIN ks = 1..Len(ks) /\ DOMAIN bs = 1..(Len(ks) + 1)
  BY AppendProperties, LenProperties, ElementOfSeq
<1>2. s \in Seq(Seq(ByteType)) /\ Len(s) = Len(ks) /\ \A i \in 1..Len(ks) : s[i] = Bytes(ks[i])
  <2> HIDE DEF bs
  <2>1. \A i \in 1..Len(ks) : Bytes(ks[i]) \in Seq(ByteType)
    BY <1>1, BytesType
  <2>2. s \in [1..Len(ks) -> Seq(ByteType)]
    BY <2>1, <1>1
  <2>3. s \in Seq(Seq(ByteType)) /\ Len(s) = Len(ks)
    <3> HIDE DEF s
    <3> QED
      BY <2>2, <1>1, IsSeq
  <2> QED
    BY <2>3, <1>1
<1>3. Bytes(a) \in Seq(ByteType)
  BY BytesType
<1>4. t = Append(s, Bytes(a))
  <2> DEFINE r == Append(s, Bytes(a))
  <2>1. /\ r \in Seq(Seq(ByteType)) /\ Len(r) = Len(ks) + 1
        /\ \A i \in 1..Len(ks) : r[i] = s[i]
        /\ r[Len(ks) + 1] = Bytes(a)
    <3> HIDE DEF s
    <3> QED
      BY <1>2, <1>3, AppendProperties
  <2> HIDE DEF r, bs, s
  <2>2. r = [i \in 1..(Len(ks) + 1) |-> r[i]]
    BY <2>1, LenProperties
  <2>3. \A i \in 1..(Len(ks) + 1) : r[i] = Bytes(bs[i])
    <3>1. \A i \in 1..(Len(ks) + 1) : i \in 1..Len(ks) \/ i = Len(ks) + 1
      BY <1>1
    <3> QED
      BY <3>1, <2>1, <1>1, <1>2
  <2>4. t = r
    BY <2>2, <2>3, <1>1
  <2> QED
    BY <2>4 DEF r
<1>5. Sends(ks) = FlattenSeq(s) /\ Sends(bs) = FlattenSeq(t)
  BY DEF Sends
<1> HIDE DEF s, t
<1>7. /\ FlattenSeq(s) \in Seq(ByteType)
      /\ FlattenSeq(Append(s, Bytes(a))) = FlattenSeq(s) \o Bytes(a)
  BY <1>2, <1>3, FlattenAppend
<1> QED
  BY <1>4, <1>5, <1>7

(* The first keys of a list, and of a longer one.                          *)
LEMMA FirstKeys ==
  ASSUME NEW ks \in Seq(Typings), NEW n \in Nat, n <= Len(ks)
  PROVE  /\ SubSeq(ks, 1, n) \in Seq(Typings) /\ Len(SubSeq(ks, 1, n)) = n
         /\ \A i \in 1..n : SubSeq(ks, 1, n)[i] = ks[i]
<1>1. \A i \in 1..n : ks[i] \in Typings /\ (1 + i) - 1 = i
  BY LenProperties, ElementOfSeq
<1>2. (n - 1) + 1 = n /\ (n = 0 <=> ~ (1 <= n))
  OBVIOUS
<1>3. /\ SubSeq(ks, 1, n) \in Seq(Typings)
      /\ Len(SubSeq(ks, 1, n)) = IF 1 <= n THEN (n - 1) + 1 ELSE 0
      /\ \A i \in 1..((n - 1) + 1) : SubSeq(ks, 1, n)[i] = ks[(1 + i) - 1]
  BY <1>1, SubSeqProperties
<1> QED
  BY <1>1, <1>2, <1>3

LEMMA FirstOf ==
  ASSUME NEW ks \in Seq(Typings), NEW a \in Typings
  PROVE  /\ Append(ks, a) \in Seq(Typings) /\ Len(Append(ks, a)) = Len(ks) + 1
         /\ Append(ks, a)[Len(ks) + 1] = a
         /\ \A i \in 1..Len(ks) : Append(ks, a)[i] = ks[i]
         /\ \A n \in 0..Len(ks) : SubSeq(Append(ks, a), 1, n) = SubSeq(ks, 1, n)
         /\ SubSeq(ks, 1, Len(ks)) = ks
         /\ SubSeq(ks, 1, 0) = <<>>
<1> DEFINE bs == Append(ks, a)
<1>1. /\ bs \in Seq(Typings) /\ Len(bs) = Len(ks) + 1 /\ Len(ks) \in Nat
      /\ \A i \in 1..Len(ks) : bs[i] = ks[i] /\ ks[i] \in Typings
      /\ bs[Len(ks) + 1] = a
  BY AppendProperties, LenProperties, ElementOfSeq
<1> HIDE DEF bs
<1>2. ASSUME NEW n \in 0..Len(ks) PROVE SubSeq(bs, 1, n) = SubSeq(ks, 1, n)
  <2> DEFINE s == SubSeq(bs, 1, n)
             t == SubSeq(ks, 1, n)
  <2>1. s \in Seq(Typings) /\ Len(s) = n /\ \A i \in 1..n : s[i] = bs[i]
    <3>1. n <= Len(bs)
      BY <1>1
    <3> QED
      BY <3>1, <1>1, FirstKeys
  <2>2. t \in Seq(Typings) /\ Len(t) = n /\ \A i \in 1..n : t[i] = ks[i]
    BY <1>1, FirstKeys
  <2> HIDE DEF s, t
  <2>3. s = t
    <3>1. \A i \in 1..n : s[i] = t[i]
      BY <2>1, <2>2, <1>1
    <3> QED
      BY <3>1, <2>1, <2>2, SeqEqual
  <2> QED
    BY <2>3 DEF s, t
<1>3. SubSeq(ks, 1, Len(ks)) = ks
  BY SubSeqFull
<1>4. SubSeq(ks, 1, 0) = <<>>
  BY SubSeqEmpty
<1> QED
  BY <1>1, <1>2, <1>3, <1>4 DEF bs

LEMMA NextOf ==
  ASSUME NEW ks \in Seq(Typings), NEW n \in 0..Len(ks), n < Len(ks)
  PROVE  /\ ks[n + 1] \in Typings /\ n + 1 \in 1..Len(ks)
         /\ SubSeq(ks, 1, n) \in Seq(Typings) /\ Len(SubSeq(ks, 1, n)) = n
         /\ SubSeq(ks, 1, n + 1) = Append(SubSeq(ks, 1, n), ks[n + 1])
<1>1. ks[n + 1] \in Typings /\ n + 1 \in 1..Len(ks) /\ n \in Nat /\ Len(ks) \in Nat
  <2>1. Len(ks) \in Nat /\ n + 1 \in 1..Len(ks)
    BY LenProperties
  <2> QED
    BY <2>1, ElementOfSeq
<1> DEFINE s == SubSeq(ks, 1, n)
           r == SubSeq(ks, 1, n + 1)
           t == Append(s, ks[n + 1])
<1>2. s \in Seq(Typings) /\ Len(s) = n /\ \A i \in 1..n : s[i] = ks[i]
  BY <1>1, FirstKeys
<1>3. r \in Seq(Typings) /\ Len(r) = n + 1 /\ \A i \in 1..(n + 1) : r[i] = ks[i]
  <2>1. n + 1 \in Nat /\ n + 1 <= Len(ks)
    BY <1>1
  <2> QED
    BY <2>1, FirstKeys
<1> HIDE DEF s, r
<1>4. t \in Seq(Typings) /\ Len(t) = n + 1 /\ (\A i \in 1..n : t[i] = s[i]) /\ t[n + 1] = ks[n + 1]
  BY <1>1, <1>2, AppendProperties
<1> HIDE DEF t
<1>5. r = t
  <2>1. \A i \in 1..(n + 1) : r[i] = t[i]
    <3>1. \A i \in 1..(n + 1) : i \in 1..n \/ i = n + 1
      BY <1>1
    <3> QED
      BY <3>1, <1>2, <1>3, <1>4
  <2> QED
    BY <2>1, <1>3, <1>4, SeqEqual
<1> QED
  BY <1>1, <1>2, <1>5 DEF s, r, t

(* The bytes of each key lie behind those of the keys before it.           *)
Lies(ks, n) ==
  LET e == Len(Sends(SubSeq(ks, 1, n)))
  IN /\ e + Len(Bytes(ks[n + 1])) <= Len(Sends(ks))
     /\ \A j \in 1..Len(Bytes(ks[n + 1])) : Sends(ks)[e + j] = Bytes(ks[n + 1])[j]

LEMMA BytesLie ==
  ASSUME NEW ks \in Seq(Typings), NEW n \in 0..Len(ks), n < Len(ks)
  PROVE  Lies(ks, n)
<1> DEFINE All(bs) == \A m \in 0..Len(bs) : m < Len(bs) => Lies(bs, m)
           T == {l \in Nat : \E bs \in Seq(Typings) : Len(bs) = l /\ ~All(bs)}
<1>1. T = {}
  <2> SUFFICES ASSUME T # {} PROVE FALSE
    OBVIOUS
  <2>1. PICK l \in T : \A k \in T : l <= k
    <3>1. T \in SUBSET Nat
      OBVIOUS
    <3> HIDE DEF T
    <3> QED
      BY <3>1, LeastElement
  <2>2. PICK bs \in Seq(Typings) : Len(bs) = l /\ ~All(bs)
    BY <2>1
  <2>3. PICK m \in 0..Len(bs) : m < Len(bs) /\ ~Lies(bs, m)
    BY <2>2
  <2>4. PICK cs \in Seq(Typings), a \in Typings : bs = Append(cs, a)
    <3>1. bs # <<>>
      BY <2>3
    <3> QED
      BY <3>1, SequenceEmptyOrAppend
  <2>5. /\ Len(bs) = Len(cs) + 1 /\ bs[Len(cs) + 1] = a /\ Len(cs) \in Nat
        /\ \A i \in 1..Len(cs) : bs[i] = cs[i]
        /\ \A k \in 0..Len(cs) : SubSeq(bs, 1, k) = SubSeq(cs, 1, k)
        /\ SubSeq(cs, 1, Len(cs)) = cs
    BY <2>4, FirstOf
  <2>6. Sends(bs) = Sends(cs) \o Bytes(a) /\ Sends(cs) \in Seq(ByteType) /\ Bytes(a) \in Seq(ByteType)
    BY <2>4, SendsMore, BytesType
  <2>7. All(cs)
    <3>1. Len(cs) \notin T
      <4>1. Len(cs) < l
        BY <2>2, <2>5
      <4> HIDE DEF T
      <4> QED
        BY <4>1, <2>1, <2>2, <2>5
    <3> HIDE DEF All
    <3> QED
      BY <3>1, <2>5
  <2>8. /\ Len(Sends(bs)) = Len(Sends(cs)) + Len(Bytes(a))
        /\ Len(Sends(cs)) \in Nat /\ Len(Bytes(a)) \in Nat
        /\ \A i \in 1..Len(Sends(cs)) : Sends(bs)[i] = Sends(cs)[i]
        /\ \A j \in 1..Len(Bytes(a)) : Sends(bs)[Len(Sends(cs)) + j] = Bytes(a)[j]
    BY <2>6
  <2>9. CASE m = Len(cs)
    <3>1. bs[m + 1] = a /\ SubSeq(bs, 1, m) = cs
      BY <2>9, <2>5
    <3>2. Lies(bs, m)
      <4>1. Len(Sends(cs)) + Len(Bytes(a)) <= Len(Sends(bs))
        BY <2>8
      <4> QED
        BY <3>1, <4>1, <2>8, Zenon DEF Lies
    <3> QED
      BY <3>2, <2>3
  <2>10. CASE m # Len(cs)
    <3>1. m \in 0..Len(cs) /\ m < Len(cs) /\ m + 1 \in 1..Len(cs)
      <4>1. m \in 0..(Len(cs) + 1) /\ m < Len(cs) + 1 /\ Len(cs) \in Nat
        BY <2>3, <2>5
      <4> HIDE DEF All
      <4> QED
        BY <4>1, <2>10
    <3>2. bs[m + 1] = cs[m + 1] /\ SubSeq(bs, 1, m) = SubSeq(cs, 1, m)
      BY <3>1, <2>5
    <3>3. Lies(cs, m)
      BY <3>1, <2>7
    <3> DEFINE e == Len(Sends(SubSeq(cs, 1, m)))
               b == Bytes(cs[m + 1])
    <3>4. /\ SubSeq(cs, 1, m) \in Seq(Typings) /\ cs[m + 1] \in Typings
      BY <3>1, NextOf
    <3>5. e \in Nat /\ Len(b) \in Nat
      <4>1. Sends(SubSeq(cs, 1, m)) \in Seq(ByteType)
        BY <3>4, SendsMore
      <4>2. b \in Seq(ByteType)
        BY <3>4, BytesType
      <4> HIDE DEF b
      <4> QED
        BY <4>1, <4>2, LenProperties
    <3>6. e + Len(b) <= Len(Sends(cs)) /\ \A j \in 1..Len(b) : Sends(cs)[e + j] = b[j]
      BY <3>3 DEF Lies
    <3> HIDE DEF e, b
    <3>7. e + Len(b) <= Len(Sends(bs)) /\ \A j \in 1..Len(b) : Sends(bs)[e + j] = b[j]
      <4>1. \A j \in 1..Len(b) : e + j \in 1..Len(Sends(cs))
        BY <3>5, <3>6, <2>8
      <4>2. \A j \in 1..Len(b) : Sends(bs)[e + j] = b[j]
        BY <4>1, <3>6, <2>8
      <4>3. e + Len(b) <= Len(Sends(bs))
        BY <3>5, <3>6, <2>8
      <4> QED
        BY <4>2, <4>3
    <3>8. Lies(bs, m)
      BY <3>2, <3>7 DEF Lies, e, b
    <3> QED
      BY <3>8, <2>3
  <2> QED
    BY <2>9, <2>10
<1>2. Len(ks) \in Nat /\ Len(ks) \notin T
  BY <1>1, LenProperties
<1>3. All(ks)
  <2> HIDE DEF All
  <2> QED
    BY <1>2
<1> QED
  BY <1>3

(* The events of one key more come behind the others.                      *)
LEMMA ExpectedMore ==
  ASSUME NEW ks \in Seq(Typings), NEW a \in Typings
  PROVE  Expected(Append(ks, a)) =
           IF Keycode(a) = None THEN Expected(ks)
           ELSE Append(Expected(ks), [press |-> a.press, keycode |-> Keycode(a),
                                      mods |-> ModsAfter(Append(ks, a))])
<1> DEFINE bs == Append(ks, a)
           l == Len(ks)
           S == {Event(bs, i) : i \in 1..(l + 1)}
           s == [i \in DOMAIN ks |-> Events(ks, i)]
           t == [i \in DOMAIN bs |-> Events(bs, i)]
<1>1. /\ bs \in Seq(Typings) /\ Len(bs) = l + 1 /\ l \in Nat
      /\ \A i \in 1..l : bs[i] = ks[i]
      /\ bs[l + 1] = a
      /\ DOMAIN ks = 1..l /\ DOMAIN bs = 1..(l + 1)
  BY AppendProperties, LenProperties
<1>2. \A i \in 1..l : SubSeq(bs, 1, i) = SubSeq(ks, 1, i)
  BY <1>1, FirstOf
<1>3. SubSeq(bs, 1, l + 1) = bs
  BY <1>1, SubSeqFull
<1>4. \A i \in 1..(l + 1) : Event(bs, i) \in S
  OBVIOUS
<1> HIDE DEF bs, S
<1>5. \A i \in 1..(l + 1) : Events(bs, i) \in Seq(S)
  <2>1. \A x \in S : <<x>> \in Seq(S)
    OBVIOUS
  <2>2. <<>> \in Seq(S)
    OBVIOUS
  <2> QED
    BY <2>1, <2>2, <1>4 DEF Events
<1>6. \A i \in 1..l : Events(ks, i) = Events(bs, i) /\ i \in 1..(l + 1)
  <2>1. \A i \in 1..l : Event(ks, i) = Event(bs, i) /\ Keycode(ks[i]) = Keycode(bs[i])
    BY <1>1, <1>2 DEF Event
  <2>2. \A i \in 1..l : i \in 1..(l + 1)
    BY <1>1
  <2> QED
    BY <2>1, <2>2 DEF Events
<1>7. s \in Seq(Seq(S)) /\ Len(s) = l /\ \A i \in 1..l : s[i] = Events(bs, i)
  <2>1. s \in [1..l -> Seq(S)] /\ \A i \in 1..l : s[i] = Events(bs, i)
    BY <1>1, <1>5, <1>6
  <2> HIDE DEF s
  <2> QED
    BY <2>1, <1>1, IsSeq
<1>8. t = Append(s, Events(bs, l + 1))
  <2> DEFINE r == Append(s, Events(bs, l + 1))
  <2>0. Events(bs, l + 1) \in Seq(S)
    BY <1>1, <1>5
  <2>1. /\ r \in Seq(Seq(S)) /\ Len(r) = l + 1
        /\ \A i \in 1..l : r[i] = s[i]
        /\ r[l + 1] = Events(bs, l + 1)
    <3> HIDE DEF s
    <3> QED
      BY <1>7, <2>0, AppendProperties
  <2> HIDE DEF r, s
  <2>2. r = [i \in 1..(l + 1) |-> r[i]]
    BY <2>1, LenProperties
  <2>3. \A i \in 1..(l + 1) : r[i] = Events(bs, i)
    <3>1. \A i \in 1..(l + 1) : i \in 1..l \/ i = l + 1
      BY <1>1
    <3> QED
      BY <3>1, <2>1, <1>7
  <2>4. t = r
    BY <2>2, <2>3, <1>1
  <2> QED
    BY <2>4 DEF r
<1>9. Expected(ks) = FlattenSeq(s) /\ Expected(bs) = FlattenSeq(t)
  BY DEF Expected
<1> HIDE DEF s, t
<1> DEFINE e == Events(bs, l + 1)
<1>11. e \in Seq(S)
  BY <1>1, <1>5
<1> HIDE DEF e
<1>12. /\ FlattenSeq(s) \in Seq(S)
       /\ FlattenSeq(Append(s, e)) = FlattenSeq(s) \o e
  BY <1>7, <1>11, FlattenAppend
<1>13. Expected(bs) = Expected(ks) \o e /\ Expected(ks) \in Seq(S)
  BY <1>8, <1>9, <1>12 DEF e
<1>14. CASE Keycode(a) = None
  <2>1. e = <<>>
    BY <1>1, <1>14 DEF e, Events
  <2>2. Expected(bs) = Expected(ks)
    BY <2>1, <1>13, ConcatEmptySeq
  <2> QED
    BY <2>2, <1>14 DEF bs
<1>15. CASE Keycode(a) # None
  <2> DEFINE v == [press |-> a.press, keycode |-> Keycode(a), mods |-> ModsAfter(bs)]
  <2>1. e = <<v>>
    BY <1>1, <1>3, <1>15 DEF e, Events, Event
  <2>2. v \in S
    <3>1. v = Event(bs, l + 1)
      BY <1>1, <1>3 DEF Event
    <3> QED
      BY <3>1, <1>1, <1>4
  <2> HIDE DEF v
  <2>3. Expected(bs) = Append(Expected(ks), v)
    BY <2>1, <2>2, <1>13, AppendIsConcat
  <2> QED
    BY <2>3, <1>15 DEF bs, v
<1> QED
  BY <1>14, <1>15

LEMMA ModsAre ==
  ASSUME NEW ks
  PROVE  \A x : x \in ModsAfter(ks) <=>
           \/ x = "leftshift" /\ Down(ks, "LEFTSHIFT")
           \/ x = "rightshift" /\ Down(ks, "RIGHTSHIFT")
           \/ x = "leftalt" /\ Down(ks, "LEFTALT")
           \/ x = "rightalt" /\ Down(ks, "RIGHTALT")
           \/ x = "capslock" /\ Cardinality(Locks(ks)) % 2 = 1
<1>1. DOMAIN Held = {"LEFTSHIFT", "RIGHTSHIFT", "LEFTALT", "RIGHTALT"}
  BY DEF Held
<1>2. /\ Held["LEFTSHIFT"] = "leftshift" /\ Held["RIGHTSHIFT"] = "rightshift"
      /\ Held["LEFTALT"] = "leftalt" /\ Held["RIGHTALT"] = "rightalt"
  BY DEF Held
<1> DEFINE P == {Held[k] : k \in {h \in DOMAIN Held : Down(ks, h)}}
           L == IF Cardinality(Locks(ks)) % 2 = 1 THEN {"capslock"} ELSE {}
<1>3. ModsAfter(ks) = P \cup L
  BY DEF ModsAfter
<1>4. \A x : x \in P <=> \E k \in DOMAIN Held : Down(ks, k) /\ x = Held[k]
  OBVIOUS
<1> HIDE DEF P
<1>5. \A x : x \in P <=>
           \/ x = "leftshift" /\ Down(ks, "LEFTSHIFT")
           \/ x = "rightshift" /\ Down(ks, "RIGHTSHIFT")
           \/ x = "leftalt" /\ Down(ks, "LEFTALT")
           \/ x = "rightalt" /\ Down(ks, "RIGHTALT")
  BY <1>1, <1>2, <1>4
<1>6. \A x : x \in L <=> x = "capslock" /\ Cardinality(Locks(ks)) % 2 = 1
  OBVIOUS
<1> QED
  BY <1>3, <1>5, <1>6

(* What one key more does to the keys that are down and to caps lock.      *)
LEMMA DownMore ==
  ASSUME NEW ks \in Seq(Typings), NEW a \in Typings, NEW k
  PROVE  Down(Append(ks, a), k) <=> IF Keycode(a) = k THEN a.press ELSE Down(ks, k)
<1> DEFINE bs == Append(ks, a)
           l == Len(ks)
<1>1. /\ bs \in Seq(Typings) /\ Len(bs) = l + 1 /\ l \in Nat
      /\ \A i \in 1..l : bs[i] = ks[i]
      /\ bs[l + 1] = a
      /\ DOMAIN ks = 1..l /\ DOMAIN bs = 1..(l + 1)
  BY AppendProperties, LenProperties
<1> HIDE DEF bs, l
<1>2. /\ \A i \in DOMAIN bs : (i \in DOMAIN ks \/ i = l + 1) /\ i <= l + 1
      /\ \A i \in DOMAIN ks : i \in DOMAIN bs /\ l + 1 > i
      /\ l + 1 \in DOMAIN bs /\ ~(l + 1 > l + 1)
  BY <1>1
<1>3. CASE Keycode(a) = k
  <2>1. ASSUME a.press PROVE Down(bs, k)
    <3>1. \A j \in DOMAIN bs : ~(j > l + 1)
      BY <1>1
    <3> QED
      BY <2>1, <3>1, <1>1, <1>2, <1>3 DEF Down
  <2>2. ASSUME Down(bs, k) PROVE a.press
    <3>1. PICK i \in DOMAIN bs : /\ Keycode(bs[i]) = k /\ bs[i].press
                                 /\ \A j \in DOMAIN bs : j > i => Keycode(bs[j]) # k
      BY <2>2 DEF Down
    <3>2. i = l + 1
      BY <3>1, <1>1, <1>2, <1>3
    <3> QED
      BY <3>1, <3>2, <1>1
  <2> QED
    BY <2>1, <2>2, <1>3 DEF bs
<1>4. CASE Keycode(a) # k
  <2>1. ASSUME Down(ks, k) PROVE Down(bs, k)
    <3>1. PICK i \in DOMAIN ks : /\ Keycode(ks[i]) = k /\ ks[i].press
                                 /\ \A j \in DOMAIN ks : j > i => Keycode(ks[j]) # k
      BY <2>1 DEF Down
    <3>2. \A j \in DOMAIN bs : j > i => Keycode(bs[j]) # k
      BY <3>1, <1>1, <1>2, <1>4
    <3>3. i \in DOMAIN bs /\ bs[i] = ks[i]
      BY <1>1, <1>2
    <3> QED
      BY <3>1, <3>2, <3>3 DEF Down
  <2>2. ASSUME Down(bs, k) PROVE Down(ks, k)
    <3>1. PICK i \in DOMAIN bs : /\ Keycode(bs[i]) = k /\ bs[i].press
                                 /\ \A j \in DOMAIN bs : j > i => Keycode(bs[j]) # k
      BY <2>2 DEF Down
    <3>2. i # l + 1
      BY <3>1, <1>1, <1>4
    <3>3. i \in DOMAIN ks /\ bs[i] = ks[i]
      BY <3>2, <1>1, <1>2
    <3>4. \A j \in DOMAIN ks : j > i => Keycode(ks[j]) # k
      BY <3>1, <1>1, <1>2
    <3> QED
      BY <3>1, <3>3, <3>4 DEF Down
  <2> QED
    BY <2>1, <2>2, <1>4 DEF bs
<1> QED
  BY <1>3, <1>4

LEMMA LocksMore ==
  ASSUME NEW ks \in Seq(Typings), NEW a \in Typings
  PROVE  /\ Cardinality(Locks(ks)) \in Nat
         /\ Cardinality(Locks(Append(ks, a))) =
              Cardinality(Locks(ks)) + (IF Keycode(a) = "CAPSLOCK" /\ a.press THEN 1 ELSE 0)
<1> DEFINE bs == Append(ks, a)
           l == Len(ks)
           is == Keycode(a) = "CAPSLOCK" /\ a.press
<1>1. /\ bs \in Seq(Typings) /\ Len(bs) = l + 1 /\ l \in Nat
      /\ \A i \in 1..l : bs[i] = ks[i]
      /\ bs[l + 1] = a
      /\ DOMAIN ks = 1..l /\ DOMAIN bs = 1..(l + 1)
  BY AppendProperties, LenProperties
<1> HIDE DEF bs, l
<1>2. IsFiniteSet(Locks(ks))
  <2>1. IsFiniteSet(1..l)
    BY <1>1, FS_Interval
  <2>2. Locks(ks) \in SUBSET (1..l)
    BY <1>1 DEF Locks
  <2> QED
    BY <2>1, <2>2, FS_Subset
<1>3. Cardinality(Locks(ks)) \in Nat
  BY <1>2, FS_CardinalityType
<1>4. \A i \in 1..(l + 1) : i \in 1..l \/ i = l + 1
  BY <1>1
<1>5. \A i \in 1..l : i \in 1..(l + 1) /\ i # l + 1
  BY <1>1
<1>6. CASE is
  <2>1. Locks(bs) = Locks(ks) \cup {l + 1} /\ l + 1 \notin Locks(ks)
    BY <1>1, <1>4, <1>5, <1>6 DEF Locks
  <2> QED
    BY <2>1, <1>2, <1>3, <1>6, FS_AddElement DEF bs
<1>7. CASE ~is
  <2>1. Locks(bs) = Locks(ks)
    BY <1>1, <1>4, <1>5, <1>7 DEF Locks
  <2> QED
    BY <2>1, <1>3, <1>7 DEF bs
<1> QED
  BY <1>6, <1>7

(* Before any key there is nothing.                                        *)
LEMMA NoKeys == Sends(<<>>) = <<>> /\ Expected(<<>>) = <<>> /\ ModsAfter(<<>>) = {}
<1>1. ModsAfter(<<>>) = {}
  <2>1. Locks(<<>>) = {}
    BY DEF Locks
  <2>2. Cardinality(Locks(<<>>)) = 0
    BY <2>1, FS_EmptySet
  <2>3. \A k : ~Down(<<>>, k)
    BY DEF Down
  <2>4. Cardinality(Locks(<<>>)) % 2 # 1
    BY <2>2
  <2> QED
    BY <2>3, <2>4, ModsAre
<1>2. Sends(<<>>) = <<>>
  <2>1. [i \in DOMAIN <<>> |-> Bytes(<<>>[i])] = <<>>
    OBVIOUS
  <2> QED
    BY <2>1, FlattenNone DEF Sends
<1>3. Expected(<<>>) = <<>>
  <2>1. [i \in DOMAIN <<>> |-> Events(<<>>, i)] = <<>>
    OBVIOUS
  <2> QED
    BY <2>1, FlattenNone DEF Expected
<1> QED
  BY <1>1, <1>2, <1>3

(* The modifiers kept are those of the keys.                               *)
LEMMA ModsMore ==
  ASSUME NEW ks \in Seq(Typings), NEW a \in Typings
  PROVE  ModsAfter(Append(ks, a)) = Mods(ModsAfter(ks), a.press, Keycode(a))
<1> DEFINE k == Keycode(a)
           bs == Append(ks, a)
           odd == Cardinality(Locks(ks)) % 2 = 1
           odd2 == Cardinality(Locks(bs)) % 2 = 1
           ms == ModsAfter(ks)
           m2 == ModsAfter(bs)
<1>2. odd2 <=> IF k = "CAPSLOCK" /\ a.press THEN ~odd ELSE odd
  <2> DEFINE n == Cardinality(Locks(ks))
             n2 == Cardinality(Locks(bs))
  <2>1. n \in Nat /\ n2 = n + (IF k = "CAPSLOCK" /\ a.press THEN 1 ELSE 0)
    BY LocksMore
  <2> HIDE DEF n, n2
  <2>2. \A x \in Nat : (x + 1) % 2 = 1 <=> x % 2 # 1
    OBVIOUS
  <2> HIDE DEF k
  <2>3. n2 % 2 = 1 <=> IF k = "CAPSLOCK" /\ a.press THEN n % 2 # 1 ELSE n % 2 = 1
    BY <2>1, <2>2
  <2> QED
    BY <2>3 DEF n, n2
<1>3. \A h : Down(bs, h) <=> IF k = h THEN a.press ELSE Down(ks, h)
  BY DownMore
<1> DEFINE In(x, ps, o) ==
             \/ x = "leftshift" /\ Down(ps, "LEFTSHIFT")
             \/ x = "rightshift" /\ Down(ps, "RIGHTSHIFT")
             \/ x = "leftalt" /\ Down(ps, "LEFTALT")
             \/ x = "rightalt" /\ Down(ps, "RIGHTALT")
             \/ x = "capslock" /\ o
<1>4. (\A x : x \in ms <=> In(x, ks, odd)) /\ \A x : x \in m2 <=> In(x, bs, odd2)
  BY ModsAre
<1>5. Held = [LEFTSHIFT |-> "leftshift", RIGHTSHIFT |-> "rightshift",
              LEFTALT |-> "leftalt", RIGHTALT |-> "rightalt"]
  BY DEF Held
<1>6. DOMAIN Held = {"LEFTSHIFT", "RIGHTSHIFT", "LEFTALT", "RIGHTALT"}
  BY <1>5
<1> HIDE DEF ms, m2, odd, odd2, bs, k
<1>7. ASSUME NEW x PROVE x \in m2 <=> x \in Mods(ms, a.press, k)
  <2>1. a.press \in BOOLEAN
    BY DEF Typings
  <2>2. CASE k = "CAPSLOCK" /\ a.press
    <3>1. k \notin DOMAIN Held
      BY <2>2, <1>6
    <3>2. "capslock" \in ms => Mods(ms, a.press, k) = ms \ {"capslock"}
      BY <2>2, <3>1 DEF Mods
    <3>3. "capslock" \notin ms => Mods(ms, a.press, k) = ms \cup {"capslock"}
      BY <2>2, <3>1 DEF Mods
    <3> QED
      BY <3>2, <3>3, <2>2, <1>2, <1>3, <1>4
  <2>3. CASE k \in DOMAIN Held /\ a.press
    <3>1. Mods(ms, a.press, k) = ms \cup {Held[k]}
      BY <2>3, <1>6 DEF Mods
    <3> QED
      BY <3>1, <2>3, <1>2, <1>3, <1>4, <1>5, <1>6
  <2>4. CASE k \in DOMAIN Held /\ ~a.press
    <3>1. Mods(ms, a.press, k) = ms \ {Held[k]}
      BY <2>4, <1>6 DEF Mods
    <3> QED
      BY <3>1, <2>4, <1>2, <1>3, <1>4, <1>5, <1>6
  <2>5. CASE k \notin DOMAIN Held /\ ~(k = "CAPSLOCK" /\ a.press)
    <3>1. Mods(ms, a.press, k) = ms
      BY <2>5, <1>6 DEF Mods
    <3> QED
      BY <3>1, <2>5, <1>2, <1>3, <1>4, <1>6
  <2> QED
    BY <2>1, <2>2, <2>3, <2>4, <2>5
<1>8. m2 = Mods(ms, a.press, k)
  BY <1>7
<1> QED
  BY <1>8 DEF ms, m2, bs, k

----------------------------------------------------------------------------
(* The events so far, the modifiers and the prefix kept are those of the   *)
(* first n keys, up to the prefix of the next.                             *)
HeardFirst(n) ==
  LET ks == SubSeq(typed, 1, n)
      e == Len(Sends(ks))
  IN /\ events = Expected(ks) /\ mods = ModsAfter(ks)
     /\ \/ last_key # E0 /\ taken = e
        \/ last_key = E0 /\ taken = e + 1 /\ n < Len(typed) /\ typed[n + 1].ext

HearInv ==
  /\ typed \in Seq(Typings) /\ sent \in 0..Len(Stream)
  /\ module = "out" => taken = 0 /\ events = <<>>
  /\ ~spoiled => \E n \in 0..Len(typed) : HeardFirst(n)

LEMMA InitHear == Init => HearInv
<1> SUFFICES ASSUME Init PROVE HearInv
  OBVIOUS
<1>1. /\ typed = <<>> /\ sent = 0 /\ taken = 0 /\ events = <<>> /\ mods = {} /\ last_key = None
  BY DEF Init
<1>2. typed \in Seq(Typings) /\ Len(typed) = 0
  BY <1>1
<1>3. SubSeq(typed, 1, 0) = <<>>
  BY <1>2, SubSeqEmpty
<1>4. Sends(<<>>) = <<>> /\ Expected(<<>>) = <<>> /\ ModsAfter(<<>>) = {}
  BY NoKeys
<1>5. Stream = <<>>
  BY <1>1, <1>4 DEF Stream, Sends
<1>6. HeardFirst(0)
  <2>1. Len(<<>>) = 0
    BY EmptySeq
  <2> QED
    BY <2>1, <1>1, <1>3, <1>4 DEF HeardFirst, E0, None
<1> QED
  BY <1>1, <1>2, <1>5, <1>6 DEF HearInv

(* Steps that take no byte from the ring.                                  *)
LEMMA HearSame ==
  ASSUME HearInv, UNCHANGED <<typed, taken, mods, last_key, events>>, sent' \in 0..Len(Stream)',
         module' = "out" => module = "out", spoiled => spoiled'
  PROVE  HearInv'
<1>1. typed' \in Seq(Typings) /\ sent' \in 0..Len(Stream)' /\ (module' = "out" => taken' = 0 /\ events' = <<>>)
  BY DEF HearInv
<1>2. ASSUME ~spoiled' PROVE \E n \in 0..Len(typed') : HeardFirst(n)'
  <2>1. PICK n \in 0..Len(typed) : HeardFirst(n)
    BY <1>2 DEF HearInv
  <2>2. HeardFirst(n)'
    BY <2>1 DEF HeardFirst
  <2> QED
    BY <2>1, <2>2
<1> QED
  BY <1>1, <1>2 DEF HearInv

LEMMA StreamIs == Stream = Sends(typed)
BY DEF Stream, Sends

LEMMA TypesHear ==
  ASSUME HearInv, NEW a \in Typings, Types(a)
  PROVE  HearInv'
<1>1. typed \in Seq(Typings) /\ typed' = Append(typed, a)
  BY DEF HearInv, Types
<1>2. /\ UNCHANGED <<sent, taken, mods, last_key, events, module, spoiled>>
  BY DEF Types, kbVars, ghosts
<1>3. /\ typed' \in Seq(Typings) /\ Len(typed') = Len(typed) + 1 /\ Len(typed) \in Nat
      /\ \A i \in 1..Len(typed) : typed'[i] = typed[i]
      /\ \A n \in 0..Len(typed) : SubSeq(typed', 1, n) = SubSeq(typed, 1, n)
  BY <1>1, FirstOf, LenProperties
<1>4. sent' \in 0..Len(Stream)'
  <2>1. Stream' = Sends(typed') /\ Stream = Sends(typed)
    BY StreamIs DEF Stream, Sends
  <2>2. Sends(typed') = Sends(typed) \o Bytes(a) /\ Sends(typed) \in Seq(ByteType)
    BY <1>1, SendsMore
  <2>3. Bytes(a) \in Seq(ByteType)
    BY BytesType
  <2>4. /\ Len(Sends(typed')) = Len(Sends(typed)) + Len(Bytes(a))
        /\ Len(Sends(typed)) \in Nat /\ Len(Bytes(a)) \in Nat
    BY <2>2, <2>3, ConcatProperties, LenProperties
  <2> QED
    BY <2>1, <2>4, <1>2 DEF HearInv
<1>5. ASSUME ~spoiled' PROVE \E n \in 0..Len(typed') : HeardFirst(n)'
  <2>1. PICK n \in 0..Len(typed) : HeardFirst(n)
    BY <1>2, <1>5 DEF HearInv
  <2>2. SubSeq(typed', 1, n) = SubSeq(typed, 1, n) /\ n \in 0..Len(typed')
    BY <1>3
  <2>3. n < Len(typed) => n < Len(typed') /\ typed'[n + 1] = typed[n + 1]
    <3>1. n < Len(typed) => n + 1 \in 1..Len(typed)
      BY <1>3
    <3> QED
      BY <3>1, <1>3
  <2>4. HeardFirst(n)'
    BY <2>1, <2>2, <2>3, <1>2 DEF HeardFirst
  <2> QED
    BY <2>2, <2>4
<1> QED
  BY <1>2, <1>3, <1>4, <1>5 DEF HearInv

LEMMA ModInitHears ==
  ASSUME HearInv, ModInit
  PROVE  HearInv'
<1>1. /\ UNCHANGED <<typed, sent, taken, events, spoiled>> /\ module = "out"
      /\ last_key' = None /\ mods' = {}
  BY DEF ModInit, ghosts
<1>2. typed \in Seq(Typings) /\ sent \in 0..Len(Stream) /\ taken = 0 /\ events = <<>>
  BY <1>1 DEF HearInv
<1>3. Stream' = Stream /\ typed' \in Seq(Typings) /\ Len(typed') \in Nat
  BY <1>1, <1>2, LenProperties DEF Stream
<1>4. SubSeq(typed', 1, 0) = <<>>
  BY SubSeqEmpty
<1>5. HeardFirst(0)'
  <2>1. Len(<<>>) = 0
    BY EmptySeq
  <2> QED
    BY <2>1, <1>1, <1>2, <1>4, NoKeys DEF HeardFirst, E0, None
<1> QED
  BY <1>1, <1>2, <1>3, <1>5 DEF HearInv

LEMMA PollHears ==
  ASSUME HearInv, PipeInv, Poll
  PROVE  HearInv'
<1>1. /\ UNCHANGED <<typed, sent, spoiled, module>>
      /\ head # tail /\ taken' = buf[head] /\ module = "loaded"
  BY DEF Poll, ghosts, PipeInv, Unused
<1>2. Stream' = Stream
  BY <1>1 DEF Stream
<1>3. typed \in Seq(Typings) /\ sent \in 0..Len(Stream)
  BY DEF HearInv
<1>4. ASSUME ~spoiled PROVE \E n \in 0..Len(typed) : HeardFirst(n)'
  <2> DEFINE byte == Stream[buf[head]]
  <2>1. buf[head] = taken + 1 /\ taken + 1 <= sent /\ taken \in Nat /\ sent \in Nat
    <3> DEFINE c == Count(head, tail)
    <3>1. RingType /\ InTurn
      BY DEF PipeInv
    <3>2. c \in 1..(Cap - 1) /\ Slot(head, 1) = head
      BY <3>1, <1>1, TakeSlot DEF RingType
    <3>3. Item(buf, head, taken, 1) = taken + 1 /\ sent = taken + c + (IF full THEN 1 ELSE 0)
      BY <3>1, <3>2, <1>4 DEF InTurn
    <3>4. buf[head] = taken + 1
      BY <3>2, <3>3 DEF Item
    <3>5. taken \in Nat /\ sent \in Nat
      BY <3>1 DEF RingType
    <3> HIDE DEF c
    <3> QED
      BY <3>2, <3>3, <3>4, <3>5, Ps2Assumption
  <2>2. PICK n \in 0..Len(typed) : HeardFirst(n)
    BY <1>4 DEF HearInv
  <2> DEFINE ks == SubSeq(typed, 1, n)
             e == Len(Sends(ks))
  <2>3. Len(typed) \in Nat /\ n \in Nat /\ Stream = Sends(typed)
    BY <1>3, LenProperties, StreamIs
  <2>4. /\ events = Expected(ks) /\ mods = ModsAfter(ks)
        /\ \/ last_key # E0 /\ taken = e
           \/ last_key = E0 /\ taken = e + 1 /\ n < Len(typed) /\ typed[n + 1].ext
    BY <2>2 DEF HeardFirst
  <2>5. n < Len(typed)
    <3> SUFFICES ASSUME n = Len(typed) PROVE FALSE
      BY <2>3
    <3>1. ks = typed
      BY <1>3, SubSeqFull
    <3>2. taken = e
      BY <2>3, <2>4
    <3>3. e = Len(Stream)
      BY <3>1, <2>3
    <3> HIDE DEF e
    <3> QED
      BY <3>2, <3>3, <2>1, <1>3
  <2> DEFINE a == typed[n + 1]
             ls == SubSeq(typed, 1, n + 1)
  <2>6. /\ a \in Typings /\ n + 1 \in 1..Len(typed) /\ ks \in Seq(Typings) /\ ls = Append(ks, a)
    BY <2>5, <1>3, NextOf
  <2>7. /\ e + Len(Bytes(a)) <= Len(Sends(typed))
        /\ \A j \in 1..Len(Bytes(a)) : Sends(typed)[e + j] = Bytes(a)[j]
    BY <2>5, <1>3, BytesLie DEF Lies
  <2>8. Len(Bytes(a)) = (IF a.ext THEN 2 ELSE 1) /\ Bytes(a) = IF a.ext THEN <<Prefix, Scan(a)>> ELSE <<Scan(a)>>
    BY <2>6, BytesType DEF Bytes
  <2>9. Len(Sends(ls)) = e + (IF a.ext THEN 2 ELSE 1) /\ e \in Nat
    <3>1. Sends(ls) = Sends(ks) \o Bytes(a) /\ Sends(ks) \in Seq(ByteType) /\ Bytes(a) \in Seq(ByteType)
      BY <2>6, SendsMore, BytesType
    <3> HIDE DEF a, ks, ls
    <3> QED
      BY <3>1, <2>8, ConcatProperties, LenProperties
  <2>10. /\ last_key' = IF last_key = E0 THEN None ELSE byte.code
         /\ \E keycode \in Keycodes(byte) : Yields(byte, keycode)
    BY DEF Poll
  <2>11. /\ a.key \in Keys /\ a.ext \in BOOLEAN /\ a.press \in BOOLEAN
         /\ a.key \in {"shift", "alt", "caps", "up"}
    BY <2>6, Ps2Assumption DEF Typings, Plain
  <2>12. /\ Expected(ls) = IF Keycode(a) = None THEN Expected(ks)
                          ELSE Append(Expected(ks), [press |-> a.press, keycode |-> Keycode(a), mods |-> ModsAfter(ls)])
         /\ ModsAfter(ls) = Mods(ModsAfter(ks), a.press, Keycode(a))
    BY <2>6, ExpectedMore, ModsMore
  <2> HIDE DEF a, ks, ls, byte, e
  <2>13. CASE last_key # E0 /\ a.ext
    <3>1. byte = Prefix
      BY <2>13, <2>1, <2>3, <2>4, <2>7, <2>8 DEF byte
    <3>2. Keycodes(byte) = {None} /\ last_key' = E0
      BY <3>1, <2>10, <2>13 DEF Keycodes, Prefix
    <3>3. mods' = mods /\ events' = events
      BY <3>2, <2>10 DEF Yields
    <3>4. taken' = e + 1
      BY <2>1, <2>4, <2>13, <1>1
    <3>5. HeardFirst(n)'
      BY <3>2, <3>3, <3>4, <2>4, <2>5, <2>13, <1>1 DEF HeardFirst, a, ks, e
    <3> QED
      BY <3>5
  <2>14. ASSUME byte = Scan(a), taken' = Len(Sends(ls)), last_key' # E0, Keycodes(byte) = {Keycode(a)}
         PROVE  HeardFirst(n + 1)'
    <3>1. byte.press = a.press
      BY <2>14 DEF Scan
    <3>2. Yields(byte, Keycode(a))
      BY <2>10, <2>14
    <3>3. mods' = ModsAfter(ls) /\ events' = Expected(ls)
      <4>1. CASE Keycode(a) = None
        <5>1. mods' = mods /\ events' = events
          BY <4>1, <3>2 DEF Yields
        <5>2. Mods(ModsAfter(ks), a.press, Keycode(a)) = ModsAfter(ks)
          BY <4>1 DEF Mods, None, Held
        <5> QED
          BY <4>1, <5>1, <5>2, <2>4, <2>12
      <4>2. CASE Keycode(a) # None
        BY <4>2, <3>1, <3>2, <2>4, <2>12, <1>4 DEF Yields
      <4> QED
        BY <4>1, <4>2
    <3> QED
      BY <3>3, <2>14, <1>1 DEF HeardFirst, ls
  <2>15. n + 1 \in 0..Len(typed)
    BY <2>6
  <2>16. CASE last_key # E0 /\ ~a.ext
    <3>1. byte = Scan(a)
      BY <2>16, <2>1, <2>3, <2>4, <2>7, <2>8 DEF byte
    <3>2. byte.code = a.key /\ byte.code # E0
      BY <3>1, <2>11 DEF Scan, E0
    <3>3. last_key' # E0 /\ Keycodes(byte) = {Keycode(a)}
      BY <3>2, <2>10, <2>16 DEF Keycodes, Keycode
    <3>4. taken' = Len(Sends(ls))
      BY <2>1, <2>4, <2>9, <2>16, <1>1
    <3> QED
      BY <3>1, <3>3, <3>4, <2>14, <2>15
  <2>17. CASE last_key = E0
    <3>1. a.ext /\ taken = e + 1
      BY <2>17, <2>4 DEF a
    <3>2. byte = Scan(a)
      <4>1. (e + 1) + 1 = e + 2 /\ 2 \in 1..Len(Bytes(a)) /\ Bytes(a)[2] = Scan(a)
        BY <3>1, <2>8, <2>9
      <4> QED
        BY <4>1, <3>1, <2>1, <2>3, <2>7 DEF byte
    <3>3. byte.code = a.key /\ byte.code # E0
      BY <3>2, <2>11 DEF Scan, E0
    <3>4. last_key' # E0 /\ Keycodes(byte) = {Keycode(a)}
      BY <3>1, <3>3, <2>10, <2>17 DEF Keycodes, Keycode, E0, None
    <3>5. taken' = Len(Sends(ls))
      BY <3>1, <2>1, <2>9, <1>1
    <3> QED
      BY <3>2, <3>4, <3>5, <2>14, <2>15
  <2> QED
    BY <2>13, <2>16, <2>17
<1> QED
  BY <1>1, <1>2, <1>3, <1>4 DEF HearInv

LEMMA StepHear ==
  ASSUME HearInv, PipeInv, [Next]_vars
  PROVE  HearInv'
<1>1. typed' = typed => Stream' = Stream
  BY DEF Stream
<1>2. sent \in 0..Len(Stream)
  BY DEF HearInv
<1>3. CASE UNCHANGED vars
  BY <1>1, <1>2, <1>3, HearSame DEF vars, kbVars, ghosts
<1>4. CASE \E a \in Typings : Types(a)
  BY <1>4, TypesHear
<1>5. CASE Receives
  <2>1. sent' \in 0..Len(Stream)'
    BY <1>1, <1>2, <1>5 DEF Receives
  <2> QED
    BY <2>1, <1>5, HearSame DEF Receives, kbVars, ghosts
<1>6. CASE Isr
  BY <1>1, <1>2, <1>6, HearSame DEF Isr, Spoils
<1>7. CASE IrqSave
  BY <1>1, <1>2, <1>7, HearSame DEF IrqSave, kbVars, ghosts
<1>8. CASE Poll
  BY <1>8, PollHears
<1>9. CASE PollNothing
  BY <1>1, <1>2, <1>9, HearSame DEF PollNothing, ghosts
<1>10. CASE BiosEnter
  BY <1>1, <1>2, <1>10, HearSame DEF BiosEnter, kbVars, ghosts
<1>11. CASE BiosIsr
  BY <1>1, <1>2, <1>11, HearSame DEF BiosIsr, kbVars
<1>12. CASE BiosLeave
  BY <1>1, <1>2, <1>12, HearSame DEF BiosLeave, kbVars, ghosts
<1>13. CASE ModInit
  BY <1>13, ModInitHears
<1>14. CASE ModDeinit
  BY <1>1, <1>2, <1>14, HearSame DEF ModDeinit, kbVars
<1> QED
  BY <1>3, <1>4, <1>5, <1>6, <1>7, <1>8, <1>9, <1>10, <1>11, <1>12, <1>13, <1>14 DEF Next

(* The shell gets the events of the keys typed, with the right modifiers,  *)
(* unless a byte was lost or came twice: ps2Poll, loomInputSourcePoll.     *)
THEOREM KeysAreHeard == Spec => []KeysHeard
<1>1. HearInv /\ PipeInv /\ PipeInv' /\ [Next]_vars => HearInv'
  BY StepHear
<1>2. HearInv /\ ByteForByte => KeysHeard
  <2> SUFFICES ASSUME HearInv, ByteForByte, ~spoiled
               PROVE  \E n \in 0..Len(typed) :
                        /\ Len(FlattenSeq([i \in 1..n |-> Bytes(typed[i])])) \in {taken, taken - 1}
                        /\ events = Expected(SubSeq(typed, 1, n))
    BY DEF KeysHeard
  <2>1. PICK n \in 0..Len(typed) : HeardFirst(n)
    BY DEF HearInv
  <2> DEFINE ks == SubSeq(typed, 1, n)
  <2>2. typed \in Seq(Typings) /\ Len(typed) \in Nat /\ n \in Nat /\ n <= Len(typed)
    BY LenProperties DEF HearInv
  <2>3. ks \in Seq(Typings) /\ DOMAIN ks = 1..n /\ \A i \in 1..n : ks[i] = typed[i]
    BY <2>2, FirstKeys, LenProperties
  <2>4. Sends(ks) = FlattenSeq([i \in 1..n |-> Bytes(typed[i])])
    <3>1. [i \in DOMAIN ks |-> Bytes(ks[i])] = [i \in 1..n |-> Bytes(typed[i])]
      BY <2>3
    <3> QED
      BY <3>1 DEF Sends
  <2>5. Len(Sends(ks)) \in Nat
    <3>1. Sends(ks) \in Seq(ByteType)
      <4>1. CASE ks = <<>>
        BY <4>1, NoKeys, EmptySeq
      <4>2. CASE ks # <<>>
        <5>1. PICK a \in Typings : TRUE
          BY <4>2, <2>3, SequenceEmptyOrAppend
        <5> QED
          BY <5>1, <2>3, SendsMore
      <4> QED
        BY <4>1, <4>2
    <3> QED
      BY <3>1, LenProperties
  <2>6. Len(Sends(ks)) \in {taken, taken - 1} /\ events = Expected(ks)
    BY <2>1, <2>5 DEF HeardFirst
  <2> QED
    BY <2>4, <2>6
<1> QED
  BY <1>1, <1>2, InitHear, PipeInvariant, BytesInTurn, PTL DEF Spec
=============================================================================
