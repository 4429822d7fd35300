----------------------------- MODULE ProbeProofs -----------------------------
(***************************************************************************)
(* Probe for all drives, whatever lies on them, and every heap: what a     *)
(* search finds, and what it leaves of the heap.                           *)
(***************************************************************************)
EXTENDS Probe, FiniteSetTheorems, SequenceTheorems, WellFoundedInduction, TLAPS

----------------------------------------------------------------------------
(* Sets of numbers in increasing order.                                    *)

(* The least element of a set of numbers: induction without an operator.   *)
LEMMA LeastElement ==
  ASSUME NEW T \in SUBSET Nat, T # {}
  PROVE  \E m \in T : \A k \in T : m <= k
<1> DEFINE R == {ss \in Nat \X Nat : ss[1] < ss[2]}
<1>1. IsWellFoundedOn(R, Nat)
  BY NatLessThanWellFounded, Zenon DEF OpToRel
<1>2. PICK x \in T : \A y \in T : ~ (<<y, x>> \in R)
  BY <1>1, WFMin
<1>3. ASSUME NEW y \in T PROVE x <= y
  <2>1. ~ (y < x)
    BY <1>2
  <2> QED
    BY <2>1
<1> QED
  BY <1>3

UpTo(S, i) == {j \in S : j <= i}
Rank(S, i) == Cardinality(UpTo(S, i))

LEMMA RankType ==
  ASSUME NEW S, S \in SUBSET Nat, IsFiniteSet(S), NEW i \in Nat
  PROVE  IsFiniteSet(UpTo(S, i)) /\ Rank(S, i) \in Nat /\ Rank(S, i) <= Cardinality(S)
<1>1. UpTo(S, i) \in SUBSET S
  BY DEF UpTo
<1> QED
  BY <1>1, FS_Subset, FS_CardinalityType DEF Rank

(* No two have the same place.                                             *)
LEMMA RankUnique ==
  ASSUME NEW S, S \in SUBSET Nat, IsFiniteSet(S), NEW i \in S, NEW j \in S, Rank(S, i) = Rank(S, j)
  PROVE  i = j
<1>1. ASSUME NEW a \in S, NEW b \in S, a < b, Rank(S, a) = Rank(S, b)
      PROVE  FALSE
  <2>0. a \in Nat /\ b \in Nat /\ S \subseteq Nat
    OBVIOUS
  <2>1. UpTo(S, a) \in SUBSET UpTo(S, b) /\ b \in UpTo(S, b) /\ b \notin UpTo(S, a)
    <3>1. ASSUME NEW k \in UpTo(S, a) PROVE k \in UpTo(S, b)
      <4>1. k \in S /\ k <= a
        BY DEF UpTo
      <4>2. k \in Nat
        BY <2>0, <4>1
      <4>3. k <= b
        BY <1>1, <2>0, <4>1, <4>2
      <4> QED
        BY <4>1, <4>3 DEF UpTo
    <3>2. b \in UpTo(S, b) /\ b \notin UpTo(S, a)
      BY <1>1, <2>0 DEF UpTo
    <3> QED
      BY <3>1, <3>2
  <2>2. IsFiniteSet(UpTo(S, b))
    BY RankType
  <2>3. UpTo(S, b) = UpTo(S, a)
    BY <1>1, <2>1, <2>2, FS_Subset DEF Rank
  <2> QED
    BY <2>1, <2>3
<1>2. i \in Nat /\ j \in Nat
  OBVIOUS
<1>3. i < j \/ j < i \/ i = j
  BY <1>2
<1> QED
  BY <1>1, <1>3

LEMMA NthIs ==
  ASSUME NEW S, S \in SUBSET Nat, IsFiniteSet(S), NEW i \in S
  PROVE  Nth(S, Rank(S, i)) = i
<1> DEFINE P(x) == x \in S /\ Rank(S, x) = Rank(S, i)
<1>1. \A x : P(x) => x = i
  BY RankUnique
<1>2. P(i)
  OBVIOUS
<1>3. (CHOOSE x : P(x)) = i
  BY <1>1, <1>2, Zenon
<1> QED
  BY <1>3, Zenon DEF Nth, Rank, UpTo

(* One more behind all others has the last place, and moves none.          *)
LEMMA RankMore ==
  ASSUME NEW S, S \in SUBSET Nat, IsFiniteSet(S), NEW m \in Nat, \A i \in S : i < m
  PROVE  /\ S \cup {m} \in SUBSET Nat /\ IsFiniteSet(S \cup {m})
         /\ Cardinality(S \cup {m}) = Cardinality(S) + 1
         /\ \A i \in S : Rank(S \cup {m}, i) = Rank(S, i)
         /\ Rank(S \cup {m}, m) = Cardinality(S) + 1
<1>1. m \notin S
  OBVIOUS
<1>2. /\ S \cup {m} \in SUBSET Nat /\ IsFiniteSet(S \cup {m})
      /\ Cardinality(S \cup {m}) = Cardinality(S) + 1
  BY <1>1, FS_AddElement
<1>3. ASSUME NEW i \in S PROVE UpTo(S \cup {m}, i) = UpTo(S, i)
  BY DEF UpTo
<1>4. UpTo(S \cup {m}, m) = S \cup {m}
  <2>1. \A i \in S \cup {m} : i <= m
    BY <1>2
  <2> QED
    BY <2>1 DEF UpTo
<1> QED
  BY <1>2, <1>3, <1>4 DEF Rank

(* Every place is taken.                                                   *)
LEMMA RankExists ==
  ASSUME NEW N \in Nat
  PROVE  \A S \in SUBSET (1..N) :
           IsFiniteSet(S) /\ \A k \in 1..Cardinality(S) : \E i \in S : Rank(S, i) = k
<1> DEFINE Full(S) == IsFiniteSet(S) /\ \A k \in 1..Cardinality(S) : \E i \in S : Rank(S, i) = k
           T == {n \in Nat : ~ \A S \in SUBSET (1..n) : Full(S)}
<1>1. T = {}
  <2> SUFFICES ASSUME T # {} PROVE FALSE
    OBVIOUS
  <2>1. PICK n \in T : \A k \in T : n <= k
    <3>1. T \in SUBSET Nat
      OBVIOUS
    <3> HIDE DEF T
    <3> QED
      BY <3>1, LeastElement
  <2>2. PICK S \in SUBSET (1..n) : ~ Full(S)
    BY <2>1
  <2>3. n # 0
    <3> SUFFICES ASSUME n = 0 PROVE FALSE
      OBVIOUS
    <3>1. S = {}
      <4>1. S \subseteq 1..0
        OBVIOUS
      <4> QED
        BY <4>1
    <3>2. IsFiniteSet(S) /\ Cardinality(S) = 0
      BY <3>1, FS_EmptySet
    <3> QED
      BY <2>2, <3>2
  <2>4. n \in Nat /\ n - 1 \in Nat /\ ~ (n <= n - 1)
    BY <2>1, <2>3
  <2>5. \A R \in SUBSET (1..(n - 1)) : Full(R)
    <3>1. n - 1 \notin T
      <4> HIDE DEF T
      <4> QED
        BY <2>1, <2>4
    <3> HIDE DEF Full
    <3> QED
      BY <2>4, <3>1
  <2>6. n \in S
    <3>1. n \notin S => S \in SUBSET (1..(n - 1))
      BY <2>4
    <3> HIDE DEF Full
    <3> QED
      BY <2>2, <2>5, <3>1
  <2> DEFINE R == S \ {n}
  <2>7. R \in SUBSET (1..(n - 1)) /\ R \in SUBSET Nat /\ S = R \cup {n} /\ \A i \in R : i < n
    <3>1. R \in SUBSET (1..(n - 1))
      BY <2>4
    <3>2. S = R \cup {n}
      BY <2>6
    <3> HIDE DEF R
    <3>3. R \in SUBSET Nat /\ \A i \in R : i < n
      BY <3>1
    <3> QED
      BY <3>1, <3>2, <3>3
  <2>8. Full(R)
    <3> HIDE DEF Full, R
    <3> QED
      BY <2>5, <2>7
  <2> HIDE DEF R
  <2>9. /\ IsFiniteSet(S) /\ Cardinality(S) = Cardinality(R) + 1
        /\ \A i \in R : Rank(S, i) = Rank(R, i)
        /\ Rank(S, n) = Cardinality(R) + 1
    <3>1. IsFiniteSet(R)
      BY <2>8
    <3> HIDE DEF Full
    <3>2. /\ R \in SUBSET Nat /\ n \in Nat /\ \A i \in R : i < n
      BY <2>4, <2>7
    <3>3. /\ IsFiniteSet(R \cup {n}) /\ Cardinality(R \cup {n}) = Cardinality(R) + 1
          /\ \A i \in R : Rank(R \cup {n}, i) = Rank(R, i)
          /\ Rank(R \cup {n}, n) = Cardinality(R) + 1
      BY ONLY <3>1, <3>2, RankMore
    <3>4. S = R \cup {n}
      BY <2>7
    <3> QED
      BY ONLY <3>3, <3>4
  <2>10. Cardinality(R) \in Nat
    BY <2>8, FS_CardinalityType
  <2>11. ASSUME NEW k \in 1..Cardinality(S) PROVE \E i \in S : Rank(S, i) = k
    <3>1. CASE k \in 1..Cardinality(R)
      <4>1. PICK i \in R : Rank(R, i) = k
        BY <2>8, <3>1
      <4> QED
        BY <2>7, <2>9, <4>1
    <3>2. CASE k = Cardinality(R) + 1
      BY <2>6, <2>9, <3>2
    <3> QED
      BY <2>9, <2>10, <3>1, <3>2
  <2> QED
    BY <2>2, <2>9, <2>11
<1>2. N \notin T
  BY <1>1
<1> HIDE DEF Full
<1>3. \A S \in SUBSET (1..N) : Full(S)
  BY <1>2
<1> QED
  BY <1>3 DEF Full

(* What the proofs use of the places in a set.                             *)
LEMMA NthInSet ==
  ASSUME NEW N \in Nat, NEW S \in SUBSET (1..N), NEW k \in 1..Cardinality(S)
  PROVE  Nth(S, k) \in S /\ Rank(S, Nth(S, k)) = k
<1>1. S \in SUBSET Nat
  OBVIOUS
<1>2. IsFiniteSet(S) /\ \E i \in S : Rank(S, i) = k
  BY RankExists
<1>3. PICK i \in S : Rank(S, i) = k
  BY <1>2
<1>4. Nth(S, Rank(S, i)) = i
  BY <1>1, <1>2, NthIs
<1> QED
  BY <1>3, <1>4

LEMMA NthMore ==
  ASSUME NEW N \in Nat, NEW S \in SUBSET (1..N), NEW m \in Nat, \A i \in S : i < m
  PROVE  /\ Cardinality(S) \in Nat /\ Cardinality(S \cup {m}) = Cardinality(S) + 1
         /\ \A k \in 1..Cardinality(S) : Nth(S \cup {m}, k) = Nth(S, k)
         /\ Nth(S \cup {m}, Cardinality(S) + 1) = m
<1>1. S \in SUBSET Nat /\ IsFiniteSet(S) /\ Cardinality(S) \in Nat
  <2>1. IsFiniteSet(S)
    BY RankExists
  <2> QED
    BY <2>1, FS_CardinalityType
<1>2. /\ S \cup {m} \in SUBSET Nat /\ IsFiniteSet(S \cup {m})
      /\ Cardinality(S \cup {m}) = Cardinality(S) + 1
      /\ \A i \in S : Rank(S \cup {m}, i) = Rank(S, i)
      /\ Rank(S \cup {m}, m) = Cardinality(S) + 1
  BY <1>1, RankMore
<1>3. ASSUME NEW k \in 1..Cardinality(S) PROVE Nth(S \cup {m}, k) = Nth(S, k)
  <2>1. Nth(S, k) \in S /\ Rank(S, Nth(S, k)) = k
    BY NthInSet
  <2>2. Nth(S \cup {m}, Rank(S \cup {m}, Nth(S, k))) = Nth(S, k)
    BY <1>2, <2>1, NthIs
  <2> QED
    BY <1>2, <2>1, <2>2
<1>4. Nth(S \cup {m}, Rank(S \cup {m}, m)) = m
  BY <1>2, NthIs
<1> QED
  BY <1>1, <1>2, <1>3, <1>4

----------------------------------------------------------------------------
(* Types.                                                                  *)
DeviceType ==
  [disk : Nat, parent : Nat, by : Kinds \cup {"bios"}, offset : Nat, blocks : Nat, limit : Nat,
   probed : BOOLEAN, failed : BOOLEAN, tried : Seq(Kinds), fat : BOOLEAN, cached : BOOLEAN]

(* loomBlockDevProbe runs.                                                 *)
Probing == pc \in {"scheme", "entries", "types"}

Sorts ==
  /\ pc \in {"start", "shell", "panic", "astray"} \cup Searches
  /\ drive \in Nat /\ devs \in Seq(DeviceType) /\ fsList \in Seq(Nat)
  /\ schemes \in Seq(Kinds) /\ fat \in BOOLEAN /\ room \in Nat
  /\ at \in 0..Len(devs) /\ retry \in BOOLEAN
  /\ scheme \in Nat \ {0} /\ entry \in Nat \ {0} /\ count \in Nat
  /\ Probing => at # 0
InTable == pc = "entries" => scheme \in DOMAIN schemes /\ HasTable(schemes[scheme], at)
TypeOK == Sorts /\ InTable

(* What the steps do to a list of devices.                                 *)
LEMMA DeviceAdded ==
  ASSUME NEW D \in Seq(DeviceType), NEW c \in DeviceType
  PROVE  /\ Append(D, c) \in Seq(DeviceType) /\ Len(D) \in Nat /\ Len(Append(D, c)) = Len(D) + 1
         /\ DOMAIN D = 1..Len(D) /\ DOMAIN Append(D, c) = 1..(Len(D) + 1)
         /\ \A d \in DOMAIN D : Append(D, c)[d] = D[d]
         /\ Append(D, c)[Len(D) + 1] = c
  OBVIOUS

LEMMA DeviceSet ==
  ASSUME NEW D \in Seq(DeviceType), NEW a \in 1..Len(D), NEW c \in DeviceType
  PROVE  LET E == [D EXCEPT ![a] = c]
         IN  /\ E \in Seq(DeviceType) /\ Len(E) = Len(D) /\ Len(D) \in Nat
             /\ DOMAIN D = 1..Len(D) /\ DOMAIN E = 1..Len(D)
             /\ E[a] = c /\ D[a] \in DeviceType
             /\ \A d \in DOMAIN D : d # a => E[d] = D[d]
  OBVIOUS

(* What the tables hold is a number of blocks from a block on.             *)
VerdictType == [kind : {"part", "skip", "stop"}, offset : Nat, blocks : Nat]
LEMMA TableTypes ==
  ASSUME TypeOK, pc = "entries"
  PROVE  /\ Table(schemes[scheme], at) \in Seq(VerdictType)
         /\ Verdict \in VerdictType /\ schemes[scheme] \in Kinds
         /\ Buffers(schemes[scheme]) \in {1, 2}
<1> DEFINE s == schemes[scheme]
<1>1. s \in Kinds /\ HasTable(s, at) /\ entry \in Nat \ {0}
  BY DEF TypeOK, Sorts, InTable
<1>2. Table(s, at) \in Seq(VerdictType)
  <2>1. CASE s = "mbr"
    <3>1. Mbr[Block(at, 0)] \in [1..4 -> MbrEntries]
      BY <1>1, <2>1, ProbeAssumption DEF HasTable
    <3>2. ASSUME NEW e \in MbrEntries PROVE MbrEntry(e) \in VerdictType
      BY DEF MbrEntry, MbrEntries, VerdictType, Part, Skip, Stop
    <3> DEFINE f == [i \in 1..4 |-> MbrEntry(Mbr[Block(at, 0)][i])]
    <3>3. f \in [1..4 -> VerdictType]
      BY <3>1, <3>2
    <3>4. f \in Seq(VerdictType)
      BY <3>3
    <3>5. Table(s, at) = f
      BY <2>1 DEF Table
    <3> QED
      BY <3>4, <3>5
  <2>2. CASE s = "gpt"
    <3>1. Gpt[Block(at, 1)].entries \in Seq(GptEntries)
      BY <1>1, <2>2, ProbeAssumption DEF HasTable
    <3>2. ASSUME NEW e \in GptEntries PROVE GptEntry(e) \in VerdictType
      BY ProbeAssumption DEF GptEntry, GptEntries, VerdictType, Part, Skip, Stop
    <3> DEFINE es == Gpt[Block(at, 1)].entries
               f == [i \in DOMAIN es |-> GptEntry(es[i])]
    <3> HIDE DEF es
    <3>3. f \in [1..Len(es) -> VerdictType] /\ Len(es) \in Nat
      BY <3>1, <3>2 DEF es
    <3>4. f \in Seq(VerdictType)
      BY <3>3
    <3>5. Table(s, at) = f
      BY <2>2 DEF Table, es
    <3> QED
      BY <3>4, <3>5
  <2> QED
    BY <1>1, <2>1, <2>2 DEF Kinds
<1>3. Stop \in VerdictType
  BY DEF Stop, VerdictType
<1>4. Verdict \in VerdictType
  <2>1. Verdict = IF entry > Len(Table(s, at)) THEN Stop ELSE Table(s, at)[entry]
    BY DEF Verdict
  <2> HIDE DEF s
  <2> QED
    BY <1>1, <1>2, <1>3, <2>1
<1>5. Buffers(s) \in {1, 2}
  BY DEF Buffers
<1> QED
  BY <1>1, <1>2, <1>4, <1>5

(* A probe that fails, starts or ends with a cache changes marks of its    *)
(* own device only.                                                        *)
SamePlace(c, e) ==
  /\ c.disk = e.disk /\ c.parent = e.parent /\ c.by = e.by
  /\ c.offset = e.offset /\ c.blocks = e.blocks /\ c.limit = e.limit
Marks(D, E, a) ==
  /\ E \in Seq(DeviceType) /\ Len(E) = Len(D) /\ Len(D) \in Nat
  /\ DOMAIN D = 1..Len(D) /\ DOMAIN E = 1..Len(D)
  /\ \A d \in DOMAIN D : d # a => E[d] = D[d]
  /\ D[a] \in DeviceType /\ E[a] \in DeviceType /\ SamePlace(E[a], D[a])

LEMMA SetMarks ==
  ASSUME NEW D \in Seq(DeviceType), NEW a \in 1..Len(D), NEW c \in DeviceType, SamePlace(c, D[a])
  PROVE  Marks(D, [D EXCEPT ![a] = c], a) /\ [D EXCEPT ![a] = c][a] = c
<1> DEFINE E == [D EXCEPT ![a] = c]
<1>1. /\ E \in Seq(DeviceType) /\ Len(E) = Len(D) /\ Len(D) \in Nat
      /\ DOMAIN D = 1..Len(D) /\ DOMAIN E = 1..Len(D)
      /\ E[a] = c /\ D[a] \in DeviceType
      /\ \A d \in DOMAIN D : d # a => E[d] = D[d]
  BY DeviceSet
<1> HIDE DEF E
<1> QED
  BY <1>1 DEF Marks, E

LEMMA MarkFailed ==
  ASSUME devs \in Seq(DeviceType), at \in 1..Len(devs), Failed(at)
  PROVE  /\ Marks(devs, devs', at) /\ devs'[at].failed
         /\ devs'[at].probed = devs[at].probed /\ devs'[at].tried = devs[at].tried
         /\ devs'[at].fat = devs[at].fat /\ devs'[at].cached = devs[at].cached
<1> DEFINE c == [devs[at] EXCEPT !.failed = TRUE]
<1>1. devs' = [devs EXCEPT ![at] = c]
  BY DEF Failed
<1>2. devs[at] \in DeviceType
  OBVIOUS
<1>3. c \in DeviceType
  BY <1>2, Zenon DEF DeviceType
<1>4. /\ SamePlace(c, devs[at]) /\ c.failed /\ c.probed = devs[at].probed
      /\ c.tried = devs[at].tried /\ c.fat = devs[at].fat /\ c.cached = devs[at].cached
  BY <1>2 DEF DeviceType, SamePlace
<1> HIDE DEF c
<1>5. Marks(devs, [devs EXCEPT ![at] = c], at) /\ [devs EXCEPT ![at] = c][at] = c
  BY <1>3, <1>4, SetMarks
<1>6. Marks(devs, devs', at) /\ devs'[at] = c
  BY <1>1, <1>5, Zenon
<1> QED
  BY <1>4, <1>6, Zenon

LEMMA MarkCached ==
  ASSUME devs \in Seq(DeviceType), at \in 1..Len(devs), devs' = [devs EXCEPT ![at].cached = TRUE]
  PROVE  /\ Marks(devs, devs', at) /\ devs'[at].cached
         /\ devs'[at].probed = devs[at].probed /\ devs'[at].tried = devs[at].tried
         /\ devs'[at].fat = devs[at].fat /\ devs'[at].failed = devs[at].failed
<1> DEFINE c == [devs[at] EXCEPT !.cached = TRUE]
<1>1. devs' = [devs EXCEPT ![at] = c]
  OBVIOUS
<1>2. devs[at] \in DeviceType
  OBVIOUS
<1>3. c \in DeviceType
  BY <1>2, Zenon DEF DeviceType
<1>4. /\ SamePlace(c, devs[at]) /\ c.cached /\ c.probed = devs[at].probed
      /\ c.tried = devs[at].tried /\ c.fat = devs[at].fat /\ c.failed = devs[at].failed
  BY <1>2 DEF DeviceType, SamePlace
<1> HIDE DEF c
<1>5. Marks(devs, [devs EXCEPT ![at] = c], at) /\ [devs EXCEPT ![at] = c][at] = c
  BY <1>3, <1>4, SetMarks
<1>6. Marks(devs, devs', at) /\ devs'[at] = c
  BY <1>1, <1>5, Zenon
<1> QED
  BY <1>4, <1>6, Zenon

LEMMA MarkProbed ==
  ASSUME devs \in Seq(DeviceType), at \in 1..Len(devs), schemes \in Seq(Kinds), fat \in BOOLEAN,
         devs' = [devs EXCEPT ![at].probed = TRUE, ![at].tried = schemes, ![at].fat = fat]
  PROVE  /\ Marks(devs, devs', at) /\ devs'[at].probed
         /\ devs'[at].tried = schemes /\ devs'[at].fat = fat
         /\ devs'[at].cached = devs[at].cached /\ devs'[at].failed = devs[at].failed
<1> DEFINE c == [devs[at] EXCEPT !.probed = TRUE, !.tried = schemes, !.fat = fat]
<1>1. devs' = [devs EXCEPT ![at] = c]
  OBVIOUS
<1>2. devs[at] \in DeviceType
  OBVIOUS
<1>3. c \in DeviceType
  BY <1>2 DEF DeviceType
<1>4. /\ SamePlace(c, devs[at]) /\ c.probed /\ c.tried = schemes /\ c.fat = fat
      /\ c.cached = devs[at].cached /\ c.failed = devs[at].failed
  BY <1>2 DEF DeviceType, SamePlace
<1> HIDE DEF c
<1>5. Marks(devs, [devs EXCEPT ![at] = c], at) /\ [devs EXCEPT ![at] = c][at] = c
  BY <1>3, <1>4, SetMarks
<1>6. Marks(devs, devs', at) /\ devs'[at] = c
  BY <1>1, <1>5, Zenon
<1> QED
  BY <1>4, <1>6, Zenon

(* A disk or a partition that is found comes with nothing set.             *)
New(c) == ~c.probed /\ ~c.failed /\ ~c.cached
Adds(D, E, c) ==
  /\ E \in Seq(DeviceType) /\ Len(D) \in Nat /\ Len(E) = Len(D) + 1
  /\ DOMAIN D = 1..Len(D) /\ DOMAIN E = 1..(Len(D) + 1)
  /\ \A d \in DOMAIN D : E[d] = D[d]
  /\ E[Len(D) + 1] = c /\ c \in DeviceType

LEMMA AddDevice ==
  ASSUME NEW D \in Seq(DeviceType), NEW c \in DeviceType
  PROVE  Adds(D, Append(D, c), c)
BY DeviceAdded DEF Adds

LEMMA DeviceIs ==
  ASSUME NEW disk \in Nat, NEW parent \in Nat, NEW by \in Kinds \cup {"bios"}, NEW offset \in Nat,
         NEW blocks \in Nat, NEW limit \in Nat
  PROVE  LET c == Device(disk, parent, by, offset, blocks, limit)
         IN  /\ c \in DeviceType /\ New(c) /\ c.parent = parent /\ c.disk = disk
             /\ c.offset = offset /\ c.blocks = blocks /\ c.limit = limit
<1>1. <<>> \in Seq(Kinds)
  OBVIOUS
<1> QED
  BY <1>1 DEF Device, DeviceType, New

LEMMA ModAtMost ==
  ASSUME NEW x \in Nat, NEW m \in Nat, m # 0
  PROVE  x % m \in Nat /\ x % m <= x
<1>1. x % m \in 0..(m - 1)
  OBVIOUS
<1>2. CASE x < m
  <2>1. x % m = x
    BY <1>2
  <2> QED
    BY <2>1
<1> QED
  BY <1>1, <1>2

LEMMA DiskFound ==
  ASSUME TypeOK, drive < Len(Drives), devs' = Append(devs, BiosDisk(drive + 1))
  PROVE  /\ Adds(devs, devs', BiosDisk(drive + 1)) /\ New(BiosDisk(drive + 1))
         /\ BiosDisk(drive + 1).parent = 0
         /\ drive + 1 \in DOMAIN Drives /\ BiosDisk(drive + 1).disk = drive + 1
         /\ BiosDisk(drive + 1).offset = 0 /\ BiosDisk(drive + 1).limit = Drives[drive + 1]
         /\ BiosDisk(drive + 1).blocks \in Nat /\ BiosDisk(drive + 1).blocks <= Drives[drive + 1]
<1> DEFINE n == drive + 1
<1>1. drive \in Nat /\ n \in Nat /\ n \in 1..Len(Drives) /\ Drives \in Seq(Nat)
  BY ProbeAssumption DEF TypeOK, Sorts, InTable
<1>2. Drives[n] \in Nat /\ Truncated(Drives[n]) \in Nat /\ Truncated(Drives[n]) <= Drives[n]
  <2>1. Drives[n] \in Nat
    BY <1>1
  <2>2. MaxUsize + 1 \in Nat /\ MaxUsize + 1 # 0
    BY ProbeAssumption
  <2> HIDE DEF n
  <2> QED
    BY <2>1, <2>2, ModAtMost DEF Truncated
<1>4. /\ BiosDisk(n) \in DeviceType /\ New(BiosDisk(n)) /\ BiosDisk(n).parent = 0
      /\ BiosDisk(n).disk = n /\ BiosDisk(n).offset = 0 /\ BiosDisk(n).limit = Drives[n]
      /\ BiosDisk(n).blocks = Truncated(Drives[n])
  <2> DEFINE t == Truncated(Drives[n])
             m == Drives[n]
             c == Device(n, 0, "bios", 0, t, m)
  <2>1. 0 \in Nat /\ "bios" \in Kinds \cup {"bios"} /\ t \in Nat /\ m \in Nat
    BY <1>2
  <2> HIDE DEF n, t, m
  <2>2. c \in DeviceType
    BY <1>1, <2>1, DeviceIs
  <2>3. New(c)
    BY <1>1, <2>1, DeviceIs
  <2>4. c.parent = 0 /\ c.disk = n /\ c.offset = 0 /\ c.limit = m /\ c.blocks = t
    BY DEF Device
  <2>5. BiosDisk(n) = c
    BY Zenon DEF BiosDisk, t, m
  <2> HIDE DEF c
  <2> QED
    BY <2>2, <2>3, <2>4, <2>5, Zenon DEF t, m
<1>5. devs \in Seq(DeviceType)
  BY DEF TypeOK, Sorts, InTable
<1>6. Adds(devs, devs', BiosDisk(n))
  <2> HIDE DEF n
  <2> QED
    BY <1>4, <1>5, AddDevice DEF n
<1>7. n \in DOMAIN Drives
  BY <1>1
<1> HIDE DEF n
<1>8. BiosDisk(n).blocks \in Nat /\ BiosDisk(n).blocks <= Drives[n]
  BY <1>2, <1>4
<1> QED
  BY <1>4, <1>6, <1>7, <1>8 DEF n

LEMMA MinIs ==
  ASSUME NEW m \in Nat, NEW n \in Nat
  PROVE  /\ Min({m, n}) \in Nat
         /\ \A x \in Nat : x < Min({m, n}) <=> x < m /\ x < n
<1>1. \E x \in {m, n} : \A y \in {m, n} : x <= y
  OBVIOUS
<1>2. Min({m, n}) \in {m, n} /\ \A y \in {m, n} : Min({m, n}) <= y
  BY <1>1 DEF Min
<1> QED
  BY <1>2

(* A partition's blocks that can be read are those that it and its parent  *)
(* have and that the parent can read.                                      *)
LEMMA PartitionAdded ==
  ASSUME TypeOK, pc = "entries", Verdict.kind = "part", devs' = Append(devs, Partition(Verdict))
  PROVE  /\ Adds(devs, devs', Partition(Verdict)) /\ New(Partition(Verdict))
         /\ Partition(Verdict).parent = at
         /\ Partition(Verdict).offset = devs[at].offset + Verdict.offset
         /\ Partition(Verdict).blocks = Verdict.blocks
         /\ \A x \in Nat : x < Partition(Verdict).limit <=>
              /\ x < Verdict.blocks
              /\ Verdict.offset + x < devs[at].blocks /\ Verdict.offset + x < devs[at].limit
<1> DEFINE v == Verdict
           c == devs[at]
           end == Min({c.blocks, c.limit})
           n == IF v.offset >= end THEN 0 ELSE Min({v.blocks, end - v.offset})
<1>1. v \in VerdictType /\ schemes[scheme] \in Kinds
  BY TableTypes
<1>2. at \in 1..Len(devs) /\ devs \in Seq(DeviceType) /\ at \in Nat
  BY DEF TypeOK, Sorts, InTable, Probing
<1>3. c \in DeviceType
  BY <1>2
<1>4. /\ v.offset \in Nat /\ v.blocks \in Nat /\ c.limit \in Nat /\ c.blocks \in Nat
      /\ c.offset \in Nat /\ c.disk \in Nat
  BY <1>1, <1>3 DEF VerdictType, DeviceType
<1>5. /\ n \in Nat
      /\ \A x \in Nat : x < n <=> x < v.blocks /\ v.offset + x < c.blocks /\ v.offset + x < c.limit
  <2> DEFINE cb == c.blocks  cl == c.limit  o == v.offset  vb == v.blocks
  <2>1. cb \in Nat /\ cl \in Nat /\ o \in Nat /\ vb \in Nat
    BY <1>4
  <2> HIDE DEF v, c
  <2>2. end \in Nat /\ \A x \in Nat : x < end <=> x < c.blocks /\ x < c.limit
    BY <1>4, MinIs
  <2> HIDE DEF end
  <2>3. CASE v.offset >= end
    BY <1>4, <2>2, <2>3
  <2>4. CASE ~ (v.offset >= end)
    <3>1. end - v.offset \in Nat
      BY <1>4, <2>2, <2>4
    <3>2. n = Min({v.blocks, end - v.offset})
      BY <2>4
    <3> HIDE DEF n
    <3>3. n \in Nat /\ \A x \in Nat : x < n <=> x < v.blocks /\ x < end - v.offset
      BY <1>4, <3>1, <3>2, MinIs
    <3> QED
      BY <1>4, <2>2, <3>3
  <2> QED
    BY <2>3, <2>4
<1>6. c.offset + v.offset \in Nat
  BY <1>4
<1>7. Partition(v) = Device(c.disk, at, schemes[scheme], c.offset + v.offset, v.blocks, n)
  BY Zenon DEF Partition
<1> HIDE DEF v, c, n
<1>8. /\ Partition(v) \in DeviceType /\ New(Partition(v)) /\ Partition(v).parent = at
      /\ Partition(v).offset = c.offset + v.offset /\ Partition(v).blocks = v.blocks
      /\ Partition(v).limit = n
  <2> DEFINE off == c.offset + v.offset
             s == schemes[scheme]
  <2>1. off \in Nat /\ s \in Kinds \cup {"bios"}
    BY <1>1, <1>6
  <2> HIDE DEF off, s
  <2>2. Device(c.disk, at, s, off, v.blocks, n) \in DeviceType
    BY <1>2, <1>4, <1>5, <2>1, DeviceIs
  <2>3. New(Device(c.disk, at, s, off, v.blocks, n))
    BY <1>2, <1>4, <1>5, <2>1, DeviceIs
  <2>4. Device(c.disk, at, s, off, v.blocks, n).parent = at
    BY DEF Device
  <2>5. Device(c.disk, at, s, off, v.blocks, n).offset = off
    BY DEF Device
  <2>6. Device(c.disk, at, s, off, v.blocks, n).blocks = v.blocks
    BY DEF Device
  <2>7. Device(c.disk, at, s, off, v.blocks, n).limit = n
    BY DEF Device
  <2> QED
    BY <1>7, <2>2, <2>3, <2>4, <2>5, <2>6, <2>7, Zenon DEF off, s
<1>9. Adds(devs, devs', Partition(v))
  BY <1>2, <1>8, AddDevice DEF v
<1> QED
  BY <1>5, <1>8, <1>9 DEF v, c

(* What can be read of a device does not depend on its marks.              *)
LEMMA DiskSame ==
  ASSUME NEW d, SamePlace(devs'[d], devs[d])
  PROVE  /\ \A b : Readable(d, b)' <=> Readable(d, b)
         /\ \A b : Block(d, b)' = Block(d, b)
         /\ \A s : HasTable(s, d)' <=> HasTable(s, d)
         /\ \A s : Table(s, d)' = Table(s, d)
<1>1. devs'[d].disk = devs[d].disk /\ devs'[d].offset = devs[d].offset /\ devs'[d].limit = devs[d].limit
  BY DEF SamePlace
<1>2. \A b : (Readable(d, b)' <=> Readable(d, b)) /\ Block(d, b)' = Block(d, b)
  BY <1>1 DEF Readable, Block
<1>3. Block(d, 0)' = Block(d, 0) /\ Block(d, 1)' = Block(d, 1)
  BY <1>2
<1>4. ASSUME NEW s PROVE HasTable(s, d)' <=> HasTable(s, d)
  BY <1>2, <1>3, Zenon DEF HasTable
<1>5. ASSUME NEW s PROVE Table(s, d)' = Table(s, d)
  BY <1>3, Zenon DEF Table
<1> QED
  BY <1>2, <1>4, <1>5

LEMMA TypeInit == Init => TypeOK
<1> SUFFICES ASSUME Init PROVE TypeOK
  OBVIOUS
<1>1. schemes \in Seq(Kinds) /\ Room \in Nat
  BY ProbeAssumption DEF Init
<1>2. <<>> \in Seq(DeviceType) /\ <<>> \in Seq(Nat) /\ 0 \in 0..Len(<<>>)
  OBVIOUS
<1>3. pc \in {"start", "shell", "panic", "astray"} \cup Searches
  BY DEF Init
<1>4. drive \in Nat /\ devs \in Seq(DeviceType) /\ fsList \in Seq(Nat)
  BY <1>2 DEF Init
<1>5. schemes \in Seq(Kinds) /\ fat \in BOOLEAN /\ room \in Nat
  BY <1>1 DEF Init
<1>6. at \in 0..Len(devs) /\ retry \in BOOLEAN
  BY <1>2 DEF Init
<1>7. scheme \in Nat \ {0} /\ entry \in Nat \ {0} /\ count \in Nat
  BY <1>2 DEF Init
<1>8. ~ Probing /\ pc # "entries"
  BY DEF Init, Probing
<1> QED
  BY <1>3, <1>4, <1>5, <1>6, <1>7, <1>8 DEF TypeOK, Sorts, InTable

(* The place of a search among the devices.                                *)
LEMMA AtType ==
  ASSUME TypeOK
  PROVE  /\ Len(devs) \in Nat /\ DOMAIN devs = 1..Len(devs) /\ at \in Nat
         /\ Len(schemes) \in Nat /\ DOMAIN schemes = 1..Len(schemes)
         /\ Probing => at \in 1..Len(devs) /\ devs[at] \in DeviceType
BY DEF TypeOK, Sorts, InTable

LEMMA IteratedType ==
  ASSUME TypeOK, Probing, NEW n \in Nat, Iterated(n), Len(devs') \in Nat, Len(devs) <= Len(devs')
  PROVE  /\ pc' \in {"walk", "scheme"} /\ at' \in 0..Len(devs') /\ scheme' \in Nat \ {0}
         /\ entry' \in Nat \ {0} /\ count' \in Nat /\ (pc' = "scheme" => at' # 0)
<1>1. at \in 1..Len(devs) /\ Len(devs) \in Nat /\ scheme \in Nat \ {0}
  BY AtType DEF TypeOK, Sorts, InTable
<1> QED
  BY <1>1 DEF Iterated, Probing, TypeOK, Sorts, InTable

LEMMA TypeStep == TypeOK /\ [Next]_vars => TypeOK'
<1> SUFFICES ASSUME TypeOK, [Next]_vars PROVE TypeOK'
  OBVIOUS
<1>0. /\ Len(devs) \in Nat /\ DOMAIN devs = 1..Len(devs) /\ at \in Nat
      /\ Len(schemes) \in Nat /\ DOMAIN schemes = 1..Len(schemes)
      /\ Probing => at \in 1..Len(devs) /\ devs[at] \in DeviceType
  BY AtType
<1> USE <1>0
<1>1. CASE FindDisk
  <2>0. /\ pc = "start" /\ drive' \in Nat /\ fsList' = fsList /\ schemes' = schemes /\ fat' = fat
        /\ at' = at /\ retry' = retry /\ scheme' = scheme /\ entry' = entry /\ count' = count
    BY <1>1 DEF FindDisk, TypeOK, Sorts, mounts, loaded, cursor
  <2>1. CASE UNCHANGED <<devs, room>> /\ (UNCHANGED pc \/ pc' = "panic")
    <3>1. pc' \in {"start", "shell", "panic", "astray"} \cup Searches
      BY <2>0, <2>1 DEF TypeOK, Sorts, Probing
    <3>2. drive' \in Nat /\ devs' \in Seq(DeviceType) /\ fsList' \in Seq(Nat)
      BY <2>0, <2>1 DEF TypeOK, Sorts, Probing
    <3>3. schemes' \in Seq(Kinds) /\ fat' \in BOOLEAN /\ room' \in Nat
      BY <2>0, <2>1 DEF TypeOK, Sorts, Probing
    <3>4. at' \in 0..Len(devs')
      BY <2>0, <2>1 DEF TypeOK, Sorts, Probing
    <3>5. retry' \in BOOLEAN /\ scheme' \in Nat \ {0} /\ entry' \in Nat \ {0} /\ count' \in Nat
      BY <2>0, <2>1 DEF TypeOK, Sorts, Probing
    <3>6. (Probing => at # 0)'
      BY <2>0, <2>1 DEF TypeOK, Sorts, Probing
    <3>7. pc' # "entries"
      BY <2>0, <2>1 DEF TypeOK, Sorts, Probing
    <3> QED
      BY <3>1, <3>2, <3>3, <3>4, <3>5, <3>6, <3>7 DEF TypeOK, Sorts, InTable
  <2>2. CASE room >= 2 /\ devs' = Append(devs, BiosDisk(drive + 1)) /\ room' = room - 2 /\ UNCHANGED pc
    <3>1. Adds(devs, devs', BiosDisk(drive + 1))
      BY <1>1, <2>2, DiskFound DEF FindDisk
    <3>2. devs' \in Seq(DeviceType) /\ Len(devs') = Len(devs) + 1
      BY <3>1 DEF Adds
    <3>3. room \in Nat /\ room' \in Nat
      BY <2>2 DEF TypeOK, Sorts, InTable
    <3> QED
      <4>1. pc' \in {"start", "shell", "panic", "astray"} \cup Searches
        BY <2>0, <2>2, <3>2, <3>3 DEF TypeOK, Sorts, Probing
      <4>2. drive' \in Nat /\ devs' \in Seq(DeviceType) /\ fsList' \in Seq(Nat)
        BY <2>0, <2>2, <3>2, <3>3 DEF TypeOK, Sorts, Probing
      <4>3. schemes' \in Seq(Kinds) /\ fat' \in BOOLEAN /\ room' \in Nat
        BY <2>0, <2>2, <3>2, <3>3 DEF TypeOK, Sorts, Probing
      <4>4. at' \in 0..Len(devs')
        BY <2>0, <2>2, <3>2, <3>3 DEF TypeOK, Sorts, Probing
      <4>5. retry' \in BOOLEAN /\ scheme' \in Nat \ {0} /\ entry' \in Nat \ {0} /\ count' \in Nat
        BY <2>0, <2>2, <3>2, <3>3 DEF TypeOK, Sorts, Probing
      <4>6. (Probing => at # 0)'
        BY <2>0, <2>2, <3>2, <3>3 DEF TypeOK, Sorts, Probing
      <4>7. pc' # "entries"
        BY <2>0, <2>2, <3>2, <3>3 DEF TypeOK, Sorts, Probing
      <4> QED
        BY <4>1, <4>2, <4>3, <4>4, <4>5, <4>6, <4>7 DEF TypeOK, Sorts, InTable
  <2> QED
    BY <1>1, <2>1, <2>2 DEF FindDisk
<1>2. CASE Started \/ RmmodFat \/ Search \/ Passed \/ WalkEnds \/ NoScheme
  <2> USE DEF TypeOK, Sorts, InTable, found, mounts, loaded, cursor, Probing, Searches
  <2>1. CASE Started
    BY <2>1 DEF Started
  <2>2. CASE RmmodFat
    <3>1. Sorts'
      BY <2>2 DEF RmmodFat
    <3>2. InTable'
      BY <2>2, Zenon DEF RmmodFat
    <3> QED
      BY <3>1, <3>2
  <2>3. CASE Search
    <3>1. Sorts'
      <4>1. pc' \in {"start", "shell", "panic", "astray"} \cup Searches
        BY <2>3 DEF Search
      <4>2. drive' \in Nat /\ devs' \in Seq(DeviceType) /\ fsList' \in Seq(Nat)
        BY <2>3 DEF Search
      <4>3. schemes' \in Seq(Kinds) /\ fat' \in BOOLEAN /\ room' \in Nat
        BY <2>3 DEF Search
      <4>4. at' \in 0..Len(devs')
        BY <2>3 DEF Search
      <4>5. retry' \in BOOLEAN
        BY <2>3 DEF Search
      <4>6. scheme' \in Nat \ {0} /\ entry' \in Nat \ {0} /\ count' \in Nat
        BY <2>3 DEF Search
      <4>7. ~ Probing'
        BY <2>3 DEF Search
      <4> QED
        BY <4>1, <4>2, <4>3, <4>4, <4>5, <4>6, <4>7
    <3>2. InTable'
      BY <2>3 DEF Search
    <3> QED
      BY <3>1, <3>2
  <2>4. CASE Passed
    <3>1. Sorts'
      BY <2>4 DEF Passed
    <3>2. InTable'
      BY <2>4 DEF Passed
    <3> QED
      BY <3>1, <3>2
  <2>5. CASE WalkEnds
    <3>0. /\ devs' = devs /\ drive' = drive /\ fsList' = fsList /\ schemes' = schemes /\ fat' = fat
          /\ room' = room /\ scheme' = scheme /\ entry' = entry /\ count' = count
          /\ pc' \in {"walk", "shell"} /\ at' \in {at, Len(devs)} /\ retry' \in BOOLEAN
      BY <2>5 DEF WalkEnds
    <3>1. Sorts'
      BY <3>0
    <3>2. InTable'
      BY <3>0
    <3> QED
      BY <3>1, <3>2
  <2>6. CASE NoScheme
    <3>1. pc' \in {"start", "shell", "panic", "astray"} \cup Searches
      BY <2>6 DEF NoScheme
    <3>2. drive' \in Nat /\ devs' \in Seq(DeviceType) /\ fsList' \in Seq(Nat)
      BY <2>6 DEF NoScheme
    <3>3. schemes' \in Seq(Kinds) /\ fat' \in BOOLEAN /\ room' \in Nat
      BY <2>6 DEF NoScheme
    <3>4. at' \in 0..Len(devs')
      BY <2>6 DEF NoScheme
    <3>5. retry' \in BOOLEAN /\ scheme' \in Nat \ {0} /\ entry' \in Nat \ {0} /\ count' \in Nat
      BY <2>6 DEF NoScheme
    <3>6. (Probing => at # 0)'
      BY <2>6 DEF NoScheme
    <3>7. pc' # "entries"
      BY <2>6 DEF NoScheme
    <3> QED
      BY <3>1, <3>2, <3>3, <3>4, <3>5, <3>6, <3>7 DEF TypeOK, Sorts, InTable
  <2> QED
    BY <1>2, <2>1, <2>2, <2>3, <2>4, <2>5, <2>6
<1>3. CASE RmmodScheme
  <2>1. PICK i \in DOMAIN schemes : schemes' = RemoveAt(schemes, i)
    BY <1>3 DEF RmmodScheme
  <2>2. schemes' \in Seq(Kinds)
    <3>1. i \in 1..Len(schemes) /\ schemes \in Seq(Kinds)
      BY <2>1 DEF TypeOK, Sorts, InTable
    <3>2. SubSeq(schemes, 1, i - 1) \in Seq(Kinds) /\ SubSeq(schemes, i + 1, Len(schemes)) \in Seq(Kinds)
      BY <3>1
    <3> QED
      BY <2>1, <3>2 DEF RemoveAt
  <2> QED
    BY <1>3, <2>2 DEF RmmodScheme, TypeOK, Sorts, InTable, found, mounts, cursor, Probing, Searches
<1>4. CASE ProbeStart
  <2>1. at \in 1..Len(devs) /\ devs \in Seq(DeviceType) /\ schemes \in Seq(Kinds) /\ fat \in BOOLEAN
    BY <1>4 DEF ProbeStart, TypeOK, Sorts, InTable
  <2>2. devs' \in Seq(DeviceType) /\ Len(devs') = Len(devs)
    BY <1>4, <2>1, MarkProbed DEF ProbeStart, Marks
  <2> QED
    BY <1>4, <2>1, <2>2 DEF ProbeStart, TypeOK, Sorts, InTable, mounts, loaded, Probing, Searches
<1>5. CASE Iterate
  <2>1. at \in 1..Len(devs) /\ devs \in Seq(DeviceType) /\ Probing
    BY <1>5 DEF Iterate, Probing, TypeOK, Sorts, InTable
  <2>2. CASE Iterated(0) /\ (Failed(at) \/ UNCHANGED devs) /\ UNCHANGED room
    <3>1. devs' \in Seq(DeviceType) /\ Len(devs') = Len(devs)
      BY <2>1, <2>2, MarkFailed DEF Marks
    <3>2. /\ pc' \in {"walk", "scheme"} /\ at' \in 0..Len(devs') /\ scheme' \in Nat \ {0}
          /\ entry' \in Nat \ {0} /\ count' \in Nat /\ (pc' = "scheme" => at' # 0)
      BY <2>1, <2>2, <3>1, IteratedType
    <3> QED
      BY <1>5, <2>2, <3>1, <3>2 DEF Iterate, TypeOK, Sorts, InTable, mounts, loaded, Probing, Searches
  <2>3. CASE /\ HasTable(schemes[scheme], at) /\ room >= Buffers(schemes[scheme])
             /\ room' = room - Buffers(schemes[scheme])
             /\ pc' = "entries" /\ UNCHANGED <<devs, at, cursor>>
    <3>1. room' \in Nat /\ room \in Nat
      BY <2>3 DEF TypeOK, Sorts, InTable, Buffers
    <3>2. scheme \in DOMAIN schemes
      BY <1>5 DEF Iterate, TypeOK, Sorts, InTable
    <3>3. schemes' = schemes /\ scheme' = scheme /\ at' = at /\ entry' = entry /\ count' = count
      BY <1>5, <2>3 DEF Iterate, loaded, cursor
    <3>4. HasTable(schemes[scheme], at)'
      BY <2>3, <3>3 DEF HasTable, Readable, Block
    <3> QED
      BY <1>5, <2>1, <2>3, <3>1, <3>2, <3>3, <3>4 DEF Iterate, TypeOK, Sorts, InTable, mounts, loaded, Probing, Searches
  <2> QED
    BY <1>5, <2>2, <2>3 DEF Iterate
<1>6. CASE TableEnds
  <2>1. Buffers(schemes[scheme]) \in {1, 2} /\ Probing /\ count \in Nat /\ room \in Nat
    BY <1>6, TableTypes DEF TableEnds, Probing, TypeOK, Sorts, InTable
  <2>2. room' \in Nat /\ devs' = devs
    BY <1>6, <2>1 DEF TableEnds, found
  <2>3. /\ pc' \in {"walk", "scheme"} /\ at' \in 0..Len(devs') /\ scheme' \in Nat \ {0}
        /\ entry' \in Nat \ {0} /\ count' \in Nat /\ (pc' = "scheme" => at' # 0)
    BY <1>6, <2>1, <2>2, IteratedType DEF TableEnds
  <2> QED
    BY <1>6, <2>1, <2>2, <2>3 DEF TableEnds, TypeOK, Sorts, InTable, found, mounts, loaded, Probing, Searches
<1>7. CASE Skipped
  <2>1. HasTable(schemes[scheme], at)'
    BY <1>7 DEF Skipped, TypeOK, Sorts, InTable, found, loaded, HasTable, Readable, Block
  <2> QED
    BY <1>7, <2>1 DEF Skipped, TypeOK, Sorts, InTable, found, mounts, loaded, Probing, Searches
<1>8. CASE PartitionFound
  <2>1. /\ Buffers(schemes[scheme]) \in {1, 2} /\ Probing /\ count \in Nat /\ room \in Nat
        /\ at \in 1..Len(devs) /\ devs \in Seq(DeviceType)
        /\ Buffers("mbr") \in {1, 2}
    BY <1>8, TableTypes DEF PartitionFound, Probing, TypeOK, Sorts, InTable, Buffers
  <2>2. UNCHANGED <<drive, mounts, loaded, retry>> /\ pc = "entries" /\ Verdict.kind = "part"
    BY <1>8 DEF PartitionFound
  <2>3. CASE NoScratch
    <3>1. devs' \in Seq(DeviceType) /\ Len(devs') = Len(devs) /\ SamePlace(devs'[at], devs[at])
      BY <2>1, <2>3, MarkFailed DEF NoScratch, Marks
    <3>2. CASE Iterated(count) /\ room' = room + Buffers("mbr")
      <4>1. /\ pc' \in {"walk", "scheme"} /\ at' \in 0..Len(devs') /\ scheme' \in Nat \ {0}
            /\ entry' \in Nat \ {0} /\ count' \in Nat /\ (pc' = "scheme" => at' # 0)
        BY <2>1, <3>1, <3>2, IteratedType
      <4>2. room' \in Nat
        BY <2>1, <3>2
      <4> QED
        BY <2>2, <3>1, <4>1, <4>2 DEF TypeOK, Sorts, InTable, mounts, loaded, Probing, Searches
    <3>3. CASE entry' = entry + 1 /\ UNCHANGED <<pc, room, at, scheme, count>>
      <4>1. HasTable(schemes[scheme], at)'
        <5>1. HasTable(schemes[scheme], at) /\ schemes' = schemes /\ scheme' = scheme /\ at' = at
          BY <2>2, <3>3 DEF TypeOK, Sorts, InTable, loaded
        <5> QED
          BY <5>1, <3>1, DiskSame DEF HasTable, Readable, Block, SamePlace
      <4> QED
        BY <2>2, <3>1, <3>3, <4>1 DEF TypeOK, Sorts, InTable, mounts, loaded, Probing, Searches
    <3> QED
      BY <2>3, <3>2, <3>3 DEF NoScratch
  <2>4. CASE NoCopy
    <3>1. devs' \in Seq(DeviceType) /\ Len(devs') = Len(devs)
      BY <2>1, <2>4, MarkFailed DEF NoCopy, Marks
    <3>2. /\ pc' \in {"walk", "scheme"} /\ at' \in 0..Len(devs') /\ scheme' \in Nat \ {0}
          /\ entry' \in Nat \ {0} /\ count' \in Nat /\ (pc' = "scheme" => at' # 0)
      BY <2>1, <2>4, <3>1, IteratedType DEF NoCopy
    <3>3. room' \in Nat
      BY <2>1, <2>4 DEF NoCopy
    <3> QED
      BY <2>2, <3>1, <3>2, <3>3 DEF TypeOK, Sorts, InTable, mounts, loaded, Probing, Searches
  <2>5. CASE Astray
    BY <2>1, <2>2, <2>5 DEF Astray, TypeOK, Sorts, InTable, mounts, loaded, cursor, Probing, Searches
  <2>6. CASE Registers
    <3>1. Adds(devs, devs', Partition(Verdict))
      BY <2>2, <2>6, PartitionAdded DEF Registers
    <3>2. devs' \in Seq(DeviceType) /\ Len(devs') = Len(devs) + 1 /\ devs'[at] = devs[at]
      BY <2>1, <3>1 DEF Adds
    <3>3. HasTable(schemes[scheme], at)'
      BY <2>2, <2>6, <3>2 DEF Registers, TypeOK, Sorts, InTable, loaded, HasTable, Readable, Block
    <3>4. room' \in Nat
      BY <2>1, <2>6 DEF Registers
    <3> QED
      BY <2>2, <2>6, <3>2, <3>3, <3>4 DEF Registers, TypeOK, Sorts, InTable, mounts, loaded, Probing, Searches
  <2> QED
    BY <1>8, <2>3, <2>4, <2>5, <2>6 DEF PartitionFound
<1>9. CASE NotMounted
  <2>1. at \in 1..Len(devs) /\ devs \in Seq(DeviceType)
    BY <1>9 DEF NotMounted, TypeOK, Sorts, InTable, Probing
  <2>2. devs' \in Seq(DeviceType) /\ Len(devs') = Len(devs)
    BY <1>9, <2>1, MarkFailed DEF NotMounted, Marks
  <2> QED
    BY <1>9, <2>1, <2>2 DEF NotMounted, TypeOK, Sorts, InTable, mounts, loaded, cursor, Probing, Searches
<1>10. CASE Mounted
  <2>1. at \in 1..Len(devs) /\ devs \in Seq(DeviceType) /\ room \in Nat /\ fsList \in Seq(Nat)
    BY <1>10 DEF Mounted, TypeOK, Sorts, InTable, Probing
  <2>2. devs' \in Seq(DeviceType) /\ Len(devs') = Len(devs)
    BY <1>10, <2>1, MarkFailed, MarkCached DEF Mounted, Marks
  <2>3. fsList' \in Seq(Nat) /\ room' \in Nat
    BY <1>10, <2>1 DEF Mounted
  <2> QED
    BY <1>10, <2>1, <2>2, <2>3 DEF Mounted, TypeOK, Sorts, InTable, loaded, cursor, Probing, Searches
<1>11. CASE UNCHANGED vars
  BY <1>11 DEF vars, TypeOK, Sorts, InTable, Probing, HasTable, Readable, Block
<1> QED
  BY <1>1, <1>2, <1>3, <1>4, <1>5, <1>6, <1>7, <1>8, <1>9, <1>10, <1>11 DEF Next, Step

LEMMA Types == Spec => []TypeOK
<1> QED
  BY TypeInit, TypeStep, PTL DEF Spec

----------------------------------------------------------------------------
(* The heap.                                                               *)

(* What a table being read holds, and the devices whose probe is over and  *)
(* has failed: each may have lost a block.                                 *)
Busy == IF pc = "entries" THEN Buffers(schemes[scheme]) ELSE 0
Lossy == {d \in DOMAIN devs : devs[d].failed /\ ~(Probing /\ d = at)}
WithCache == {d \in DOMAIN devs : devs[d].cached}
InUse == room + 2 * Len(devs) + Len(fsList) + Busy
Balance == \E lost \in 0..Cardinality(Lossy) : InUse + 4 * Cardinality(WithCache) + lost = Room

(* A device whose probe has not begun has not failed, and one whose probe  *)
(* is not over has no cache.                                               *)
Marked ==
  /\ \A d \in DOMAIN devs : devs[d].failed \/ devs[d].cached => devs[d].probed
  /\ Probing => devs[at].probed /\ ~devs[at].cached

HeapInv == pc # "astray" => Marked /\ Balance

LEMMA SomeOf ==
  ASSUME NEW n \in Nat, NEW S \in SUBSET (1..n)
  PROVE  IsFiniteSet(S) /\ Cardinality(S) \in Nat
BY RankExists, FS_CardinalityType

LEMMA HeapTypes ==
  TypeOK => /\ IsFiniteSet(Lossy) /\ Cardinality(Lossy) \in Nat /\ Cardinality(WithCache) \in Nat
            /\ InUse \in Nat
<1> SUFFICES ASSUME TypeOK
             PROVE  /\ IsFiniteSet(Lossy) /\ Cardinality(Lossy) \in Nat
                    /\ Cardinality(WithCache) \in Nat /\ InUse \in Nat
  OBVIOUS
<1>1. DOMAIN devs = 1..Len(devs) /\ Len(devs) \in Nat /\ room \in Nat /\ Len(fsList) \in Nat
  BY DEF TypeOK, Sorts
<1>2. Lossy \in SUBSET (1..Len(devs)) /\ WithCache \in SUBSET (1..Len(devs))
  BY <1>1 DEF Lossy, WithCache
<1>3. Busy \in {0, 1, 2}
  BY DEF Busy, Buffers
<1>4. InUse \in Nat
  BY <1>1, <1>3 DEF InUse
<1> QED
  BY <1>1, <1>2, <1>4, SomeOf

LEMMA HeapTypesNext ==
  TypeOK' => /\ IsFiniteSet(Lossy') /\ Cardinality(Lossy') \in Nat /\ Cardinality(WithCache') \in Nat
             /\ InUse' \in Nat
<1>1. TypeOK' => (/\ IsFiniteSet(Lossy) /\ Cardinality(Lossy) \in Nat /\ Cardinality(WithCache) \in Nat
                  /\ InUse \in Nat)'
  BY HeapTypes, PTL
<1> QED
  BY <1>1

(* Two ways in which a step keeps the balance: nothing is lost, or a       *)
(* device's probe ends with a failure and one block less.                  *)
LEMMA Balanced ==
  ASSUME TypeOK, TypeOK', Balance, WithCache' = WithCache, Lossy \subseteq Lossy', InUse' = InUse
  PROVE  Balance'
<1>1. Cardinality(Lossy) <= Cardinality(Lossy')
  <2>1. IsFiniteSet(Lossy')
    BY HeapTypes, HeapTypesNext
  <2> QED
    BY <2>1, FS_Subset
<1>2. Cardinality(Lossy) \in Nat /\ Cardinality(Lossy') \in Nat
  BY HeapTypes, HeapTypesNext
<1> QED
  BY <1>1, <1>2 DEF Balance

LEMMA OneLost ==
  ASSUME TypeOK, TypeOK', Balance, WithCache' = WithCache, Lossy \subseteq Lossy',
         at \in Lossy', at \notin Lossy, InUse' = InUse - 1
  PROVE  Balance'
<1>1. Cardinality(Lossy) + 1 <= Cardinality(Lossy')
  <2>1. IsFiniteSet(Lossy') /\ IsFiniteSet(Lossy)
    BY HeapTypes, HeapTypesNext
  <2>2. Lossy \cup {at} \in SUBSET Lossy'
    OBVIOUS
  <2>3. Cardinality(Lossy \cup {at}) = Cardinality(Lossy) + 1
    BY <2>1, FS_AddElement
  <2> QED
    BY <2>1, <2>2, <2>3, FS_Subset
<1>2. Cardinality(Lossy) \in Nat /\ Cardinality(Lossy') \in Nat /\ Cardinality(WithCache) \in Nat
      /\ InUse \in Nat /\ InUse' \in Nat
  BY HeapTypes, HeapTypesNext
<1>3. PICK lost \in 0..Cardinality(Lossy) : InUse + 4 * Cardinality(WithCache) + lost = Room
  BY DEF Balance
<1>4. lost + 1 \in 0..Cardinality(Lossy')
  BY <1>1, <1>2, <1>3
<1>5. InUse' + 4 * Cardinality(WithCache)' + (lost + 1) = Room
  BY <1>2, <1>3
<1> QED
  BY <1>4, <1>5 DEF Balance

(* Buffers and devices, when the heap's account does not change: the step  *)
(* of a table's end, its beginning, and those between.                     *)
LEMMA BusyIs ==
  /\ pc = "entries" => Busy = Buffers(schemes[scheme])
  /\ pc # "entries" => Busy = 0
  /\ \A s : Buffers(s) \in {1, 2}
BY DEF Busy, Buffers
LEMMA BusyNext ==
  /\ pc' = "entries" => Busy' = Buffers(schemes'[scheme'])
  /\ pc' # "entries" => Busy' = 0
BY DEF Busy, Buffers

(* The probe of a device goes on or ends, and may have failed.             *)
LEMMA MarksKeep ==
  ASSUME TypeOK, Marked, Probing, Marks(devs, devs', at), Probing' => at' = at,
         devs'[at].probed = devs[at].probed, devs'[at].cached = devs[at].cached
  PROVE  Marked' /\ WithCache' = WithCache /\ Lossy \subseteq Lossy'
<1>1. DOMAIN devs = 1..Len(devs) /\ at \in DOMAIN devs /\ DOMAIN devs' = DOMAIN devs
  BY AtType DEF Marks
<1>2. \A d \in DOMAIN devs : d # at => devs'[d] = devs[d]
  BY DEF Marks
<1>3. \A d \in DOMAIN devs : devs'[d].cached = devs[d].cached /\ devs'[d].probed = devs[d].probed
  BY <1>1, <1>2
<1>4. Marked'
  BY <1>1, <1>2, <1>3 DEF Marked
<1>5. WithCache' = WithCache
  BY <1>1, <1>3 DEF WithCache
<1>6. Lossy \subseteq Lossy'
  BY <1>1, <1>2 DEF Lossy
<1> QED
  BY <1>4, <1>5, <1>6

(* A device is added, and no probe ends.                                   *)
LEMMA AddsKeep ==
  ASSUME TypeOK, Marked, NEW c, Adds(devs, devs', c), New(c), Probing' = Probing, at' = at
  PROVE  Marked' /\ WithCache' = WithCache /\ Lossy \subseteq Lossy'
<1>1. DOMAIN devs = 1..Len(devs) /\ DOMAIN devs' = DOMAIN devs \cup {Len(devs) + 1}
      /\ Len(devs) \in Nat /\ (Probing => at \in DOMAIN devs)
  BY AtType DEF Adds
<1>2. /\ \A d \in DOMAIN devs : devs'[d] = devs[d]
      /\ ~devs'[Len(devs) + 1].failed /\ ~devs'[Len(devs) + 1].cached
  BY DEF Adds, New
<1>4. Marked'
  BY <1>1, <1>2 DEF Marked
<1>5. WithCache' = WithCache
  BY <1>1, <1>2 DEF WithCache
<1>6. Lossy \subseteq Lossy'
  BY <1>1, <1>2 DEF Lossy
<1> QED
  BY <1>4, <1>5, <1>6

(* Nothing happens to the devices.                                         *)
LEMMA SameKeeps ==
  ASSUME TypeOK, Marked, devs' = devs, Probing' => Probing /\ at' = at
  PROVE  Marked' /\ WithCache' = WithCache /\ Lossy \subseteq Lossy'
BY DEF Marked, WithCache, Lossy

LEMMA IteratedEnds ==
  ASSUME NEW n, Iterated(n)
  PROVE  pc' \in {"walk", "scheme"} /\ (pc' = "scheme" => at' = at)
BY DEF Iterated

LEMMA HeapStep == TypeOK /\ HeapInv /\ [Next]_vars /\ TypeOK' => HeapInv'
<1> SUFFICES ASSUME TypeOK, HeapInv, [Next]_vars, TypeOK', pc' # "astray" PROVE Marked' /\ Balance'
  BY DEF HeapInv
<1>0. ASSUME pc # "astray" PROVE Marked /\ Balance
  BY <1>0 DEF HeapInv
<1> DEFINE Keeps == Marked' /\ WithCache' = WithCache /\ Lossy \subseteq Lossy'
<1>k. ASSUME pc # "astray", Keeps, InUse' = InUse PROVE Marked' /\ Balance'
  BY <1>0, <1>k, Balanced
<1>n. /\ Len(devs) \in Nat /\ Len(devs') \in Nat /\ Len(fsList) \in Nat /\ room \in Nat /\ room' \in Nat
      /\ devs \in Seq(DeviceType) /\ count \in Nat
      /\ (Probing => at \in 1..Len(devs)) /\ (Probing => at \in DOMAIN devs)
  BY AtType DEF TypeOK, Sorts
<1> USE <1>n
<1>1. CASE FindDisk
  <2>1. pc = "start" /\ pc' \in {"start", "panic"} /\ fsList' = fsList /\ at' = at /\ drive < Len(Drives)
    BY <1>1 DEF FindDisk, mounts
  <2>2. CASE devs' = devs /\ room' = room
    <3>1. Keeps
      BY <1>0, <2>1, <2>2, SameKeeps DEF Probing
    <3>2. InUse' = InUse
      BY <2>1, <2>2, BusyIs, BusyNext DEF InUse
    <3> QED
      BY <1>k, <2>1, <3>1, <3>2
  <2>3. CASE room >= 2 /\ devs' = Append(devs, BiosDisk(drive + 1)) /\ room' = room - 2
    <3>1. Adds(devs, devs', BiosDisk(drive + 1)) /\ New(BiosDisk(drive + 1))
      BY <2>1, <2>3, DiskFound
    <3>2. Keeps
      BY <1>0, <2>1, <3>1, AddsKeep DEF Probing
    <3>3. Len(devs') = Len(devs) + 1
      BY <3>1 DEF Adds
    <3>4. InUse' = InUse
      BY <2>1, <2>3, <3>3, BusyIs, BusyNext DEF InUse
    <3> QED
      BY <1>k, <2>1, <3>2, <3>4
  <2> QED
    BY <1>1, <2>2, <2>3 DEF FindDisk
<1>2. CASE Started \/ RmmodScheme \/ RmmodFat \/ Search \/ Passed \/ WalkEnds \/ UNCHANGED vars \/ NoScheme
  <2>1. /\ devs' = devs /\ room' = room /\ fsList' = fsList
        /\ ~ Probing' \/ (at' = at /\ (Probing <=> Probing'))
    <3> USE DEF found, mounts
    <3>1. CASE Started
      BY <3>1 DEF Started, Probing
    <3>2. CASE RmmodScheme
      BY <3>2 DEF RmmodScheme, Probing
    <3>3. CASE RmmodFat
      BY <3>3 DEF RmmodFat, Probing
    <3>4. CASE Search
      BY <3>4 DEF Search, Probing
    <3>5. CASE Passed
      BY <3>5 DEF Passed, Probing
    <3>6. CASE WalkEnds
      BY <3>6 DEF WalkEnds, Probing
    <3>7. CASE UNCHANGED vars
      BY <3>7 DEF vars, Probing
    <3>8. CASE NoScheme
      BY <3>8 DEF NoScheme, Probing
    <3> QED
      BY <1>2, <3>1, <3>2, <3>3, <3>4, <3>5, <3>6, <3>7, <3>8
  <2>2. /\ pc # "astray"
        /\ \/ pc # "entries" /\ pc' # "entries"
           \/ pc = "entries" /\ pc' = "entries" /\ schemes' = schemes /\ scheme' = scheme
    BY <1>2 DEF Started, RmmodScheme, RmmodFat, Search, Passed, WalkEnds, NoScheme, vars
  <2>3. Keeps
    BY <1>0, <2>1, <2>2, SameKeeps
  <2>4. Busy' = Busy
    BY <2>2, BusyIs, BusyNext
  <2>5. InUse' = InUse
    BY <2>1, <2>4 DEF InUse
  <2> QED
    BY <1>k, <2>2, <2>3, <2>5
<1>3. CASE ProbeStart
  <2>1. pc = "walk" /\ pc' = "scheme" /\ at \in 1..Len(devs) /\ at' = at /\ ~devs[at].probed
        /\ fsList' = fsList /\ room' = room /\ schemes \in Seq(Kinds) /\ fat \in BOOLEAN
    BY <1>3 DEF ProbeStart, mounts, TypeOK, Sorts
  <2>2. /\ Marks(devs, devs', at) /\ devs'[at].probed
        /\ devs'[at].cached = devs[at].cached /\ devs'[at].failed = devs[at].failed
    BY <1>3, <2>1, MarkProbed DEF ProbeStart
  <2>3. /\ DOMAIN devs' = DOMAIN devs /\ DOMAIN devs = 1..Len(devs) /\ Len(devs') = Len(devs)
        /\ \A d \in DOMAIN devs : d # at => devs'[d] = devs[d]
    BY <2>2 DEF Marks
  <2>4. Marked /\ Balance /\ ~devs[at].failed /\ ~devs[at].cached
    BY <1>0, <2>1, <2>3 DEF Marked
  <2>5. Keeps
    <3>1. Marked'
      BY <2>1, <2>2, <2>3, <2>4 DEF Marked
    <3>2. WithCache' = WithCache
      BY <2>2, <2>3 DEF WithCache
    <3>3. Lossy \subseteq Lossy'
      BY <2>1, <2>2, <2>3, <2>4 DEF Lossy, Probing
    <3> QED
      BY <3>1, <3>2, <3>3
  <2>6. InUse' = InUse
    BY <2>1, <2>3, BusyIs, BusyNext DEF InUse
  <2> QED
    BY <1>k, <2>1, <2>5, <2>6
<1>4. CASE Iterate
  <2>1. /\ pc = "scheme" /\ fsList' = fsList /\ schemes' = schemes /\ at \in 1..Len(devs)
    BY <1>4 DEF Iterate, mounts, loaded, TypeOK, Sorts, Probing
  <2>2. Probing /\ Marked /\ Balance
    BY <1>0, <2>1 DEF Probing
  <2>3. CASE Iterated(0) /\ (Failed(at) \/ devs' = devs) /\ room' = room
    <3>1. pc' \in {"walk", "scheme"} /\ (pc' = "scheme" => at' = at)
      BY <2>3, IteratedEnds
    <3>2. Probing' => at' = at
      BY <3>1 DEF Probing
    <3>3. Keeps /\ Len(devs') = Len(devs)
      <4>1. CASE Failed(at)
        BY <2>1, <2>2, <3>2, <4>1, MarkFailed, MarksKeep DEF Marks
      <4>2. CASE devs' = devs
        BY <2>2, <3>2, <4>2, SameKeeps
      <4> QED
        BY <2>3, <4>1, <4>2
    <3>4. InUse' = InUse
      BY <2>1, <2>3, <3>1, <3>3, BusyIs, BusyNext DEF InUse
    <3> QED
      BY <1>k, <2>1, <3>3, <3>4
  <2>4. CASE /\ room >= Buffers(schemes[scheme]) /\ room' = room - Buffers(schemes[scheme])
             /\ pc' = "entries" /\ UNCHANGED <<devs, at, cursor>>
    <3>1. Keeps
      BY <2>2, <2>4, SameKeeps
    <3>2. Buffers(schemes[scheme]) \in Nat /\ schemes'[scheme'] = schemes[scheme]
      BY <2>1, <2>4, BusyIs DEF cursor
    <3>3. InUse' = InUse
      BY <2>1, <2>4, <3>2, BusyIs, BusyNext DEF InUse
    <3> QED
      BY <1>k, <2>1, <3>1, <3>3
  <2> QED
    BY <1>4, <2>3, <2>4 DEF Iterate
<1>5. CASE TableEnds \/ Skipped
  <2>1. pc = "entries" /\ devs' = devs /\ fsList' = fsList /\ Buffers(schemes[scheme]) \in {1, 2}
    BY <1>5, BusyIs DEF TableEnds, Skipped, found, mounts
  <2>2. Probing /\ Marked /\ Balance
    BY <1>0, <2>1 DEF Probing
  <2>3. CASE TableEnds
    <3>1. pc' \in {"walk", "scheme"} /\ (pc' = "scheme" => at' = at)
          /\ room' = room + Buffers(schemes[scheme])
      BY <2>3, IteratedEnds DEF TableEnds
    <3>2. Keeps
      BY <2>1, <2>2, <3>1, SameKeeps DEF Probing
    <3>3. InUse' = InUse
      BY <2>1, <3>1, BusyIs, BusyNext DEF InUse
    <3> QED
      BY <1>k, <2>1, <3>2, <3>3
  <2>4. CASE Skipped
    <3>1. pc' = pc /\ room' = room /\ schemes'[scheme'] = schemes[scheme] /\ at' = at
      BY <2>4 DEF Skipped, loaded
    <3>2. Keeps
      BY <2>1, <2>2, <3>1, SameKeeps
    <3>3. InUse' = InUse
      BY <2>1, <3>1, BusyIs, BusyNext DEF InUse
    <3> QED
      BY <1>k, <2>1, <3>2, <3>3
  <2> QED
    BY <1>5, <2>3, <2>4
<1>6. CASE PartitionFound
  <2>1. /\ pc = "entries" /\ fsList' = fsList /\ schemes' = schemes /\ at \in 1..Len(devs)
        /\ Verdict.kind = "part"
    BY <1>6 DEF PartitionFound, mounts, loaded, TypeOK, Sorts, Probing
  <2>2. Probing /\ Marked /\ Balance /\ Buffers(schemes[scheme]) \in {1, 2}
    BY <1>0, <2>1, BusyIs DEF Probing
  <2>3. CASE NoScratch
    <3>1. /\ Marks(devs, devs', at) /\ devs'[at].probed = devs[at].probed
          /\ devs'[at].cached = devs[at].cached
      BY <2>1, <2>3, MarkFailed DEF NoScratch
    <3>2. CASE schemes[scheme] = "mbr" /\ Iterated(count) /\ room' = room + Buffers("mbr")
      <4>1. pc' \in {"walk", "scheme"} /\ (pc' = "scheme" => at' = at)
            /\ room' = room + Buffers(schemes[scheme])
        BY <3>2, IteratedEnds
      <4>2. Keeps
        BY <2>2, <3>1, <4>1, MarksKeep DEF Probing
      <4>3. InUse' = InUse
        BY <2>1, <2>2, <3>1, <4>1, BusyIs, BusyNext DEF InUse, Marks
      <4> QED
        BY <1>k, <2>1, <4>2, <4>3
    <3>3. CASE entry' = entry + 1 /\ UNCHANGED <<pc, room, at, scheme, count>>
      <4>1. Keeps
        BY <2>2, <3>1, <3>3, MarksKeep
      <4>2. InUse' = InUse
        BY <2>1, <3>1, <3>3, BusyIs, BusyNext DEF InUse, Marks
      <4> QED
        BY <1>k, <2>1, <4>1, <4>2
    <3> QED
      BY <2>3, <3>2, <3>3 DEF NoScratch
  <2>4. CASE NoCopy
    <3>1. /\ Marks(devs, devs', at) /\ devs'[at].probed = devs[at].probed
          /\ devs'[at].cached = devs[at].cached /\ devs'[at].failed
      BY <2>1, <2>4, MarkFailed DEF NoCopy
    <3>2. /\ pc' = "walk" /\ room' = room - 1 + Buffers(schemes[scheme]) /\ room >= 1
      <4>1. Iterated(count + 1) /\ count + 1 > 0
        BY <2>4 DEF NoCopy
      <4> QED
        BY <2>4, <4>1 DEF NoCopy, Iterated
    <3>3. Keeps
      BY <2>2, <3>1, <3>2, MarksKeep DEF Probing
    <3>4. InUse' = InUse - 1
      BY <2>1, <2>2, <3>1, <3>2, BusyIs, BusyNext DEF InUse, Marks
    <3>5. at \in Lossy' /\ at \notin Lossy
      BY <2>1, <2>2, <3>1, <3>2 DEF Lossy, Probing, Marks
    <3> QED
      BY <2>2, <3>3, <3>4, <3>5, OneLost
  <2>5. ~ Astray
    BY DEF Astray
  <2>6. CASE Registers
    <3>1. Adds(devs, devs', Partition(Verdict)) /\ New(Partition(Verdict))
      BY <2>1, <2>6, PartitionAdded DEF Registers
    <3>2. pc' = pc /\ at' = at /\ room' = room - 2 /\ schemes'[scheme'] = schemes[scheme] /\ room >= 2
      BY <2>1, <2>6 DEF Registers
    <3>3. Keeps
      BY <2>2, <3>1, <3>2, AddsKeep DEF Probing
    <3>4. InUse' = InUse
      BY <2>1, <2>2, <3>1, <3>2, BusyIs, BusyNext DEF InUse, Adds
    <3> QED
      BY <1>k, <2>1, <3>3, <3>4
  <2> QED
    BY <1>6, <2>3, <2>4, <2>5, <2>6 DEF PartitionFound
<1>7. CASE NotMounted
  <2>1. /\ pc = "types" /\ pc' = "walk" /\ fsList' = fsList /\ room' = room /\ at \in 1..Len(devs)
    BY <1>7 DEF NotMounted, mounts, TypeOK, Sorts, Probing
  <2>2. Probing /\ Marked /\ Balance /\ ~ Probing'
    BY <1>0, <2>1 DEF Probing
  <2>3. Keeps /\ Len(devs') = Len(devs)
    <3>1. CASE devs' = devs
      BY <2>2, <3>1, SameKeeps
    <3>2. CASE Failed(at)
      BY <2>1, <2>2, <3>2, MarkFailed, MarksKeep DEF Marks
    <3> QED
      BY <1>7, <3>1, <3>2 DEF NotMounted
  <2>4. InUse' = InUse
    BY <2>1, <2>3, BusyIs, BusyNext DEF InUse
  <2> QED
    BY <1>k, <2>1, <2>3, <2>4
<1>8. CASE Mounted
  <2>1. /\ pc = "types" /\ pc' = "walk" /\ at \in 1..Len(devs) /\ Len(fsList') = Len(fsList) + 1
    BY <1>8 DEF Mounted, TypeOK, Sorts, Probing
  <2>2. Probing /\ Marked /\ Balance /\ ~ Probing'
    BY <1>0, <2>1 DEF Probing
  <2>3. CASE Failed(at)
    <3>1. /\ Marks(devs, devs', at) /\ devs'[at].probed = devs[at].probed
          /\ devs'[at].cached = devs[at].cached /\ devs'[at].failed
      BY <2>1, <2>3, MarkFailed
    <3>2. Keeps /\ Len(devs') = Len(devs)
      BY <2>2, <3>1, MarksKeep DEF Marks
    <3>3. at \in Lossy' /\ at \notin Lossy
      BY <2>1, <2>2, <3>1 DEF Lossy, Marks
    <3>4. CASE room >= 1 /\ room' = room - 1
      <4>1. InUse' = InUse
        BY <2>1, <3>2, <3>4, BusyIs, BusyNext DEF InUse
      <4> QED
        BY <1>k, <2>1, <3>2, <4>1
    <3>5. CASE room >= 4 /\ room' = room - 2
      <4>1. InUse' = InUse - 1
        BY <2>1, <3>2, <3>5, BusyIs, BusyNext DEF InUse
      <4> QED
        BY <2>2, <3>2, <3>3, <4>1, OneLost
    <3>6. CASE room >= 5 /\ room' = room - 5 /\ devs' = [devs EXCEPT ![at].cached = TRUE]
      <4>1. devs'[at].cached
        BY <2>1, <3>6, MarkCached
      <4> QED
        BY <2>2, <3>1, <4>1 DEF Marked
    <3> QED
      BY <1>8, <3>4, <3>5, <3>6 DEF Mounted
  <2>4. CASE room >= 5 /\ room' = room - 5 /\ devs' = [devs EXCEPT ![at].cached = TRUE]
    <3>1. /\ Marks(devs, devs', at) /\ devs'[at].probed = devs[at].probed
          /\ devs'[at].failed = devs[at].failed /\ devs'[at].cached
      BY <2>1, <2>4, MarkCached
    <3>2. /\ DOMAIN devs' = DOMAIN devs /\ DOMAIN devs = 1..Len(devs) /\ Len(devs') = Len(devs)
          /\ \A d \in DOMAIN devs : d # at => devs'[d] = devs[d]
      BY <3>1 DEF Marks
    <3>3. devs[at].probed /\ ~devs[at].cached
      BY <2>2 DEF Marked
    <3>4. Marked'
      BY <2>2, <3>1, <3>2, <3>3 DEF Marked
    <3>5. WithCache' = WithCache \cup {at} /\ at \notin WithCache
      BY <2>1, <3>1, <3>2, <3>3 DEF WithCache
    <3>6. Cardinality(WithCache') = Cardinality(WithCache) + 1
      <4>1. WithCache \in SUBSET (1..Len(devs))
        BY <3>2 DEF WithCache
      <4> QED
        BY <3>5, <4>1, SomeOf, FS_AddElement
    <3>7. Lossy \subseteq Lossy'
      BY <2>2, <3>1, <3>2 DEF Lossy
    <3>8. InUse' = InUse - 4
      <4>1. Busy = 0 /\ Busy' = 0
        BY <2>1, BusyIs, BusyNext
      <4>2. room' = room - 5 /\ Len(fsList') = Len(fsList) + 1 /\ Len(devs') = Len(devs)
        BY <2>1, <2>4, <3>2
      <4> QED
        BY <4>1, <4>2 DEF InUse
    <3>9. Cardinality(Lossy) <= Cardinality(Lossy')
      BY <3>7, HeapTypesNext, FS_Subset
    <3>10. /\ Cardinality(Lossy) \in Nat /\ Cardinality(Lossy') \in Nat /\ Cardinality(WithCache) \in Nat
           /\ InUse \in Nat
      BY HeapTypes, HeapTypesNext
    <3>11. PICK lost \in 0..Cardinality(Lossy) : InUse + 4 * Cardinality(WithCache) + lost = Room
      BY <2>2 DEF Balance
    <3>12. lost \in 0..Cardinality(Lossy') /\ InUse' + 4 * Cardinality(WithCache') + lost = Room
      BY <3>6, <3>8, <3>9, <3>10, <3>11
    <3> QED
      BY <3>4, <3>12 DEF Balance
  <2> QED
    BY <1>8, <2>3, <2>4 DEF Mounted
<1> QED
  BY <1>1, <1>2, <1>3, <1>4, <1>5, <1>6, <1>7, <1>8 DEF Next, Step

LEMMA HeapInit == Init => HeapInv
<1> SUFFICES ASSUME Init PROVE Marked /\ Balance
  BY DEF HeapInv
<1>1. /\ devs = <<>> /\ fsList = <<>> /\ pc = "start" /\ room = Room /\ Room \in Nat
  BY ProbeAssumption DEF Init
<1>2. Len(devs) = 0 /\ DOMAIN devs = {} /\ Len(fsList) = 0
  BY <1>1
<1>3. Marked
  BY <1>1, <1>2 DEF Marked, Probing
<1>4. Lossy = {} /\ WithCache = {}
  BY <1>2 DEF Lossy, WithCache
<1>5. Cardinality(Lossy) = 0 /\ Cardinality(WithCache) = 0
  BY <1>4, FS_EmptySet
<1>6. InUse + 4 * 0 + 0 = Room
  BY <1>1, <1>2, BusyIs DEF InUse
<1> QED
  BY <1>3, <1>5, <1>6 DEF Balance

LEMMA HeapInvariant == Spec => []HeapInv
<1> QED
  BY HeapInit, HeapStep, Types, PTL DEF Spec

(* Between commands the heap's blocks are free or owned, but for one at    *)
(* most per device whose probe has failed: searchTask and what it calls.   *)
THEOREM ProbeHeapAccounted == Spec => []HeapAccounted
<1>1. TypeOK /\ HeapInv => HeapAccounted
  <2> SUFFICES ASSUME TypeOK, HeapInv, pc = "shell"
               PROVE  Room - room - Owned \in 0..Cardinality({d \in DOMAIN devs : devs[d].failed})
    BY DEF HeapAccounted
  <2>1. Balance /\ ~ Probing
    BY DEF HeapInv, Probing
  <2>2. Lossy = {d \in DOMAIN devs : devs[d].failed}
    BY <2>1 DEF Lossy
  <2>3. PICK lost \in 0..Cardinality(Lossy) : InUse + 4 * Cardinality(WithCache) + lost = Room
    BY <2>1 DEF Balance
  <2>4. /\ Cardinality(Lossy) \in Nat /\ Cardinality(WithCache) \in Nat
        /\ room \in Nat /\ Len(devs) \in Nat /\ Len(fsList) \in Nat
    BY HeapTypes DEF TypeOK, Sorts
  <2>5. Owned = 2 * Len(devs) + Len(fsList) + 4 * Cardinality(WithCache)
    BY DEF Owned, WithCache
  <2>6. InUse = room + 2 * Len(devs) + Len(fsList)
    BY <2>4, BusyIs DEF InUse
  <2>7. Room - room - Owned = lost
    BY <2>3, <2>4, <2>5, <2>6
  <2> QED
    BY <2>2, <2>3, <2>7
<1> QED
  BY <1>1, Types, HeapInvariant, PTL

----------------------------------------------------------------------------
(* What is on a device, and what has been registered of it.                *)
UsedOf(T) == {i \in DOMAIN T : T[i].kind = "part" /\ \A j \in 1..i : T[j].kind # "stop"}
PartsOf(T) ==
  [k \in 1..Cardinality(UsedOf(T)) |->
    <<T[Nth(UsedOf(T), k)].offset, T[Nth(UsedOf(T), k)].blocks>>]

LEMMA MbrIs ==
  ASSUME NEW es \in [1..4 -> MbrEntries], NEW T, T = [i \in 1..4 |-> MbrEntry(es[i])]
  PROVE  MbrParts(es) = PartsOf(T)
<1>1. ASSUME NEW i \in 1..4
      PROVE  /\ T[i].kind = "stop" <=> (es[i].bad_status \/ es[i].type = "gpt")
             /\ T[i].kind = "part" <=> (~es[i].bad_status /\ es[i].type = "data")
             /\ T[i].kind = "part" => T[i].offset = es[i].start /\ T[i].blocks = es[i].sectors
  <2>1. T[i] = MbrEntry(es[i]) /\ es[i] \in MbrEntries
    OBVIOUS
  <2> QED
    BY <2>1 DEF MbrEntry, MbrEntries, Part, Skip, Stop
<1>2. DOMAIN T = 1..4 /\ \A i \in 1..4 : 1..i \subseteq 1..4
  OBVIOUS
<1>3. MbrUsed(es) = UsedOf(T)
  <2>1. ASSUME NEW i \in 1..4
        PROVE  i \in MbrUsed(es) <=> i \in UsedOf(T)
    <3>1. i \in 1..i /\ i \in Nat
      OBVIOUS
    <3>2. \A j \in 1..i : j \in 1..4
      BY <1>2
    <3> QED
      BY <1>1, <1>2, <3>1, <3>2, Zenon DEF MbrUsed, UsedOf
  <2>2. MbrUsed(es) \subseteq 1..4 /\ UsedOf(T) \subseteq 1..4
    BY <1>2 DEF MbrUsed, UsedOf
  <2> QED
    BY <2>1, <2>2
<1> DEFINE U == UsedOf(T)
<1>4. U \in SUBSET (1..4) /\ \A i \in U : T[i].kind = "part"
  BY <1>2 DEF UsedOf
<1> HIDE DEF U
<1>5. ASSUME NEW k \in 1..Cardinality(U)
      PROVE  <<es[Nth(U, k)].start, es[Nth(U, k)].sectors>> = <<T[Nth(U, k)].offset, T[Nth(U, k)].blocks>>
  <2>1. Nth(U, k) \in U
    BY <1>4, NthInSet
  <2>2. Nth(U, k) \in 1..4 /\ T[Nth(U, k)].kind = "part"
    BY <1>4, <2>1
  <2> QED
    BY <1>1, <2>2
<1>6. MbrParts(es) = [k \in 1..Cardinality(U) |-> <<es[Nth(U, k)].start, es[Nth(U, k)].sectors>>]
  BY <1>3, Zenon DEF MbrParts, U
<1>7. PartsOf(T) = [k \in 1..Cardinality(U) |-> <<T[Nth(U, k)].offset, T[Nth(U, k)].blocks>>]
  BY Zenon DEF PartsOf, U
<1> QED
  BY <1>5, <1>6, <1>7

LEMMA GptIs ==
  ASSUME NEW es \in Seq(GptEntries), NEW T, T = [i \in DOMAIN es |-> GptEntry(es[i])]
  PROVE  GptParts(es) = PartsOf(T)
<1>0. DOMAIN es = 1..Len(es) /\ Len(es) \in Nat /\ \A i \in DOMAIN es : es[i] \in GptEntries
  OBVIOUS
<1>1. ASSUME NEW i \in DOMAIN es
      PROVE  /\ T[i].kind = "stop" <=> ~(es[i].used => es[i].start <= es[i].end)
             /\ T[i].kind = "part" <=>
                  /\ es[i].used /\ es[i].start <= es[i].end
                  /\ es[i].end < es[i].start + MaxUsize /\ es[i].start <= MaxUsize
             /\ T[i].kind = "part" =>
                  T[i].offset = es[i].start /\ T[i].blocks = es[i].end - es[i].start + 1
  <2>1. T[i] = GptEntry(es[i]) /\ es[i] \in GptEntries
    BY <1>0
  <2> DEFINE e == es[i]
  <2>2. e.used \in BOOLEAN /\ e.start \in Nat /\ e.end \in Nat
    BY <2>1 DEF GptEntries
  <2>3. ASSUME NEW a \in Nat, NEW b \in Nat, NEW m \in Nat
        PROVE  (b - a + 1 > m <=> ~(b < a + m)) /\ (a > b <=> ~(a <= b)) /\ (a > m <=> ~(a <= m))
    OBVIOUS
  <2>4. MaxUsize \in Nat
    BY ProbeAssumption
  <2>5. /\ e.end - e.start + 1 > MaxUsize <=> ~(e.end < e.start + MaxUsize)
        /\ e.start > e.end <=> ~(e.start <= e.end)
        /\ e.start > MaxUsize <=> ~(e.start <= MaxUsize)
    BY <2>2, <2>3, <2>4
  <2> DEFINE g == GptEntry(e)
  <2>6. CASE ~e.used
    BY <2>1, <2>6 DEF GptEntry, Skip
  <2>7. CASE e.used /\ ~(e.start <= e.end)
    BY <2>1, <2>5, <2>7 DEF GptEntry, Stop
  <2>8. CASE e.used /\ e.start <= e.end /\ ~(e.end < e.start + MaxUsize /\ e.start <= MaxUsize)
    BY <2>1, <2>5, <2>8 DEF GptEntry, Skip
  <2>9. CASE e.used /\ e.start <= e.end /\ e.end < e.start + MaxUsize /\ e.start <= MaxUsize
    <3>1. GptEntry(e) = Part(e.start, e.end - e.start + 1)
      BY <2>5, <2>9 DEF GptEntry
    <3> QED
      BY <2>1, <2>9, <3>1 DEF Part
  <2> QED
    BY <2>2, <2>6, <2>7, <2>8, <2>9
<1>2. DOMAIN T = DOMAIN es /\ \A i \in DOMAIN es : 1..i \subseteq DOMAIN es
  BY <1>0
<1>3. GptUsed(es) = UsedOf(T)
  <2>1. ASSUME NEW i \in DOMAIN es
        PROVE  i \in GptUsed(es) <=> i \in UsedOf(T)
    <3>1. i \in 1..i
      BY <1>0
    <3>2. \A j \in 1..i : j \in DOMAIN es
      BY <1>2
    <3> QED
      BY <1>1, <1>2, <3>1, <3>2, Zenon DEF GptUsed, UsedOf
  <2>2. GptUsed(es) \subseteq DOMAIN es /\ UsedOf(T) \subseteq DOMAIN es
    BY <1>2 DEF GptUsed, UsedOf
  <2> QED
    BY <2>1, <2>2
<1> DEFINE U == UsedOf(T)
<1>4. U \in SUBSET (1..Len(es)) /\ \A i \in U : T[i].kind = "part"
  BY <1>0, <1>2 DEF UsedOf
<1> HIDE DEF U
<1>5. ASSUME NEW k \in 1..Cardinality(U)
      PROVE  <<es[Nth(U, k)].start, es[Nth(U, k)].end - es[Nth(U, k)].start + 1>>
             = <<T[Nth(U, k)].offset, T[Nth(U, k)].blocks>>
  <2>1. Nth(U, k) \in U
    BY <1>0, <1>4, NthInSet
  <2>2. Nth(U, k) \in DOMAIN es /\ T[Nth(U, k)].kind = "part"
    BY <1>0, <1>4, <2>1
  <2> QED
    BY <1>1, <2>2
<1>6. GptParts(es) =
        [k \in 1..Cardinality(U) |-> <<es[Nth(U, k)].start, es[Nth(U, k)].end - es[Nth(U, k)].start + 1>>]
  BY <1>3, Zenon DEF GptParts, U
<1>7. PartsOf(T) = [k \in 1..Cardinality(U) |-> <<T[Nth(U, k)].offset, T[Nth(U, k)].blocks>>]
  BY Zenon DEF PartsOf, U
<1> QED
  BY <1>5, <1>6, <1>7

(* What a device has as far as it can be read, by the model's own measure. *)
TableParts(s, d) ==
  CASE ~HasTable(s, d) -> <<>>
    [] HasTable(s, d) /\ s = "mbr" -> MbrParts(Mbr[Block(d, 0)])
    [] OTHER -> GptParts(Gpt[Block(d, 1)].entries)
Wanted(d) ==
  LET with == {i \in DOMAIN devs[d].tried : TableParts(devs[d].tried[i], d) # <<>>}
  IN IF with = {} THEN <<>>
     ELSE TableParts(devs[d].tried[CHOOSE i \in with : \A j \in with : i <= j], d)

(* The reference reads from a table what the loop over its entries meets.  *)
LEMMA PartsIs ==
  ASSUME NEW d, NEW s \in Kinds
  PROVE  TableParts(s, d) = IF HasTable(s, d) THEN PartsOf(Table(s, d)) ELSE <<>>
<1>1. CASE ~HasTable(s, d)
  BY <1>1 DEF TableParts
<1>2. CASE HasTable(s, d) /\ s = "mbr"
  <2> DEFINE es == Mbr[Block(d, 0)]
  <2>1. es \in [1..4 -> MbrEntries]
    BY <1>2, ProbeAssumption DEF HasTable
  <2>2. Table(s, d) = [i \in 1..4 |-> MbrEntry(es[i])] /\ TableParts(s, d) = MbrParts(es)
    BY <1>2 DEF Table, TableParts
  <2> HIDE DEF es
  <2> QED
    BY <1>2, <2>1, <2>2, MbrIs
<1>3. CASE HasTable(s, d) /\ s = "gpt"
  <2> DEFINE es == Gpt[Block(d, 1)].entries
  <2>1. es \in Seq(GptEntries)
    BY <1>3, ProbeAssumption DEF HasTable
  <2>2. Table(s, d) = [i \in DOMAIN es |-> GptEntry(es[i])] /\ TableParts(s, d) = GptParts(es)
    BY <1>3 DEF Table, TableParts
  <2> HIDE DEF es
  <2> QED
    BY <1>3, <2>1, <2>2, GptIs
<1> QED
  BY <1>1, <1>2, <1>3 DEF Kinds

----------------------------------------------------------------------------
(* What a search finds.                                                    *)

(* A partition comes after the device it is in, which has been probed.     *)
Tree ==
  \A c \in DOMAIN devs :
    devs[c].parent < c /\ (devs[c].parent # 0 => devs[devs[c].parent].probed)

(* A device is mounted once, at the end of its probe.                      *)
Mounts ==
  /\ \A k \in DOMAIN fsList :
       /\ fsList[k] \in DOMAIN devs /\ devs[fsList[k]].probed
       /\ ~(Probing /\ fsList[k] = at)
  /\ \A k, l \in DOMAIN fsList : fsList[k] = fsList[l] => k = l

(* A turn without retry leaves nothing unprobed behind it.                 *)
Turns ==
  /\ pc = "start" => \A d \in DOMAIN devs : ~devs[d].probed
  /\ Probing => /\ retry /\ devs[at].probed
                /\ devs[at].tried = schemes /\ devs[at].fat = fat
  /\ pc = "walk" /\ ~retry => \A d \in DOMAIN devs : d > at => devs[d].probed
  /\ pc = "shell" /\ (\E d \in DOMAIN devs : devs[d].probed) =>
       \A d \in DOMAIN devs : devs[d].probed

(* The entries before the one the loop has come to.                        *)
Before(T, e) == {i \in DOMAIN T : i < e /\ T[i].kind = "part"}
Found(d, T, U) ==
  /\ count = Cardinality(Of(d)) /\ count = Cardinality(U)
  /\ \A k \in 1..count :
       LET c == devs[Nth(Of(d), k)]
           v == T[Nth(U, k)]
       IN c.offset - devs[d].offset = v.offset /\ c.blocks = v.blocks
SoFar(d, T, e) ==
  /\ \A j \in 1..(e - 1) : j \in DOMAIN T /\ T[j].kind # "stop"
  /\ Found(d, T, Before(T, e))

(* The device being probed, as long as nothing has failed: the schemes     *)
(* tried have found nothing, and the one being tried has registered what   *)
(* its table says, up to the entry it has come to.                         *)
Progress ==
  Probing =>
    /\ pc = "scheme" => entry = 1 /\ count = 0
    /\ ~devs[at].failed =>
         /\ \A i \in DOMAIN schemes : i < scheme => TableParts(schemes[i], at) = <<>>
         /\ pc # "entries" => Of(at) = {}
         /\ pc = "types" => scheme > Len(schemes)
         /\ pc = "entries" => SoFar(at, Table(schemes[scheme], at), entry)

(* A device whose probe is over.                                           *)
Mountable(d) == devs[d].fat /\ Wanted(d) = <<>> /\ Readable(d, 0) /\ Block(d, 0) \in Fat
Complete(d) == Children(d) = Wanted(d) /\ (HasFs(d) <=> Mountable(d))
Finished ==
  \A d \in DOMAIN devs :
    devs[d].probed /\ ~devs[d].failed /\ ~(Probing /\ d = at) => Complete(d)

FindInv == pc # "astray" => Tree /\ Mounts /\ Turns /\ Progress /\ Finished

LEMMA OfType == TypeOK => \A d : Of(d) \in SUBSET (1..Len(devs)) /\ Of(d) \subseteq DOMAIN devs
BY AtType DEF Of

(* What is expected of a device is what the first of the schemes tried     *)
(* says whose table has any partition.                                     *)
LEMMA WantedIs ==
  TypeOK => \A d \in DOMAIN devs :
    /\ DOMAIN devs[d].tried \subseteq Nat
    /\ (\A i \in DOMAIN devs[d].tried : TableParts(devs[d].tried[i], d) = <<>>) => Wanted(d) = <<>>
    /\ \A i \in DOMAIN devs[d].tried :
         /\ TableParts(devs[d].tried[i], d) # <<>>
         /\ \A j \in DOMAIN devs[d].tried : j < i => TableParts(devs[d].tried[j], d) = <<>>
         => Wanted(d) = TableParts(devs[d].tried[i], d)
<1> SUFFICES ASSUME TypeOK, NEW d \in DOMAIN devs
             PROVE  /\ DOMAIN devs[d].tried \subseteq Nat
                    /\ (\A i \in DOMAIN devs[d].tried : TableParts(devs[d].tried[i], d) = <<>>)
                         => Wanted(d) = <<>>
                    /\ \A i \in DOMAIN devs[d].tried :
                         /\ TableParts(devs[d].tried[i], d) # <<>>
                         /\ \A j \in DOMAIN devs[d].tried : j < i => TableParts(devs[d].tried[j], d) = <<>>
                         => Wanted(d) = TableParts(devs[d].tried[i], d)
  OBVIOUS
<1> DEFINE t == devs[d].tried
           W == {i \in DOMAIN t : TableParts(t[i], d) # <<>>}
<1>1. DOMAIN t \subseteq Nat
  <2>1. devs[d] \in DeviceType
    BY DEF TypeOK, Sorts
  <2>2. t \in Seq(Kinds)
    BY <2>1 DEF DeviceType
  <2> QED
    BY <2>2
<1>2. Wanted(d) = IF W = {} THEN <<>> ELSE TableParts(t[CHOOSE i \in W : \A j \in W : i <= j], d)
  BY Zenon DEF Wanted
<1>3. ASSUME NEW i \in DOMAIN t, TableParts(t[i], d) # <<>>,
             \A j \in DOMAIN t : j < i => TableParts(t[j], d) = <<>>
      PROVE  Wanted(d) = TableParts(t[i], d)
  <2>1. i \in W /\ W \subseteq Nat /\ \A j \in W : i <= j
    BY <1>1, <1>3
  <2> HIDE DEF W
  <2>2. (CHOOSE m \in W : \A j \in W : m <= j) = i
    <3> DEFINE Q(m) == m \in W /\ \A j \in W : m <= j
    <3>1. Q(i)
      BY <2>1
    <3>2. ASSUME NEW m, Q(m) PROVE m = i
      <4>1. m \in Nat /\ i \in Nat /\ m <= i /\ i <= m
        BY <2>1, <3>2
      <4> QED
        BY <4>1
    <3>3. (CHOOSE m : Q(m)) = i
      <4> HIDE DEF Q
      <4> QED
        BY <3>1, <3>2
    <3> QED
      BY <3>3, Zenon
  <2> QED
    BY <1>2, <2>1, <2>2
<1>4. ASSUME \A i \in DOMAIN t : TableParts(t[i], d) = <<>> PROVE Wanted(d) = <<>>
  BY <1>2, <1>4
<1> QED
  BY <1>1, <1>3, <1>4

LEMMA WantedNext ==
  TypeOK' => \A d \in DOMAIN devs' :
    /\ (\A i \in DOMAIN devs'[d].tried : TableParts(devs[d].tried[i], d)' = <<>>) => Wanted(d)' = <<>>
    /\ \A i \in DOMAIN devs'[d].tried :
         /\ TableParts(devs[d].tried[i], d)' # <<>>
         /\ \A j \in DOMAIN devs'[d].tried : j < i => TableParts(devs[d].tried[j], d)' = <<>>
         => Wanted(d)' = TableParts(devs[d].tried[i], d)'
<1>1. TypeOK' => (\A d \in DOMAIN devs :
    /\ DOMAIN devs[d].tried \subseteq Nat
    /\ (\A i \in DOMAIN devs[d].tried : TableParts(devs[d].tried[i], d) = <<>>) => Wanted(d) = <<>>
    /\ \A i \in DOMAIN devs[d].tried :
         /\ TableParts(devs[d].tried[i], d) # <<>>
         /\ \A j \in DOMAIN devs[d].tried : j < i => TableParts(devs[d].tried[j], d) = <<>>
         => Wanted(d) = TableParts(devs[d].tried[i], d))'
  BY WantedIs, PTL
<1> QED
  BY <1>1

(* What a table holds does not depend on what has been probed.             *)
LEMMA PartsSame ==
  ASSUME NEW d, SamePlace(devs'[d], devs[d])
  PROVE  \A s : TableParts(s, d)' = TableParts(s, d)
<1>1. ASSUME NEW s PROVE TableParts(s, d)' = TableParts(s, d)
  <2>1. Block(d, 0)' = Block(d, 0) /\ Block(d, 1)' = Block(d, 1) /\ (HasTable(s, d)' <=> HasTable(s, d))
    BY DiskSame
  <2> QED
    BY <2>1, Zenon DEF TableParts
<1> QED
  BY <1>1

(* Whether a device is complete depends on what has been registered of it, *)
(* and what is mounted, only.                                              *)
LEMMA CompleteSame ==
  ASSUME TypeOK, TypeOK', NEW d \in DOMAIN devs, d \in DOMAIN devs', DOMAIN devs \subseteq DOMAIN devs',
         \A c \in DOMAIN devs : SamePlace(devs'[c], devs[c]),
         \A c \in DOMAIN devs' : c \notin DOMAIN devs => devs'[c].parent # d
  PROVE  /\ Of(d)' = Of(d) /\ Children(d)' = Children(d)
         /\ devs'[d].tried = devs[d].tried => Wanted(d)' = Wanted(d)
         /\ devs'[d].tried = devs[d].tried /\ devs'[d].fat = devs[d].fat /\ (HasFs(d)' <=> HasFs(d))
              => (Complete(d)' <=> Complete(d))
<1>1. Of(d)' = Of(d)
  BY DEF Of, SamePlace
<1>2. Children(d)' = Children(d)
  <2> DEFINE U == Of(d)
  <2>1. U \in SUBSET (1..Len(devs)) /\ U \subseteq DOMAIN devs /\ Len(devs) \in Nat
    BY OfType, AtType
  <2>2. Children(d) = [k \in 1..Cardinality(U) |->
          <<devs[Nth(U, k)].offset - devs[d].offset, devs[Nth(U, k)].blocks>>]
    BY Zenon DEF Children
  <2>3. Children(d)' = [k \in 1..Cardinality(U') |->
          <<devs'[Nth(U', k)].offset - devs'[d].offset, devs'[Nth(U', k)].blocks>>]
    BY Zenon DEF Children, Nth
  <2>4. U' = U
    BY <1>1
  <2> HIDE DEF U
  <2>5. ASSUME NEW k \in 1..Cardinality(U)
        PROVE  /\ devs'[Nth(U, k)].offset = devs[Nth(U, k)].offset
               /\ devs'[Nth(U, k)].blocks = devs[Nth(U, k)].blocks
    <3>1. Nth(U, k) \in DOMAIN devs
      BY <2>1, NthInSet
    <3> QED
      BY <3>1 DEF SamePlace
  <2>6. devs'[d].offset = devs[d].offset
    BY DEF SamePlace
  <2> QED
    BY <2>2, <2>3, <2>4, <2>5, <2>6
<1>3. (\A b : Readable(d, b)' <=> Readable(d, b)) /\ \A b : Block(d, b)' = Block(d, b)
  BY DiskSame
<1>4. \A s : TableParts(s, d)' = TableParts(s, d)
  BY PartsSame
<1>5. ASSUME devs'[d].tried = devs[d].tried PROVE Wanted(d)' = Wanted(d)
  <2> DEFINE t == devs[d].tried
             W == {i \in DOMAIN t : TableParts(t[i], d) # <<>>}
  <2>1. CASE W = {}
    <3>1. \A i \in DOMAIN t : TableParts(t[i], d) = <<>>
      BY <2>1
    <3>2. \A i \in DOMAIN devs'[d].tried : TableParts(devs[d].tried[i], d)' = <<>>
      BY <1>4, <1>5, <3>1
    <3> QED
      BY <3>1, <3>2, WantedIs, WantedNext
  <2>2. CASE W # {}
    <3>1. W \in SUBSET Nat
      BY WantedIs
    <3>2. PICK i \in W : \A j \in W : i <= j
      <4> HIDE DEF W
      <4> QED
        BY <2>2, <3>1, LeastElement
    <3>3. /\ i \in DOMAIN t /\ TableParts(t[i], d) # <<>>
          /\ \A j \in DOMAIN t : j < i => TableParts(t[j], d) = <<>>
      BY <3>1, <3>2, WantedIs
    <3>4. /\ i \in DOMAIN devs'[d].tried /\ TableParts(devs[d].tried[i], d)' # <<>>
          /\ \A j \in DOMAIN devs'[d].tried : j < i => TableParts(devs[d].tried[j], d)' = <<>>
      BY <1>4, <1>5, <3>3
    <3>5. Wanted(d) = TableParts(t[i], d)
      BY <3>3, WantedIs
    <3>6. Wanted(d)' = TableParts(devs[d].tried[i], d)'
      BY <3>4, WantedNext
    <3>7. TableParts(devs[d].tried[i], d)' = TableParts(devs'[d].tried[i], d)
      BY <1>4
    <3> QED
      BY <1>5, <3>5, <3>6, <3>7
  <2> QED
    BY <2>1, <2>2
<1>6. ASSUME devs'[d].tried = devs[d].tried, devs'[d].fat = devs[d].fat, HasFs(d)' <=> HasFs(d)
      PROVE  Complete(d)' <=> Complete(d)
  <2>1. Wanted(d)' = Wanted(d)
    BY <1>5, <1>6
  <2>2. Mountable(d)' <=> Mountable(d)
    BY <1>3, <1>6, <2>1, Zenon DEF Mountable
  <2> QED
    BY <1>2, <1>6, <2>1, <2>2, Zenon DEF Complete
<1> QED
  BY <1>1, <1>2, <1>5, <1>6

----------------------------------------------------------------------------
(* What a search finds: each step.                                         *)
Same(d) ==
  /\ devs'[d].tried = devs[d].tried /\ devs'[d].fat = devs[d].fat
  /\ HasFs(d)' <=> HasFs(d)

LEMMA FinishedKept ==
  ASSUME TypeOK, TypeOK', Finished, DOMAIN devs \subseteq DOMAIN devs',
         \A c \in DOMAIN devs : SamePlace(devs'[c], devs[c]),
         \A c \in DOMAIN devs' : c \notin DOMAIN devs =>
           ~devs'[c].probed /\ (devs'[c].parent = 0 \/ (Probing' /\ devs'[c].parent = at')),
         \A d \in DOMAIN devs :
           devs'[d].probed /\ ~devs'[d].failed /\ ~(Probing' /\ d = at') =>
             \/ Complete(d)'
             \/ devs[d].probed /\ ~devs[d].failed /\ ~(Probing /\ d = at) /\ Same(d)
  PROVE  Finished'
<1> SUFFICES ASSUME NEW d \in DOMAIN devs', devs'[d].probed, ~devs'[d].failed, ~(Probing' /\ d = at')
             PROVE  Complete(d)'
  BY DEF Finished
<1>1. d \in DOMAIN devs /\ d # 0
  BY AtType
<1>2. CASE devs[d].probed /\ ~devs[d].failed /\ ~(Probing /\ d = at) /\ Same(d)
  <2>1. Complete(d)
    BY <1>1, <1>2 DEF Finished
  <2>2. \A c \in DOMAIN devs' : c \notin DOMAIN devs => devs'[c].parent # d
    BY <1>1
  <2>3. devs'[d].tried = devs[d].tried /\ devs'[d].fat = devs[d].fat /\ (HasFs(d)' <=> HasFs(d))
    BY <1>2 DEF Same
  <2> QED
    BY <1>1, <2>1, <2>2, <2>3, CompleteSame
<1> QED
  BY <1>1, <1>2

(* Nothing is probed, and nothing found but a disk.                        *)
LEMMA DevicesSame ==
  ASSUME TypeOK, TypeOK', Tree, Mounts, Finished, devs' = devs, fsList' = fsList, ~Probing, ~Probing'
  PROVE  Tree' /\ Mounts' /\ Finished' /\ Progress'
<1>1. Tree' /\ Mounts'
  BY DEF Tree, Mounts
<1>2. Progress'
  BY DEF Progress
<1>3. \A d \in DOMAIN devs : Same(d) /\ SamePlace(devs'[d], devs[d])
  BY DEF Same, SamePlace, HasFs
<1>4. Finished'
  BY <1>3, FinishedKept
<1> QED
  BY <1>1, <1>2, <1>4

LEMMA DiskAdded ==
  ASSUME TypeOK, TypeOK', Tree, Mounts, Finished, NEW c, Adds(devs, devs', c), New(c), c.parent = 0,
         fsList' = fsList, ~Probing, ~Probing'
  PROVE  Tree' /\ Mounts' /\ Finished' /\ Progress'
<1>1. /\ DOMAIN devs = 1..Len(devs) /\ DOMAIN devs' = DOMAIN devs \cup {Len(devs) + 1} /\ Len(devs) \in Nat
      /\ \A d \in DOMAIN devs : devs'[d] = devs[d]
      /\ devs'[Len(devs) + 1].parent = 0 /\ ~devs'[Len(devs) + 1].probed
  BY DEF Adds, New
<1>2. Tree'
  <2> SUFFICES ASSUME NEW d \in DOMAIN devs'
               PROVE  devs'[d].parent < d /\ (devs'[d].parent # 0 => devs'[devs'[d].parent].probed)
    BY DEF Tree
  <2>1. CASE d \in DOMAIN devs
    <3>1. /\ devs[d].parent < d /\ (devs[d].parent # 0 => devs[devs[d].parent].probed)
          /\ devs[d] \in DeviceType
      BY <2>1 DEF Tree, TypeOK, Sorts
    <3>2. devs[d].parent # 0 => devs[d].parent \in DOMAIN devs
      BY <1>1, <2>1, <3>1 DEF DeviceType
    <3> QED
      BY <1>1, <2>1, <3>1, <3>2
  <2> QED
    BY <1>1, <2>1
<1>3. Mounts' /\ Progress'
  BY <1>1 DEF Mounts, Progress
<1>4. \A d \in DOMAIN devs : Same(d) /\ SamePlace(devs'[d], devs[d])
  BY <1>1 DEF Same, SamePlace, HasFs
<1>5. Finished'
  BY <1>1, <1>4, FinishedKept
<1> QED
  BY <1>2, <1>3, <1>5

(* The marks of the device being probed change.                            *)
LEMMA MarksSame ==
  ASSUME devs \in Seq(DeviceType), at \in 1..Len(devs)
  PROVE  Marks(devs, devs, at)
BY DEF Marks, SamePlace

LEMMA MarksPlaces ==
  ASSUME TypeOK, at \in 1..Len(devs), Marks(devs, devs', at)
  PROVE  /\ DOMAIN devs' = DOMAIN devs /\ at \in DOMAIN devs /\ Len(devs') = Len(devs)
         /\ \A c \in DOMAIN devs : SamePlace(devs'[c], devs[c])
         /\ \A c \in DOMAIN devs : c # at => devs'[c] = devs[c]
<1>1. /\ DOMAIN devs' = DOMAIN devs /\ at \in DOMAIN devs /\ Len(devs') = Len(devs)
      /\ \A c \in DOMAIN devs : SamePlace(devs'[c], devs[c])
      /\ \A c \in DOMAIN devs : c # at => devs'[c] = devs[c]
  BY DEF Marks, SamePlace
<1> QED
  BY <1>1

LEMMA StartFound ==
  ASSUME TypeOK, TypeOK', Tree, Mounts, Turns, Finished, ProbeStart
  PROVE  Tree' /\ Mounts' /\ Turns' /\ Finished' /\ Progress'
<1>1. /\ pc = "walk" /\ pc' = "scheme" /\ at' = at /\ at \in 1..Len(devs) /\ ~devs[at].probed
      /\ fsList' = fsList /\ schemes' = schemes /\ fat' = fat /\ retry' /\ scheme' = 1 /\ entry' = 1
      /\ count' = 0 /\ schemes \in Seq(Kinds) /\ fat \in BOOLEAN /\ devs \in Seq(DeviceType)
  BY DEF ProbeStart, mounts, loaded, TypeOK, Sorts
<1>2. /\ Marks(devs, devs', at) /\ devs'[at].probed
      /\ devs'[at].tried = schemes /\ devs'[at].fat = fat
  BY <1>1, MarkProbed DEF ProbeStart
<1>3. /\ DOMAIN devs' = DOMAIN devs /\ at \in DOMAIN devs /\ Len(devs') = Len(devs)
      /\ \A c \in DOMAIN devs : SamePlace(devs'[c], devs[c])
      /\ \A c \in DOMAIN devs : c # at => devs'[c] = devs[c]
  BY <1>1, <1>2, MarksPlaces
<1>4. Tree'
  <2> SUFFICES ASSUME NEW c \in DOMAIN devs
               PROVE  devs'[c].parent < c /\ (devs'[c].parent # 0 => devs'[devs'[c].parent].probed)
    BY <1>3 DEF Tree
  <2>1. devs'[c].parent = devs[c].parent /\ devs[c] \in DeviceType /\ DOMAIN devs = 1..Len(devs) /\ Len(devs) \in Nat
    BY <1>1, <1>3 DEF SamePlace
  <2>2. devs[c].parent < c /\ devs[c].parent \in Nat /\ (devs[c].parent # 0 => devs[devs[c].parent].probed)
    BY <2>1 DEF Tree, DeviceType
  <2>3. devs[c].parent # 0 => devs[c].parent \in DOMAIN devs
    BY <2>1, <2>2
  <2> QED
    BY <1>2, <1>3, <2>1, <2>2, <2>3
<1>5. \A k \in DOMAIN fsList : fsList[k] # at
  BY <1>1 DEF Mounts
<1>6. Mounts'
  BY <1>1, <1>2, <1>3, <1>5 DEF Mounts
<1>7. Turns'
  BY <1>1, <1>2 DEF Turns, Probing
<1>8. \A d \in DOMAIN devs : d # at => Same(d)
  BY <1>1, <1>3 DEF Same, HasFs
<1>9. Finished'
  <2>1. Probing' /\ ~Probing
    BY <1>1 DEF Probing
  <2> QED
    BY <1>1, <1>3, <1>8, <2>1, FinishedKept
<1>10. Of(at)' = {}
  <2>1. \A c \in DOMAIN devs : devs[c].parent # at
    BY <1>1 DEF Tree
  <2>2. \A c \in DOMAIN devs' : devs'[c].parent # at'
    BY <1>1, <1>3, <2>1 DEF SamePlace
  <2> QED
    BY <2>2 DEF Of
<1>11. Progress'
  BY <1>1, <1>10 DEF Progress, TypeOK, Sorts
<1> QED
  BY <1>4, <1>6, <1>7, <1>9, <1>11

(* What the steps of a probe have in common.                               *)
Probes ==
  /\ Probing /\ Marks(devs, devs', at)
  /\ devs'[at].probed = devs[at].probed /\ devs'[at].tried = devs[at].tried /\ devs'[at].fat = devs[at].fat
  /\ devs[at].failed => devs'[at].failed
  /\ schemes' = schemes /\ fat' = fat /\ retry' = retry

LEMMA Pushed ==
  ASSUME NEW s \in Seq(Nat), NEW a \in Nat, NEW p, p = <<a>> \o s
  PROVE  /\ Len(s) \in Nat /\ DOMAIN s = 1..Len(s) /\ DOMAIN p = 1..(Len(s) + 1)
         /\ p[1] = a /\ \A k \in DOMAIN p : k # 1 => k - 1 \in DOMAIN s /\ p[k] = s[k - 1]
         /\ \A k \in DOMAIN s : k + 1 \in DOMAIN p /\ p[k + 1] = s[k]
OBVIOUS

LEMMA ProbesFound ==
  ASSUME TypeOK, TypeOK', Tree, Mounts, Turns, Finished, Probes, NEW a, a = at,
         \/ Probing' /\ at' = a /\ fsList' = fsList
         \/ /\ pc' = "walk" /\ (~devs'[a].failed => Complete(a)')
            /\ fsList' = fsList \/ fsList' = <<a>> \o fsList
  PROVE  Tree' /\ Mounts' /\ Turns' /\ Finished'
<1>1. /\ DOMAIN devs' = DOMAIN devs /\ a \in DOMAIN devs /\ Len(devs') = Len(devs)
      /\ \A c \in DOMAIN devs : SamePlace(devs'[c], devs[c])
      /\ \A c \in DOMAIN devs : c # a => devs'[c] = devs[c]
      /\ DOMAIN devs = 1..Len(devs) /\ Len(devs) \in Nat /\ a \in Nat
  BY AtType, MarksPlaces DEF Probes
<1>2. /\ devs'[a].probed = devs[a].probed /\ devs'[a].tried = devs[a].tried /\ devs'[a].fat = devs[a].fat
      /\ devs[a].failed => devs'[a].failed
      /\ Probing /\ schemes' = schemes /\ fat' = fat /\ retry' = retry
  BY DEF Probes
<1>3. retry /\ devs[a].probed /\ devs[a].tried = schemes /\ devs[a].fat = fat
  BY <1>2 DEF Turns
<1>4. Tree'
  <2> SUFFICES ASSUME NEW c \in DOMAIN devs
               PROVE  devs'[c].parent < c /\ (devs'[c].parent # 0 => devs'[devs'[c].parent].probed)
    BY <1>1 DEF Tree
  <2>1. devs'[c].parent = devs[c].parent /\ devs[c] \in DeviceType
    BY <1>1 DEF SamePlace, TypeOK, Sorts
  <2>2. devs[c].parent < c /\ devs[c].parent \in Nat /\ (devs[c].parent # 0 => devs[devs[c].parent].probed)
    BY <2>1 DEF Tree, DeviceType
  <2>3. devs[c].parent # 0 => devs[c].parent \in DOMAIN devs
    BY <1>1, <2>1, <2>2
  <2> QED
    BY <1>1, <1>2, <1>3, <2>1, <2>2, <2>3
<1>5. \A k \in DOMAIN fsList : fsList[k] # a /\ fsList[k] \in DOMAIN devs /\ devs'[fsList[k]].probed
  BY <1>1, <1>2 DEF Mounts
<1>6. Turns'
  <2>1. CASE Probing' /\ at' = a
    BY <1>2, <1>3, <2>1 DEF Turns, Probing
  <2>2. CASE pc' = "walk"
    BY <1>2, <1>3, <2>2 DEF Turns, Probing
  <2> QED
    BY <2>1, <2>2
<1>7. CASE fsList' = fsList
  <2>1. Mounts'
    <3>1. \A k \in DOMAIN fsList : ~(Probing' /\ fsList[k] = at')
      BY <1>5 DEF Probing
    <3> QED
      BY <1>1, <1>5, <1>7, <3>1 DEF Mounts
  <2>2. \A d \in DOMAIN devs : Same(d)
    BY <1>1, <1>2, <1>7 DEF Same, HasFs
  <2>3. \A d \in DOMAIN devs : d # a => ~(Probing /\ d = at)
    OBVIOUS
  <2>4. Finished'
    <3> SUFFICES ASSUME NEW d \in DOMAIN devs, devs'[d].probed, ~devs'[d].failed, ~(Probing' /\ d = at')
                 PROVE  \/ Complete(d)'
                        \/ devs[d].probed /\ ~devs[d].failed /\ ~(Probing /\ d = at) /\ Same(d)
      BY <1>1, FinishedKept
    <3>1. CASE d = a
      <4>1. pc' = "walk"
        BY <3>1
      <4> QED
        BY <3>1, <4>1 DEF Probing
    <3>2. CASE d # a
      BY <1>1, <2>2, <3>2
    <3> QED
      BY <3>1, <3>2
  <2> QED
    BY <1>4, <1>6, <2>1, <2>4
<1>8. CASE fsList' = <<a>> \o fsList /\ pc' = "walk"
  <2>1. /\ DOMAIN fsList' = 1..(Len(fsList) + 1) /\ fsList'[1] = a /\ Len(fsList) \in Nat
        /\ \A k \in DOMAIN fsList' : k # 1 => k - 1 \in DOMAIN fsList /\ fsList'[k] = fsList[k - 1]
        /\ \A k \in DOMAIN fsList : k + 1 \in DOMAIN fsList' /\ fsList'[k + 1] = fsList[k]
    <3>1. fsList \in Seq(Nat)
      BY DEF TypeOK, Sorts
    <3> QED
      BY <1>1, <1>8, <3>1, Pushed
  <2>2. ~Probing'
    BY <1>8 DEF Probing
  <2>3. Mounts'
    <3>1. ASSUME NEW k \in DOMAIN fsList'
          PROVE  fsList'[k] \in DOMAIN devs' /\ devs'[fsList'[k]].probed /\ (k # 1 => fsList'[k] # a)
      <4>1. CASE k = 1
        BY <1>1, <1>2, <1>3, <2>1, <4>1
      <4>2. CASE k # 1
        BY <1>1, <1>5, <2>1, <4>2
      <4> QED
        BY <4>1, <4>2
    <3>2. ASSUME NEW k \in DOMAIN fsList', NEW l \in DOMAIN fsList', fsList'[k] = fsList'[l]
          PROVE  k = l
      <4>1. k \in Nat /\ l \in Nat
        BY <2>1
      <4>2. CASE k = 1 \/ l = 1
        BY <2>1, <3>1, <3>2, <4>2
      <4>3. CASE k # 1 /\ l # 1
        <5>1. k - 1 = l - 1
          BY <2>1, <3>2, <4>3 DEF Mounts
        <5> QED
          BY <4>1, <5>1
      <4> QED
        BY <4>2, <4>3
    <3> QED
      BY <2>2, <3>1, <3>2 DEF Mounts
  <2>4. ASSUME NEW d \in DOMAIN devs, d # a PROVE Same(d)
    <3>1. HasFs(d)' <=> HasFs(d)
      BY <2>1, <2>4 DEF HasFs
    <3> QED
      BY <1>1, <2>4, <3>1 DEF Same
  <2>5. Finished'
    BY <1>1, <1>8, <2>2, <2>4, FinishedKept
  <2> QED
    BY <1>4, <1>6, <2>3, <2>5
<1> QED
  BY <1>7, <1>8 DEF Probing

(* The entry the loop has come to, in the sets the places are counted in.  *)
LEMMA EmptyPlaces ==
  /\ Cardinality({}) = 0
  /\ \A n \in Nat : \A S \in SUBSET (1..n) :
       IsFiniteSet(S) /\ Cardinality(S) \in Nat /\ (Cardinality(S) = 0 => S = {})
<1>1. ASSUME NEW n \in Nat, NEW S \in SUBSET (1..n)
      PROVE  IsFiniteSet(S) /\ Cardinality(S) \in Nat /\ (Cardinality(S) = 0 => S = {})
  BY SomeOf, FS_EmptySet
<1> QED
  BY <1>1, FS_EmptySet

(* At the end of a table what has been registered is what it says.         *)
LEMMA TableRead ==
  ASSUME TypeOK, pc = "entries", SoFar(at, Table(schemes[scheme], at), entry), Verdict.kind = "stop"
  PROVE  /\ count > 0 => Children(at) = TableParts(schemes[scheme], at) /\ TableParts(schemes[scheme], at) # <<>>
         /\ count = 0 => Of(at) = {} /\ TableParts(schemes[scheme], at) = <<>>
<1> DEFINE s == schemes[scheme]
           T == Table(s, at)
           U == Before(T, entry)
<1>1. /\ T \in Seq(VerdictType) /\ s \in Kinds /\ HasTable(s, at) /\ entry \in Nat \ {0}
      /\ count \in Nat /\ Len(devs) \in Nat
  BY TableTypes, AtType DEF TypeOK, Sorts, InTable
<1>2. Verdict = IF entry > Len(T) THEN Stop ELSE T[entry]
  BY DEF Verdict
<1>3. (\A j \in 1..(entry - 1) : j \in DOMAIN T /\ T[j].kind # "stop") /\ Found(at, T, U)
  BY Zenon DEF SoFar
<1> HIDE DEF s, T
<1>4. DOMAIN T = 1..Len(T) /\ Len(T) \in Nat
  BY <1>1
<1>5. U = UsedOf(T)
  <2>1. ASSUME NEW i \in DOMAIN T, T[i].kind = "part"
        PROVE  i < entry <=> \A j \in 1..i : T[j].kind # "stop"
    <3>1. i \in Nat
      BY <1>4
    <3>2. ASSUME i < entry PROVE \A j \in 1..i : T[j].kind # "stop"
      BY <1>1, <1>3, <3>1, <3>2
    <3>3. ASSUME ~(i < entry) PROVE entry \in 1..i /\ T[entry].kind = "stop"
      BY <1>1, <1>2, <1>4, <3>1, <3>3
    <3> QED
      BY <3>2, <3>3
  <2> QED
    BY <2>1 DEF Before, UsedOf
<1>6. U \in SUBSET (1..Len(T)) /\ Of(at) \in SUBSET (1..Len(devs))
  BY <1>4, OfType DEF Before
<1>7. count = Cardinality(Of(at)) /\ count = Cardinality(U)
  BY <1>3 DEF Found
<1>8. TableParts(s, at) = PartsOf(T)
  BY <1>1, PartsIs DEF T
<1>9. PartsOf(T) = [k \in 1..count |-> <<T[Nth(U, k)].offset, T[Nth(U, k)].blocks>>]
  BY <1>5, <1>7, Zenon DEF PartsOf
<1>10. Children(at) = [k \in 1..count |->
         <<devs[Nth(Of(at), k)].offset - devs[at].offset, devs[Nth(Of(at), k)].blocks>>]
  BY <1>7, Zenon DEF Children
<1>11. \A k \in 1..count :
         /\ devs[Nth(Of(at), k)].offset - devs[at].offset = T[Nth(U, k)].offset
         /\ devs[Nth(Of(at), k)].blocks = T[Nth(U, k)].blocks
  BY <1>3 DEF Found
<1> HIDE DEF U
<1>12. Children(at) = PartsOf(T)
  BY <1>9, <1>10, <1>11
<1>13. ASSUME count > 0 PROVE PartsOf(T) # <<>>
  <2>1. DOMAIN PartsOf(T) = 1..count
    BY <1>9
  <2>2. 1 \in 1..count
    BY <1>1, <1>13
  <2>3. DOMAIN <<>> = {}
    OBVIOUS
  <2> QED
    BY <2>1, <2>2, <2>3, Zenon
<1>14. ASSUME count = 0 PROVE Of(at) = {} /\ PartsOf(T) = <<>>
  <2>1. Of(at) = {}
    BY <1>1, <1>6, <1>7, <1>14, EmptyPlaces
  <2>2. 1..count = {}
    BY <1>14
  <2> QED
    BY <1>9, <2>1, <2>2
<1> QED
  BY <1>8, <1>12, <1>13, <1>14 DEF s

(* iterate returns: with partitions, the probe is over.                    *)
LEMMA TableOver ==
  ASSUME TypeOK, TypeOK', Tree, Mounts, Turns, Progress, Finished, Probes, fsList' = fsList,
         NEW a, a = at, NEW n \in Nat, Iterated(n), scheme \in DOMAIN schemes, pc # "types",
         NEW s, s = schemes[scheme],
         ~devs'[a].failed =>
           /\ n > 0 => Children(a) = TableParts(s, a) /\ TableParts(s, a) # <<>>
           /\ n = 0 => Of(a) = {} /\ TableParts(s, a) = <<>>
  PROVE  Tree' /\ Mounts' /\ Turns' /\ Progress' /\ Finished'
<1>1. /\ DOMAIN devs' = DOMAIN devs /\ a \in DOMAIN devs /\ Len(devs') = Len(devs)
      /\ \A c \in DOMAIN devs : SamePlace(devs'[c], devs[c])
      /\ \A c \in DOMAIN devs : c # a => devs'[c] = devs[c]
      /\ scheme \in Nat \ {0} /\ DOMAIN schemes = 1..Len(schemes) /\ Len(schemes) \in Nat
  BY AtType, MarksPlaces DEF Probes, TypeOK, Sorts
<1>2. /\ devs'[a].tried = schemes /\ devs'[a].fat = fat /\ devs[a].tried = schemes /\ devs[a].fat = fat
      /\ devs[a].failed => devs'[a].failed
      /\ Probing /\ schemes' = schemes
  BY DEF Probes, Turns
<1>3. \A t : TableParts(t, a)' = TableParts(t, a)
  BY <1>1, PartsSame
<1>4. Of(a)' = Of(a) /\ Children(a)' = Children(a) /\ Wanted(a)' = Wanted(a)
  BY <1>1, <1>2, CompleteSame
<1>5. ~devs'[a].failed => \A i \in DOMAIN schemes : i < scheme => TableParts(schemes[i], a) = <<>>
  BY <1>2 DEF Progress
<1>6. CASE n = 0
  <2>1. pc' = "scheme" /\ scheme' = scheme + 1 /\ at' = a /\ entry' = 1 /\ count' = 0
    BY <1>6 DEF Iterated
  <2>2. Tree' /\ Mounts' /\ Turns' /\ Finished'
    BY <2>1, ProbesFound DEF Probing
  <2>3. ASSUME ~devs'[a].failed
        PROVE  Of(a)' = {} /\ \A i \in DOMAIN schemes' : i < scheme' => TableParts(schemes[i], a)' = <<>>
    <3>1. Of(a)' = {} /\ TableParts(s, a) = <<>>
      BY <1>4, <1>6, <2>3
    <3>2. ASSUME NEW i \in DOMAIN schemes, i < scheme + 1 PROVE TableParts(schemes[i], a) = <<>>
      <4>1. i < scheme \/ i = scheme
        BY <1>1, <3>2
      <4> QED
        BY <1>5, <2>3, <3>1, <4>1
    <3>3. ASSUME NEW i \in DOMAIN schemes', i < scheme' PROVE TableParts(schemes[i], a)' = <<>>
      <4>1. TableParts(schemes[i], a) = <<>> /\ schemes'[i] = schemes[i]
        BY <1>2, <2>1, <3>2, <3>3
      <4> QED
        BY <1>3, <4>1
    <3> QED
      BY <3>1, <3>3
  <2>4. Progress'
    <3> SUFFICES ASSUME ~devs'[a].failed
                 PROVE  /\ \A i \in DOMAIN schemes' : i < scheme' => TableParts(schemes[i], at)' = <<>>
                        /\ Of(at)' = {}
      BY <2>1 DEF Progress
    <3> QED
      BY <2>1, <2>3
  <2> QED
    BY <2>2, <2>4
<1>7. CASE n > 0
  <2>1. pc' = "walk" /\ ~Probing'
    BY <1>7 DEF Iterated, Probing
  <2>2. ASSUME ~devs'[a].failed PROVE Complete(a)'
    <3>1. Children(a) = TableParts(s, a) /\ TableParts(s, a) # <<>>
      BY <1>7, <2>2
    <3>2. Wanted(a) = TableParts(s, a)
      <4>1. \A j \in DOMAIN devs[a].tried : j < scheme => TableParts(devs[a].tried[j], a) = <<>>
        BY <1>2, <1>5, <2>2
      <4>2. scheme \in DOMAIN devs[a].tried /\ devs[a].tried[scheme] = s
        BY <1>2
      <4> QED
        BY <1>1, <3>1, <4>1, <4>2, WantedIs
    <3>3. ~ HasFs(a)'
      BY <1>2 DEF Mounts, HasFs
    <3>4. ~ Mountable(a)'
      BY <1>4, <3>1, <3>2 DEF Mountable
    <3> QED
      BY <1>4, <3>1, <3>2, <3>3, <3>4, Zenon DEF Complete
  <2>3. Tree' /\ Mounts' /\ Turns' /\ Finished'
    BY <2>1, <2>2, ProbesFound
  <2> QED
    BY <2>1, <2>3 DEF Progress
<1> QED
  BY <1>6, <1>7

(* An entry has been read, and a partition may have been registered.       *)
LEMMA EntryRead ==
  ASSUME NEW T \in Seq(VerdictType), NEW e \in Nat \ {0},
         \A j \in 1..(e - 1) : j \in DOMAIN T /\ T[j].kind # "stop",
         NEW v, v = IF e > Len(T) THEN Stop ELSE T[e], v.kind # "stop"
  PROVE  /\ e \in DOMAIN T /\ v = T[e]
         /\ \A j \in 1..((e + 1) - 1) : j \in DOMAIN T /\ T[j].kind # "stop"
         /\ v.kind # "part" => Before(T, e + 1) = Before(T, e)
         /\ v.kind = "part" => Before(T, e + 1) = Before(T, e) \cup {e}
         /\ \A i \in Before(T, e) : i < e
         /\ Before(T, e) \in SUBSET (1..Len(T)) /\ Len(T) \in Nat
<1>1. Stop.kind = "stop"
  BY DEF Stop
<1>2. DOMAIN T = 1..Len(T) /\ Len(T) \in Nat
  OBVIOUS
<1>3. e \in DOMAIN T /\ v = T[e]
  BY <1>1, <1>2
<1>4. ASSUME NEW j \in 1..((e + 1) - 1) PROVE j \in DOMAIN T /\ T[j].kind # "stop"
  <2>1. j \in 1..(e - 1) \/ j = e
    OBVIOUS
  <2> QED
    BY <1>3, <2>1
<1>5. \A i \in DOMAIN T : i < e + 1 <=> (i < e \/ i = e)
  BY <1>2
<1>6. v.kind # "part" => Before(T, e + 1) = Before(T, e)
  BY <1>3, <1>5 DEF Before
<1>7. v.kind = "part" => Before(T, e + 1) = Before(T, e) \cup {e}
  BY <1>3, <1>5 DEF Before
<1> QED
  BY <1>2, <1>3, <1>4, <1>6, <1>7 DEF Before

LEMMA FoundSame ==
  ASSUME TypeOK, NEW d \in DOMAIN devs, Of(d)' = Of(d),
         \A c \in DOMAIN devs : SamePlace(devs'[c], devs[c]),
         NEW T, NEW U, Found(d, T, U), count' = count
  PROVE  Found(d, T, U)'
<1> DEFINE S == Of(d)
<1>1. S \in SUBSET (1..Len(devs)) /\ S \subseteq DOMAIN devs /\ Len(devs) \in Nat /\ Of(d)' = S
  BY OfType, AtType
<1>2. /\ count = Cardinality(S) /\ count = Cardinality(U)
      /\ \A k \in 1..count :
           /\ devs[Nth(S, k)].offset - devs[d].offset = T[Nth(U, k)].offset
           /\ devs[Nth(S, k)].blocks = T[Nth(U, k)].blocks
  BY DEF Found
<1> HIDE DEF S
<1>3. ASSUME NEW k \in 1..count'
      PROVE  /\ devs'[Nth(S, k)].offset - devs'[d].offset = T[Nth(U, k)].offset
             /\ devs'[Nth(S, k)].blocks = T[Nth(U, k)].blocks
  <2>1. k \in 1..Cardinality(S)
    BY <1>2
  <2>2. Nth(S, k) \in DOMAIN devs
    BY <1>1, <2>1, NthInSet
  <2> QED
    BY <1>2, <2>2 DEF SamePlace
<1> QED
  BY <1>1, <1>2, <1>3 DEF Found

LEMMA FoundMore ==
  ASSUME TypeOK, NEW d \in DOMAIN devs, NEW c, Adds(devs, devs', c), c.parent = d,
         NEW T, NEW n \in Nat, NEW U \in SUBSET (1..n), NEW e \in Nat, \A i \in U : i < e,
         c.offset - devs[d].offset = T[e].offset, c.blocks = T[e].blocks,
         Found(d, T, U), count' = count + 1
  PROVE  Found(d, T, U \cup {e})'
<1> DEFINE S == Of(d)
           m == Len(devs) + 1
           V == U \cup {e}
<1>1. S \in SUBSET (1..Len(devs)) /\ S \subseteq DOMAIN devs /\ Len(devs) \in Nat
  BY OfType, AtType
<1>2. /\ DOMAIN devs' = 1..m /\ DOMAIN devs = 1..Len(devs) /\ devs'[m] = c
      /\ \A i \in DOMAIN devs : devs'[i] = devs[i]
  BY DEF Adds
<1>3. Of(d)' = S \cup {m}
  <2>1. DOMAIN devs' = DOMAIN devs \cup {m}
    BY <1>1, <1>2
  <2> QED
    BY <1>2, <2>1 DEF Of
<1>4. /\ count = Cardinality(S) /\ count = Cardinality(U)
      /\ \A k \in 1..count :
           /\ devs[Nth(S, k)].offset - devs[d].offset = T[Nth(U, k)].offset
           /\ devs[Nth(S, k)].blocks = T[Nth(U, k)].blocks
  BY DEF Found
<1> HIDE DEF S
<1>5. m \in Nat /\ \A i \in S : i < m
  BY <1>1
<1> HIDE DEF m, V
<1>6. /\ Cardinality(S) \in Nat /\ Cardinality(S \cup {m}) = Cardinality(S) + 1
      /\ \A k \in 1..Cardinality(S) : Nth(S \cup {m}, k) = Nth(S, k)
      /\ Nth(S \cup {m}, Cardinality(S) + 1) = m
  BY <1>1, <1>5, NthMore
<1>7. /\ Cardinality(V) = Cardinality(U) + 1
      /\ \A k \in 1..Cardinality(U) : Nth(V, k) = Nth(U, k)
      /\ Nth(V, Cardinality(U) + 1) = e
  BY NthMore DEF V
<1>8. ASSUME NEW k \in 1..(count + 1)
      PROVE  /\ devs'[Nth(S \cup {m}, k)].offset - devs'[d].offset = T[Nth(V, k)].offset
             /\ devs'[Nth(S \cup {m}, k)].blocks = T[Nth(V, k)].blocks
  <2>1. CASE k = count + 1
    BY <1>2, <1>4, <1>6, <1>7, <2>1
  <2>2. CASE k \in 1..count
    <3>1. Nth(S, k) \in DOMAIN devs
      BY <1>1, <1>4, <2>2, NthInSet
    <3> QED
      BY <1>2, <1>4, <1>6, <1>7, <2>2, <3>1
  <2> QED
    BY <1>4, <1>6, <2>1, <2>2
<1>9. count' = Cardinality(S \cup {m}) /\ count' = Cardinality(V)
  BY <1>4, <1>6, <1>7
<1>10. Found(d, T, V)'
  BY <1>3, <1>8, <1>9 DEF Found
<1> QED
  BY <1>10 DEF V

LEMMA SkippedFound ==
  ASSUME TypeOK, TypeOK', Tree, Mounts, Turns, Progress, Finished, Probes, fsList' = fsList,
         pc = "entries", Verdict.kind # "stop", pc' = "entries", at' = at, scheme' = scheme, entry' = entry + 1,
         count' = count, devs'[at].failed \/ Verdict.kind = "skip"
  PROVE  Tree' /\ Mounts' /\ Turns' /\ Progress' /\ Finished'
<1>0. PICK a : a = at
  OBVIOUS
<1>1. Tree' /\ Mounts' /\ Turns' /\ Finished'
  BY <1>0, ProbesFound DEF Probing
<1>2. /\ DOMAIN devs' = DOMAIN devs /\ a \in DOMAIN devs /\ Len(devs') = Len(devs)
      /\ \A c \in DOMAIN devs : SamePlace(devs'[c], devs[c])
      /\ \A c \in DOMAIN devs : c # a => devs'[c] = devs[c]
  BY <1>0, AtType, MarksPlaces DEF Probes
<1>3. \A s : TableParts(s, a)' = TableParts(s, a)
  BY <1>2, PartsSame
<1>4. Of(a)' = Of(a)
  BY <1>2, CompleteSame
<1>5. schemes' = schemes /\ Probing /\ (devs[a].failed => devs'[a].failed)
  BY <1>0 DEF Probes
<1>6. ASSUME ~devs'[a].failed
      PROVE  /\ \A i \in DOMAIN schemes : i < scheme => TableParts(schemes[i], a) = <<>>
             /\ SoFar(at, Table(schemes[scheme], at), entry) /\ Verdict.kind = "skip"
  BY <1>0, <1>5, <1>6 DEF Progress
<1>7. ASSUME ~devs'[a].failed PROVE SoFar(at, Table(schemes[scheme], at), entry)'
  <2>1. PICK T : T = Table(schemes[scheme], a)
    OBVIOUS
  <2>2. Table(schemes[scheme], at)' = T /\ at' = a
    <3>1. \A s : Table(s, a)' = Table(s, a)
      BY <1>2, DiskSame
    <3> QED
      BY <1>0, <1>5, <2>1, <3>1
  <2>3. /\ T \in Seq(VerdictType) /\ entry \in Nat \ {0}
        /\ Verdict = IF entry > Len(T) THEN Stop ELSE T[entry]
    BY <1>0, <2>1, TableTypes DEF Verdict, TypeOK, Sorts
  <2>4. (\A j \in 1..(entry - 1) : j \in DOMAIN T /\ T[j].kind # "stop") /\ Found(a, T, Before(T, entry))
    BY <1>0, <1>6, <1>7, <2>1 DEF SoFar
  <2>5. /\ \A j \in 1..((entry + 1) - 1) : j \in DOMAIN T /\ T[j].kind # "stop"
        /\ Before(T, entry + 1) = Before(T, entry)
    BY <1>6, <1>7, <2>3, <2>4, EntryRead
  <2>6. \A U : Found(a, T, U) => Found(a, T, U)'
    BY <1>2, <1>4, FoundSame
  <2>7. PICK U : U = Before(T, entry)
    OBVIOUS
  <2>8. Found(a, T, U)'
    BY <2>4, <2>6, <2>7
  <2> QED
    BY <2>2, <2>5, <2>7, <2>8 DEF SoFar
<1>8. Progress'
  BY <1>0, <1>3, <1>5, <1>6, <1>7 DEF Progress
<1> QED
  BY <1>1, <1>8

LEMMA RegistersFound ==
  ASSUME TypeOK, TypeOK', Tree, Mounts, Turns, Progress, Finished, PartitionFound, Registers
  PROVE  Tree' /\ Mounts' /\ Turns' /\ Progress' /\ Finished'
<1>0. PICK a : a = at
  OBVIOUS
<1>1. /\ pc = "entries" /\ pc' = "entries" /\ Probing /\ Probing' /\ at' = a /\ scheme' = scheme
      /\ schemes' = schemes /\ fat' = fat /\ retry' = retry /\ fsList' = fsList
      /\ entry' = entry + 1 /\ count' = count + 1 /\ Verdict.kind = "part"
      /\ devs' = Append(devs, Partition(Verdict))
  BY <1>0 DEF PartitionFound, Registers, Probing, mounts, loaded
<1>2. PICK c : c = Partition(Verdict)
  OBVIOUS
<1>3. /\ Adds(devs, devs', c) /\ New(c) /\ c.parent = a
      /\ c.offset = devs[a].offset + Verdict.offset /\ c.blocks = Verdict.blocks
  BY <1>0, <1>1, <1>2, PartitionAdded
<1>4. /\ DOMAIN devs = 1..Len(devs) /\ DOMAIN devs' = DOMAIN devs \cup {Len(devs) + 1} /\ Len(devs) \in Nat
      /\ \A d \in DOMAIN devs : devs'[d] = devs[d]
      /\ devs'[Len(devs) + 1] = c /\ a \in DOMAIN devs /\ ~c.probed
      /\ \A d \in DOMAIN devs : SamePlace(devs'[d], devs[d])
  BY <1>0, <1>1, <1>3, AtType DEF Adds, New, SamePlace
<1>5. retry /\ devs[a].probed /\ devs[a].tried = schemes /\ devs[a].fat = fat
  BY <1>0, <1>1 DEF Turns
<1>6. Tree'
  <2> SUFFICES ASSUME NEW d \in DOMAIN devs'
               PROVE  devs'[d].parent < d /\ (devs'[d].parent # 0 => devs'[devs'[d].parent].probed)
    BY DEF Tree
  <2>1. CASE d \in DOMAIN devs
    <3>1. /\ devs[d].parent < d /\ (devs[d].parent # 0 => devs[devs[d].parent].probed)
          /\ devs[d] \in DeviceType
      BY <2>1 DEF Tree, TypeOK, Sorts
    <3>2. devs[d].parent # 0 => devs[d].parent \in DOMAIN devs
      BY <1>4, <2>1, <3>1 DEF DeviceType
    <3> QED
      BY <1>4, <2>1, <3>1, <3>2
  <2>2. CASE d = Len(devs) + 1
    BY <1>3, <1>4, <1>5, <2>2
  <2> QED
    BY <1>4, <2>1, <2>2
<1>7. Mounts' /\ Turns'
  <2>1. Mounts'
    BY <1>0, <1>1, <1>4 DEF Mounts
  <2>2. Turns'
    BY <1>1, <1>4, <1>5 DEF Turns
  <2> QED
    BY <2>1, <2>2
<1>8. Finished'
  <2>1. \A d \in DOMAIN devs : Same(d)
    BY <1>1, <1>4 DEF Same, HasFs
  <2>2. \A d \in DOMAIN devs' : d \notin DOMAIN devs =>
          ~devs'[d].probed /\ (devs'[d].parent = 0 \/ (Probing' /\ devs'[d].parent = at'))
    BY <1>1, <1>3, <1>4
  <2> QED
    BY <1>0, <1>1, <1>4, <2>1, <2>2, FinishedKept
<1>9. \A s : TableParts(s, a)' = TableParts(s, a)
  BY <1>4, PartsSame
<1>10. ASSUME ~devs[a].failed PROVE SoFar(at, Table(schemes[scheme], at), entry)'
  <2>1. PICK T : T = Table(schemes[scheme], a)
    OBVIOUS
  <2>2. Table(schemes[scheme], at)' = T
    <3>1. \A s : Table(s, a)' = Table(s, a)
      BY <1>4, DiskSame
    <3> QED
      BY <1>1, <2>1, <3>1
  <2>3. /\ T \in Seq(VerdictType) /\ entry \in Nat \ {0}
        /\ Verdict = IF entry > Len(T) THEN Stop ELSE T[entry]
    BY <1>0, <1>1, <2>1, TableTypes DEF Verdict, TypeOK, Sorts
  <2>4. (\A j \in 1..(entry - 1) : j \in DOMAIN T /\ T[j].kind # "stop") /\ Found(a, T, Before(T, entry))
    BY <1>0, <1>1, <1>10, <2>1 DEF SoFar, Progress
  <2>5. /\ entry \in DOMAIN T /\ Verdict = T[entry]
        /\ \A j \in 1..((entry + 1) - 1) : j \in DOMAIN T /\ T[j].kind # "stop"
        /\ Before(T, entry + 1) = Before(T, entry) \cup {entry}
        /\ \A i \in Before(T, entry) : i < entry
        /\ Before(T, entry) \in SUBSET (1..Len(T)) /\ Len(T) \in Nat
    <3>1. PICK v : v = Verdict
      OBVIOUS
    <3>2. v = (IF entry > Len(T) THEN Stop ELSE T[entry]) /\ v.kind = "part" /\ v.kind # "stop"
      BY <1>1, <2>3, <3>1
    <3> QED
      BY <2>3, <2>4, <3>1, <3>2, EntryRead
  <2>6. c.offset - devs[a].offset = T[entry].offset /\ c.blocks = T[entry].blocks
    <3>1. Verdict.offset \in Nat /\ devs[a].offset \in Nat
      <4>1. Verdict \in VerdictType /\ devs[a] \in DeviceType
        BY <1>0, <1>1, TableTypes, AtType
      <4> QED
        BY <4>1 DEF VerdictType, DeviceType
    <3> QED
      BY <1>3, <2>5, <3>1
  <2>7. PICK U : U = Before(T, entry)
    OBVIOUS
  <2>8. PICK e : e = entry
    OBVIOUS
  <2>9. Found(a, T, U \cup {e})'
    <3>1. /\ U \in SUBSET (1..Len(T)) /\ Len(T) \in Nat /\ e \in Nat /\ (\A i \in U : i < e)
          /\ c.offset - devs[a].offset = T[e].offset /\ c.blocks = T[e].blocks
          /\ Found(a, T, U) /\ count' = count + 1
      BY <1>1, <2>3, <2>4, <2>5, <2>6, <2>7, <2>8
    <3> QED
      BY <1>3, <1>4, <3>1, FoundMore
  <2> QED
    BY <1>1, <2>2, <2>5, <2>7, <2>8, <2>9 DEF SoFar
<1>11. Progress'
  <2>1. ASSUME ~devs[a].failed, NEW i \in DOMAIN schemes, i < scheme PROVE TableParts(schemes[i], a)' = <<>>
    BY <1>0, <1>1, <1>9, <2>1 DEF Progress
  <2> QED
    BY <1>1, <1>4, <1>10, <2>1 DEF Progress
<1> QED
  BY <1>6, <1>7, <1>8, <1>11

(* The type has been asked, after the schemes: the probe is over.          *)
LEMMA TypesOver ==
  ASSUME TypeOK, TypeOK', Tree, Mounts, Turns, Progress, Finished, Probes, NEW a, a = at,
         pc = "types", pc' = "walk",
         \/ fsList' = fsList /\ (IsFat(a) => devs'[a].failed)
         \/ fsList' = <<a>> \o fsList /\ IsFat(a)
  PROVE  Tree' /\ Mounts' /\ Turns' /\ Progress' /\ Finished'
<1>1. /\ DOMAIN devs' = DOMAIN devs /\ a \in DOMAIN devs /\ Len(devs') = Len(devs)
      /\ \A c \in DOMAIN devs : SamePlace(devs'[c], devs[c])
      /\ scheme \in Nat \ {0} /\ DOMAIN schemes = 1..Len(schemes) /\ Len(schemes) \in Nat /\ a \in Nat
  BY AtType, MarksPlaces DEF Probes, TypeOK, Sorts
<1>2. /\ devs'[a].tried = schemes /\ devs'[a].fat = fat /\ devs[a].tried = schemes /\ devs[a].fat = fat
      /\ devs[a].failed => devs'[a].failed
      /\ Probing /\ schemes' = schemes
  BY DEF Probes, Turns
<1>3. ~Probing'
  BY DEF Probing
<1>4. ASSUME ~devs'[a].failed PROVE Complete(a)'
  <2>1. (\A i \in DOMAIN schemes : i < scheme => TableParts(schemes[i], a) = <<>>) /\ Of(a) = {} /\ scheme > Len(schemes)
    BY <1>2, <1>4 DEF Progress
  <2>2. \A i \in DOMAIN devs[a].tried : TableParts(devs[a].tried[i], a) = <<>>
    BY <1>1, <1>2, <2>1
  <2>3. Wanted(a) = <<>>
    BY <1>1, <2>2, WantedIs
  <2>4. Children(a) = <<>>
    <3>1. Cardinality(Of(a)) = 0
      BY <2>1, FS_EmptySet
    <3>2. Children(a) = [k \in 1..Cardinality(Of(a)) |->
            <<devs[Nth(Of(a), k)].offset - devs[a].offset, devs[Nth(Of(a), k)].blocks>>]
      BY Zenon DEF Children
    <3>3. 1..0 = {}
      OBVIOUS
    <3> QED
      BY <3>1, <3>2, <3>3
  <2>5. Children(a)' = <<>> /\ Wanted(a)' = <<>>
    BY <1>1, <1>2, <2>3, <2>4, CompleteSame
  <2>6. Readable(a, 0)' = Readable(a, 0) /\ Block(a, 0)' = Block(a, 0)
    BY <1>1 DEF Readable, Block, SamePlace
  <2>7. Mountable(a)' <=> IsFat(a)
    BY <1>2, <2>5, <2>6, Zenon DEF Mountable, IsFat
  <2>8. HasFs(a)' <=> IsFat(a)
    <3>1. CASE fsList' = fsList /\ (IsFat(a) => devs'[a].failed)
      BY <1>2, <1>4, <3>1 DEF Mounts, HasFs
    <3>2. CASE fsList' = <<a>> \o fsList /\ IsFat(a)
      <4>1. fsList \in Seq(Nat)
        BY DEF TypeOK, Sorts
      <4>2. 1 \in DOMAIN fsList' /\ fsList'[1] = a
        BY <1>1, <3>2, <4>1
      <4> QED
        BY <3>2, <4>2 DEF HasFs
    <3> QED
      BY <3>1, <3>2
  <2> QED
    BY <2>5, <2>7, <2>8, Zenon DEF Complete
<1>5. Tree' /\ Mounts' /\ Turns' /\ Finished'
  BY <1>4, ProbesFound
<1> QED
  BY <1>3, <1>5 DEF Progress

LEMMA FindStep == TypeOK /\ FindInv /\ [Next]_vars /\ TypeOK' => FindInv'
<1> SUFFICES ASSUME TypeOK, FindInv, [Next]_vars, TypeOK', pc' # "astray"
             PROVE  Tree' /\ Mounts' /\ Turns' /\ Progress' /\ Finished'
  BY DEF FindInv
<1>0. ASSUME pc # "astray" PROVE Tree /\ Mounts /\ Turns /\ Progress /\ Finished
  BY <1>0 DEF FindInv
<1>1. CASE FindDisk
  <2>1. /\ pc = "start" /\ pc' \in {"start", "panic"} /\ fsList' = fsList /\ drive < Len(Drives)
        /\ ~Probing /\ ~Probing' /\ pc # "astray"
    BY <1>1 DEF FindDisk, mounts, Probing
  <2>2. CASE devs' = devs
    <3>1. Tree' /\ Mounts' /\ Progress' /\ Finished'
      BY <1>0, <2>1, <2>2, DevicesSame
    <3>2. Turns'
      BY <1>0, <2>1, <2>2 DEF Turns
    <3> QED
      BY <3>1, <3>2
  <2>3. CASE devs' = Append(devs, BiosDisk(drive + 1))
    <3>1. PICK c : c = BiosDisk(drive + 1)
      OBVIOUS
    <3>2. Adds(devs, devs', c) /\ New(c) /\ c.parent = 0
      BY <2>1, <2>3, <3>1, DiskFound
    <3>3. Tree' /\ Mounts' /\ Progress' /\ Finished'
      BY <1>0, <2>1, <3>2, DiskAdded
    <3>4. Turns'
      <4>1. \A d \in DOMAIN devs' : ~devs'[d].probed
        BY <1>0, <2>1, <3>2 DEF Turns, Adds, New
      <4> QED
        BY <2>1, <4>1 DEF Turns
    <3> QED
      BY <3>3, <3>4
  <2> QED
    BY <1>1, <2>2, <2>3 DEF FindDisk
<1>2. CASE Started \/ RmmodScheme \/ RmmodFat \/ Search \/ Passed \/ WalkEnds
  <2>1. /\ devs' = devs /\ fsList' = fsList /\ ~Probing /\ ~Probing' /\ pc # "astray"
    <3> USE DEF found, mounts, Probing
    <3>1. CASE Started
      BY <3>1 DEF Started
    <3>2. CASE RmmodScheme
      BY <3>2 DEF RmmodScheme
    <3>3. CASE RmmodFat
      BY <3>3 DEF RmmodFat
    <3>4. CASE Search
      BY <3>4 DEF Search
    <3>5. CASE Passed
      BY <3>5 DEF Passed
    <3>6. CASE WalkEnds
      BY <3>6 DEF WalkEnds
    <3> QED
      BY <1>2, <3>1, <3>2, <3>3, <3>4, <3>5, <3>6
  <2>2. Tree' /\ Mounts' /\ Progress' /\ Finished'
    BY <1>0, <2>1, DevicesSame
  <2>3. Turns'
    <3>0. Turns /\ DOMAIN devs = 1..Len(devs) /\ Len(devs) \in Nat /\ at \in Nat
      BY <1>0, <2>1, AtType
    <3>1. CASE Started
      BY <2>1, <3>0, <3>1 DEF Started, Turns
    <3>2. CASE RmmodScheme \/ RmmodFat
      BY <2>1, <3>0, <3>2 DEF RmmodScheme, RmmodFat, Turns
    <3>3. CASE Search
      BY <2>1, <3>0, <3>3 DEF Search, Turns
    <3>4. CASE Passed
      <4>1. \A d \in DOMAIN devs : d > at' <=> (d > at \/ d = at)
        BY <3>0, <3>4 DEF Passed
      <4> QED
        BY <2>1, <3>0, <3>4, <4>1 DEF Passed, Turns
    <3>5. CASE WalkEnds
      <4>1. CASE retry
        BY <2>1, <3>0, <3>5, <4>1 DEF WalkEnds, Turns
      <4>2. CASE ~retry
        <5>1. pc = "walk" /\ pc' = "shell" /\ at = 0
          BY <3>5, <4>2 DEF WalkEnds
        <5>2. \A d \in DOMAIN devs : devs[d].probed
          BY <3>0, <4>2, <5>1 DEF Turns
        <5> QED
          BY <2>1, <5>1, <5>2 DEF Turns
      <4> QED
        BY <4>1, <4>2
    <3> QED
      BY <1>2, <3>1, <3>2, <3>3, <3>4, <3>5
  <2> QED
    BY <2>2, <2>3
<1>3. CASE ProbeStart
  BY <1>0, <1>3, StartFound DEF ProbeStart
<1>a. ASSUME Probing, devs' = devs, schemes' = schemes, fat' = fat, retry' = retry PROVE Probes
  BY <1>a, AtType, MarksSame DEF Probes, TypeOK, Sorts
<1>b. ASSUME Probing, Failed(at), schemes' = schemes, fat' = fat, retry' = retry
      PROVE  Probes /\ devs'[at].failed
  BY <1>b, AtType, MarkFailed DEF Probes, TypeOK, Sorts
<1>4. CASE Iterate
  <2>1. /\ pc = "scheme" /\ pc # "astray" /\ Probing /\ fsList' = fsList /\ schemes' = schemes /\ fat' = fat
        /\ retry' = retry /\ scheme \in DOMAIN schemes
    BY <1>4 DEF Iterate, mounts, loaded, Probing, TypeOK, Sorts
  <2>2. PICK a : a = at
    OBVIOUS
  <2>3. PICK s : s = schemes[scheme]
    OBVIOUS
  <2>4. Tree /\ Mounts /\ Turns /\ Progress /\ Finished /\ s \in Kinds
    BY <1>0, <2>1, <2>3 DEF TypeOK, Sorts
  <2>5. CASE Iterated(0) /\ Failed(at)
    BY <1>b, <2>1, <2>2, <2>3, <2>4, <2>5, TableOver
  <2>6. CASE ~HasTable(s, a) /\ Iterated(0) /\ devs' = devs
    <3>1. TableParts(s, a) = <<>>
      BY <2>4, <2>6, PartsIs
    <3>2. ~devs'[a].failed => Of(a) = {}
      BY <2>1, <2>2, <2>4, <2>6 DEF Progress
    <3> QED
      BY <1>a, <2>1, <2>2, <2>3, <2>4, <2>6, <3>1, <3>2, TableOver
  <2>7. CASE pc' = "entries" /\ UNCHANGED <<devs, at, cursor>>
    <3>1. Tree' /\ Mounts' /\ Turns' /\ Finished'
      BY <1>a, <2>1, <2>2, <2>4, <2>7, ProbesFound DEF Probing
    <3>2. entry = 1 /\ count = 0
      BY <2>1, <2>4 DEF Progress
    <3>3. ASSUME ~devs[a].failed PROVE SoFar(at, Table(schemes[scheme], at), entry)'
      <4>1. PICK T : T = Table(schemes[scheme], at)'
        OBVIOUS
      <4>2. Of(a) = {}
        BY <2>1, <2>2, <2>4, <3>3 DEF Progress
      <4>3. at' = a /\ entry' = 1 /\ count' = 0 /\ Of(a)' = {}
        BY <2>2, <2>7, <3>2, <4>2 DEF cursor, Of
      <4>4. HasTable(s, a)
        BY <1>4, <2>2, <2>3, <2>7 DEF Iterate, Iterated
      <4>5. Table(schemes[scheme], at)' = Table(s, a)
        BY <2>1, <2>2, <2>3, <2>7 DEF Table, Block, cursor
      <4>6. T \in Seq(VerdictType)
        <5>1. (pc = "entries" => Table(schemes[scheme], at) \in Seq(VerdictType))'
          BY TableTypes, PTL
        <5> QED
          BY <2>7, <4>1, <5>1
      <4>7. Before(T, 1) = {}
        BY <4>6 DEF Before
      <4>8. Found(a, T, {})'
        BY <4>3, EmptyPlaces DEF Found
      <4> QED
        BY <4>1, <4>3, <4>7, <4>8 DEF SoFar
    <3>4. Progress'
      <4>1. \A i : TableParts(schemes[i], at)' = TableParts(schemes[i], at)
        BY <2>1, <2>7 DEF TableParts, HasTable, Readable, Block
      <4> QED
        BY <2>1, <2>2, <2>4, <2>7, <3>3, <4>1 DEF Progress, cursor
    <3> QED
      BY <3>1, <3>4
  <2> QED
    BY <1>4, <2>2, <2>3, <2>5, <2>6, <2>7 DEF Iterate
<1>5. CASE NoScheme
  <2>1. /\ pc = "scheme" /\ pc' = "types" /\ pc # "astray" /\ Probing /\ devs' = devs /\ fsList' = fsList
        /\ schemes' = schemes /\ fat' = fat /\ retry' = retry /\ at' = at /\ scheme' = scheme
        /\ scheme > Len(schemes)
    BY <1>5 DEF NoScheme, found, mounts, loaded, cursor, Probing
  <2>2. Tree' /\ Mounts' /\ Turns' /\ Finished'
    BY <1>0, <1>a, <2>1, ProbesFound DEF Probing
  <2>3. \A i : TableParts(schemes[i], at)' = TableParts(schemes[i], at)
    BY <2>1 DEF TableParts, HasTable, Readable, Block
  <2>4. Progress'
    <3>1. Progress /\ Of(at)' = Of(at)
      BY <1>0, <2>1 DEF Of
    <3> QED
      BY <2>1, <2>3, <3>1 DEF Progress
  <2> QED
    BY <2>2, <2>4
<1>6. CASE TableEnds \/ Skipped
  <2>1. /\ pc = "entries" /\ pc # "astray" /\ Probing /\ fsList' = fsList /\ schemes' = schemes /\ fat' = fat
        /\ retry' = retry /\ devs' = devs
    BY <1>6 DEF TableEnds, Skipped, found, mounts, loaded, Probing
  <2>2. Tree /\ Mounts /\ Turns /\ Progress /\ Finished /\ scheme \in DOMAIN schemes /\ count \in Nat
    BY <1>0, <2>1 DEF TypeOK, Sorts, InTable
  <2>3. CASE TableEnds
    <3>1. PICK a : a = at
      OBVIOUS
    <3>2. PICK s : s = schemes[scheme]
      OBVIOUS
    <3>3. PICK n : n = count
      OBVIOUS
    <3>4. ASSUME ~devs'[a].failed
          PROVE  /\ n > 0 => Children(a) = TableParts(s, a) /\ TableParts(s, a) # <<>>
                 /\ n = 0 => Of(a) = {} /\ TableParts(s, a) = <<>>
      <4>1. SoFar(at, Table(schemes[scheme], at), entry)
        BY <2>1, <2>2, <3>1, <3>4 DEF Progress
      <4> QED
        BY <2>1, <2>3, <3>1, <3>2, <3>3, <4>1, TableRead DEF TableEnds
    <3>5. Iterated(n)
      BY <2>3, <3>3 DEF TableEnds
    <3> QED
      BY <1>a, <2>1, <2>2, <3>1, <3>2, <3>3, <3>4, <3>5, TableOver
  <2>4. CASE Skipped
    <3>1. /\ pc' = "entries" /\ at' = at /\ scheme' = scheme /\ entry' = entry + 1 /\ count' = count
          /\ Verdict.kind = "skip" /\ Verdict.kind # "stop"
      BY <2>1, <2>4 DEF Skipped
    <3> QED
      BY <1>a, <2>1, <2>2, <3>1, SkippedFound
  <2> QED
    BY <1>6, <2>3, <2>4
<1>7. CASE PartitionFound
  <2>1. /\ pc = "entries" /\ pc # "astray" /\ Probing /\ fsList' = fsList /\ schemes' = schemes /\ fat' = fat
        /\ retry' = retry /\ Verdict.kind = "part" /\ Verdict.kind # "stop"
    BY <1>7 DEF PartitionFound, mounts, loaded, Probing
  <2>2. Tree /\ Mounts /\ Turns /\ Progress /\ Finished /\ scheme \in DOMAIN schemes /\ count \in Nat
    BY <1>0, <2>1 DEF TypeOK, Sorts, InTable
  <2>3. PICK a : a = at
    OBVIOUS
  <2>4. PICK s : s = schemes[scheme]
    OBVIOUS
  <2>5. CASE NoScratch
    <3>1. Probes /\ devs'[a].failed
      BY <1>b, <2>1, <2>3, <2>5 DEF NoScratch
    <3>2. CASE Iterated(count)
      BY <2>1, <2>2, <2>3, <2>4, <3>1, <3>2, TableOver
    <3>3. CASE entry' = entry + 1 /\ UNCHANGED <<pc, room, at, scheme, count>>
      BY <2>1, <2>2, <2>3, <3>1, <3>3, SkippedFound
    <3> QED
      BY <2>5, <3>2, <3>3 DEF NoScratch
  <2>6. CASE NoCopy
    <3>1. Probes /\ devs'[a].failed
      BY <1>b, <2>1, <2>3, <2>6 DEF NoCopy
    <3>2. Iterated(count + 1) /\ count + 1 \in Nat
      BY <2>2, <2>6 DEF NoCopy
    <3> QED
      BY <2>1, <2>2, <2>3, <2>4, <3>1, <3>2, TableOver
  <2>7. ~ Astray
    BY DEF Astray
  <2>8. CASE Registers
    BY <1>7, <2>2, <2>8, RegistersFound
  <2> QED
    BY <1>7, <2>5, <2>6, <2>7, <2>8 DEF PartitionFound
<1>8. CASE NotMounted \/ Mounted
  <2>1. /\ pc = "types" /\ pc' = "walk" /\ pc # "astray" /\ Probing /\ schemes' = schemes /\ fat' = fat
        /\ retry' = retry
    BY <1>8 DEF NotMounted, Mounted, loaded, Probing
  <2>2. Tree /\ Mounts /\ Turns /\ Progress /\ Finished
    BY <1>0, <2>1
  <2>3. PICK a : a = at
    OBVIOUS
  <2>4. CASE NotMounted
    <3>1. fsList' = fsList
      BY <2>4 DEF NotMounted, mounts
    <3>2. CASE ~IsFat(a) /\ devs' = devs
      BY <1>a, <2>1, <2>2, <2>3, <3>1, <3>2, TypesOver
    <3>3. CASE Failed(at)
      BY <1>b, <2>1, <2>2, <2>3, <3>1, <3>3, TypesOver
    <3> QED
      BY <2>3, <2>4, <3>2, <3>3 DEF NotMounted
  <2>5. CASE Mounted
    <3>1. fsList' = <<a>> \o fsList /\ IsFat(a)
      BY <2>3, <2>5 DEF Mounted
    <3>2. Probes
      <4>1. CASE Failed(at)
        BY <1>b, <2>1, <4>1
      <4>2. CASE devs' = [devs EXCEPT ![at].cached = TRUE]
        BY <2>1, <4>2, AtType, MarkCached DEF Probes, TypeOK, Sorts
      <4> QED
        BY <2>5, <4>1, <4>2 DEF Mounted
    <3> QED
      BY <2>1, <2>2, <2>3, <3>1, <3>2, TypesOver
  <2> QED
    BY <1>8, <2>4, <2>5
<1>9. CASE UNCHANGED vars
  <2>1. /\ pc' = pc /\ devs' = devs /\ fsList' = fsList /\ schemes' = schemes /\ fat' = fat /\ retry' = retry
        /\ at' = at /\ scheme' = scheme /\ entry' = entry /\ count' = count /\ (Probing' <=> Probing)
    BY <1>9 DEF vars, Probing
  <2>2. Tree /\ Mounts /\ Turns /\ Progress /\ Finished
    BY <1>0, <2>1
  <2>3. Turns'
    BY <2>1, <2>2 DEF Turns
  <2>4. CASE ~Probing
    BY <2>1, <2>2, <2>3, <2>4, DevicesSame
  <2>5. CASE Probing
    <3>1. Tree' /\ Mounts' /\ Finished'
      BY <1>a, <2>1, <2>2, <2>5, ProbesFound
    <3>2. (\A i : TableParts(schemes[i], at)' = TableParts(schemes[i], at)) /\ Of(at)' = Of(at)
      BY <2>1 DEF TableParts, HasTable, Readable, Block, Of
    <3>3. SoFar(at, Table(schemes[scheme], at), entry)' <=> SoFar(at, Table(schemes[scheme], at), entry)
      <4>1. PICK T : T = Table(schemes[scheme], at)
        OBVIOUS
      <4>2. Table(schemes[scheme], at)' = T
        BY <2>1, <4>1 DEF Table, Block
      <4>3. \A d, e : SoFar(d, T, e)' <=> SoFar(d, T, e)
        BY <2>1 DEF SoFar, Found, Of
      <4> QED
        BY <2>1, <4>1, <4>2, <4>3
    <3>4. Progress'
      BY <2>1, <2>2, <3>2, <3>3 DEF Progress
    <3> QED
      BY <2>3, <3>1, <3>4
  <2> QED
    BY <2>4, <2>5
<1> QED
  BY <1>1, <1>2, <1>3, <1>4, <1>5, <1>6, <1>7, <1>8, <1>9 DEF Next, Step

LEMMA FindInit == Init => FindInv
<1> SUFFICES ASSUME Init PROVE Tree /\ Mounts /\ Turns /\ Progress /\ Finished
  BY DEF FindInv
<1>1. devs = <<>> /\ fsList = <<>> /\ pc = "start" /\ DOMAIN devs = {} /\ DOMAIN fsList = {}
  BY DEF Init
<1> QED
  BY <1>1 DEF Tree, Mounts, Turns, Progress, Finished, Probing

LEMMA FindInvariant == Spec => []FindInv
<1> QED
  BY FindInit, FindStep, Types, PTL DEF Spec

----------------------------------------------------------------------------
(* What can be read.                                                       *)

(* A disk has all its blocks; of those of a partition, what its parent has *)
(* and can read.                                                           *)
Limited(D, d) ==
  LET c == D[d]
      p == D[c.parent]
  IN IF c.parent = 0
     THEN /\ c.disk \in DOMAIN Drives /\ c.offset = 0
          /\ c.limit = Drives[c.disk] /\ c.blocks <= c.limit
     ELSE /\ c.parent \in 1..(d - 1) /\ p.offset <= c.offset
          /\ \A x \in Nat : x < c.limit <=>
               /\ x < c.blocks
               /\ c.offset + x < p.offset + p.blocks /\ c.offset + x < p.offset + p.limit
Limits(D) == \A d \in DOMAIN D : Limited(D, d)

LEMMA LimitsMarks ==
  ASSUME NEW D, NEW E, NEW a \in DOMAIN D, Marks(D, E, a), Limits(D)
  PROVE  Limits(E)
<1>1. \A d \in DOMAIN D : SamePlace(E[d], D[d])
  BY DEF Marks, SamePlace
<1>2. ASSUME NEW d \in DOMAIN D PROVE Limited(E, d)
  <2>1. Limited(D, d) /\ d \in 1..Len(D) /\ DOMAIN D = 1..Len(D) /\ Len(D) \in Nat
    BY DEF Limits, Marks
  <2>2. SamePlace(E[d], D[d])
    BY <1>1
  <2>3. CASE D[d].parent = 0
    BY <2>1, <2>2, <2>3 DEF Limited, SamePlace
  <2>4. CASE D[d].parent # 0
    <3>1. D[d].parent \in 1..(d - 1) /\ E[d].parent = D[d].parent
      BY <2>1, <2>2, <2>4 DEF Limited, SamePlace
    <3>2. D[d].parent \in DOMAIN D
      BY <2>1, <3>1
    <3>3. SamePlace(E[D[d].parent], D[D[d].parent])
      BY <1>1, <3>2
    <3> QED
      BY <2>1, <2>2, <2>4, <3>1, <3>3 DEF Limited, SamePlace
  <2> QED
    BY <2>3, <2>4
<1>3. DOMAIN E = DOMAIN D
  BY DEF Marks
<1> QED
  BY <1>2, <1>3 DEF Limits

LEMMA LimitsAdds ==
  ASSUME NEW D, NEW E, NEW c, Adds(D, E, c), Limits(D), Limited(E, Len(D) + 1)
  PROVE  Limits(E)
<1>1. Len(D) \in Nat /\ DOMAIN D = 1..Len(D) /\ DOMAIN E = 1..(Len(D) + 1) /\ \A d \in DOMAIN D : E[d] = D[d]
  BY DEF Adds
<1>2. ASSUME NEW d \in 1..Len(D) PROVE Limited(E, d)
  <2>1. Limited(D, d) /\ E[d] = D[d]
    BY <1>1 DEF Limits
  <2>2. CASE D[d].parent = 0
    BY <2>1, <2>2 DEF Limited
  <2>3. CASE D[d].parent # 0
    <3>1. D[d].parent \in 1..(d - 1)
      BY <2>1, <2>3 DEF Limited
    <3>2. E[D[d].parent] = D[D[d].parent]
      BY <1>1, <3>1
    <3> QED
      BY <2>1, <2>3, <3>2 DEF Limited
  <2> QED
    BY <2>2, <2>3
<1>3. \A d \in DOMAIN E : d \in 1..Len(D) \/ d = Len(D) + 1
  BY <1>1
<1> QED
  BY <1>2, <1>3 DEF Limits

LEMMA LimitStep ==
  ASSUME TypeOK, Limits(devs), [Next]_vars
  PROVE  Limits(devs')
<1>1. /\ Len(devs) \in Nat /\ DOMAIN devs = 1..Len(devs) /\ devs \in Seq(DeviceType)
      /\ Probing => at \in 1..Len(devs) /\ devs[at] \in DeviceType
  BY AtType DEF TypeOK, Sorts
<1>2. CASE UNCHANGED devs
  BY <1>2
<1>3. ASSUME Probing, Failed(at) PROVE Limits(devs')
  BY <1>1, <1>3, MarkFailed, LimitsMarks
<1>4. CASE FindDisk
  <2>1. CASE devs' = Append(devs, BiosDisk(drive + 1))
    <3> DEFINE c == BiosDisk(drive + 1)
    <3>1. /\ Adds(devs, devs', c) /\ c.parent = 0 /\ drive + 1 \in DOMAIN Drives
          /\ c.disk = drive + 1 /\ c.offset = 0 /\ c.limit = Drives[drive + 1] /\ c.blocks <= c.limit
      BY <1>4, <2>1, DiskFound DEF FindDisk
    <3> HIDE DEF c
    <3>2. devs'[Len(devs) + 1] = c
      BY <3>1 DEF Adds
    <3>3. Limited(devs', Len(devs) + 1)
      BY <3>1, <3>2 DEF Limited
    <3> QED
      BY <3>1, <3>3, LimitsAdds
  <2> QED
    BY <1>2, <1>4, <2>1 DEF FindDisk
<1>5. CASE ProbeStart
  <2>1. /\ at \in 1..Len(devs) /\ schemes \in Seq(Kinds) /\ fat \in BOOLEAN
        /\ devs' = [devs EXCEPT ![at].probed = TRUE, ![at].tried = schemes, ![at].fat = fat]
    BY <1>5 DEF ProbeStart, TypeOK, Sorts
  <2> QED
    BY <1>1, <2>1, MarkProbed, LimitsMarks
<1>6. CASE Iterate
  BY <1>2, <1>3, <1>6 DEF Iterate, Probing
<1>7. CASE PartitionFound
  <2>1. CASE NoScratch \/ NoCopy \/ Astray
    BY <1>2, <1>3, <1>7, <2>1 DEF PartitionFound, NoScratch, NoCopy, Astray, Probing
  <2>2. CASE Registers
    <3> DEFINE c == Partition(Verdict)  p == devs[at]  v == Verdict
    <3>1. pc = "entries" /\ Verdict.kind = "part" /\ devs' = Append(devs, Partition(Verdict))
      BY <1>7, <2>2 DEF PartitionFound, Registers
    <3>2. /\ Adds(devs, devs', c) /\ c.parent = at
          /\ c.offset = p.offset + v.offset /\ c.blocks = v.blocks
          /\ \A x \in Nat : x < c.limit <=> x < v.blocks /\ v.offset + x < p.blocks /\ v.offset + x < p.limit
      BY <3>1, PartitionAdded
    <3>3. /\ at \in 1..Len(devs) /\ p.offset \in Nat /\ v.offset \in Nat /\ v.blocks \in Nat
          /\ p.blocks \in Nat /\ p.limit \in Nat
      BY <1>1, <3>1, TableTypes DEF Probing, DeviceType, VerdictType
    <3> HIDE DEF c, p, v
    <3>4. devs'[Len(devs) + 1] = c /\ devs'[at] = p
      BY <1>1, <3>2, <3>3 DEF Adds, p
    <3>5. at \in 1..((Len(devs) + 1) - 1) /\ at # 0 /\ p.offset <= c.offset
      BY <1>1, <3>2, <3>3
    <3>6. ASSUME NEW x \in Nat
          PROVE  x < c.limit <=>
                   /\ x < c.blocks
                   /\ c.offset + x < p.offset + p.blocks /\ c.offset + x < p.offset + p.limit
      <4>1. c.offset + x < p.offset + p.blocks <=> v.offset + x < p.blocks
        BY <3>2, <3>3
      <4>2. c.offset + x < p.offset + p.limit <=> v.offset + x < p.limit
        BY <3>2, <3>3
      <4>3. x < c.blocks <=> x < v.blocks
        BY <3>2
      <4> QED
        BY <3>2, <4>1, <4>2, <4>3
    <3>7. Limited(devs', Len(devs) + 1)
      BY <3>2, <3>4, <3>5, <3>6 DEF Limited
    <3> QED
      BY <3>2, <3>7, LimitsAdds
  <2> QED
    BY <1>7, <2>1, <2>2 DEF PartitionFound
<1>8. CASE NotMounted
  BY <1>2, <1>3, <1>8 DEF NotMounted, Probing
<1>9. CASE Mounted
  <2>1. CASE devs' = [devs EXCEPT ![at].cached = TRUE]
    <3>1. at \in 1..Len(devs)
      BY <1>1, <1>9 DEF Mounted, Probing
    <3> QED
      BY <1>1, <2>1, <3>1, MarkCached, LimitsMarks
  <2> QED
    BY <1>3, <1>9, <2>1 DEF Mounted, Probing
<1>10. CASE UNCHANGED vars
  BY <1>2, <1>10 DEF vars
<1>11. CASE Started \/ RmmodScheme \/ RmmodFat \/ Search \/ Passed \/ WalkEnds \/ NoScheme \/ TableEnds \/ Skipped
  BY <1>2, <1>11 DEF Started, RmmodScheme, RmmodFat, Search, Passed, WalkEnds, NoScheme, TableEnds, Skipped, found
<1> QED
  BY <1>4, <1>5, <1>6, <1>7, <1>8, <1>9, <1>10, <1>11 DEF Next, Step

LEMMA LimitInvariant == Spec => []Limits(devs)
<1>1. Init => Limits(devs)
  <2> SUFFICES ASSUME Init PROVE Limits(devs)
    OBVIOUS
  <2>1. devs = <<>> /\ DOMAIN devs = {}
    BY DEF Init
  <2> QED
    BY <2>1 DEF Limits
<1>2. TypeOK /\ Limits(devs) /\ [Next]_vars => Limits(devs)'
  BY LimitStep
<1> QED
  BY <1>1, <1>2, Types, PTL DEF Spec

(* The reference and the limits agree: of the devices around a partition,  *)
(* the one registered first whose limit were too low would be too small or *)
(* lie in another.                                                         *)
LEMMA ExistsIs ==
  ASSUME TypeOK, Limits(devs), NEW d \in DOMAIN devs, NEW b \in Nat
  PROVE  Exists(d, b) <=> Readable(d, b)
<1> DEFINE place == devs[d].offset + b
           Has(a) == place \in devs[a].offset..(devs[a].offset + devs[a].blocks - 1)
<1>1. DOMAIN devs = 1..Len(devs) /\ Len(devs) \in Nat /\ devs \in Seq(DeviceType)
  BY AtType DEF TypeOK, Sorts
<1>2. ASSUME NEW a \in DOMAIN devs
      PROVE  /\ devs[a].parent \in Nat /\ devs[a].offset \in Nat
             /\ devs[a].blocks \in Nat /\ devs[a].limit \in Nat
  <2>1. devs[a] \in DeviceType
    BY <1>1
  <2> QED
    BY <2>1 DEF DeviceType
<1>3. place \in Nat
  BY <1>2
<1>4. ASSUME NEW a \in DOMAIN devs, devs[a].parent # 0
      PROVE  /\ devs[a].parent \in DOMAIN devs /\ devs[a].parent < a
             /\ devs[devs[a].parent].offset <= devs[a].offset
             /\ \A x \in Nat : x < devs[a].limit <=>
                  /\ x < devs[a].blocks
                  /\ devs[a].offset + x < devs[devs[a].parent].offset + devs[devs[a].parent].blocks
                  /\ devs[a].offset + x < devs[devs[a].parent].offset + devs[devs[a].parent].limit
  BY <1>1, <1>4 DEF Limits, Limited
<1>5. CASE devs[d].parent = 0
  BY <1>5 DEF Limits, Limited, Exists, Readable
<1>6. CASE devs[d].parent # 0
  <2> HIDE DEF place
  <2>1. ASSUME Readable(d, b) PROVE Exists(d, b)
    <3> DEFINE around ==
          {a \in DOMAIN devs : Has(a) /\ place < devs[a].offset + devs[a].limit}
    <3>1. b < devs[d].limit /\ b < devs[d].blocks
      BY <1>4, <1>6, <2>1 DEF Readable
    <3>2. d \in around
      BY <1>2, <3>1 DEF place
    <3>3. ASSUME NEW a \in around, devs[a].parent # 0 PROVE devs[a].parent \in around
      <4> DEFINE p == devs[a].parent
                 x == place - devs[a].offset
      <4>1. a \in DOMAIN devs /\ place >= devs[a].offset /\ place < devs[a].offset + devs[a].limit
        BY <1>2, <1>3
      <4>2. x \in Nat /\ x < devs[a].limit /\ devs[a].offset + x = place
        BY <1>2, <1>3, <4>1
      <4>3. /\ p \in DOMAIN devs /\ devs[p].offset <= devs[a].offset
            /\ devs[a].offset + x < devs[p].offset + devs[p].blocks
            /\ devs[a].offset + x < devs[p].offset + devs[p].limit
        BY <1>4, <3>3, <4>1, <4>2
      <4> HIDE DEF p, x
      <4>4. place >= devs[p].offset /\ place <= devs[p].offset + devs[p].blocks - 1
        BY <1>2, <1>3, <4>1, <4>2, <4>3
      <4>5. place < devs[p].offset + devs[p].limit
        BY <4>2, <4>3
      <4>6. p \in around
        BY <1>2, <1>3, <4>3, <4>4, <4>5
      <4> QED
        BY <4>6 DEF p
    <3>4. \A a \in around : Has(a) /\ devs[a].parent \in around \cup {0}
      BY <3>3
    <3>5. around \in SUBSET DOMAIN devs
      OBVIOUS
    <3> HIDE DEF around
    <3> QED
      BY <1>6, <3>2, <3>4, <3>5 DEF Exists, place
  <2>2. ASSUME Exists(d, b) PROVE Readable(d, b)
    <3>1. PICK around \in SUBSET DOMAIN devs :
            d \in around /\ \A a \in around : Has(a) /\ devs[a].parent \in around \cup {0}
      BY <1>6, <2>2 DEF Exists, place
    <3> DEFINE wrong == {a \in around : ~ (place < devs[a].offset + devs[a].limit)}
    <3>2. CASE wrong = {}
      <4>1. place < devs[d].offset + devs[d].limit
        BY <3>1, <3>2
      <4> QED
        BY <1>2, <4>1 DEF Readable, place
    <3>3. CASE wrong # {}
      <4>1. wrong \in SUBSET Nat
        BY <1>1
      <4>2. PICK a \in wrong : \A n \in wrong : a <= n
        <5> HIDE DEF wrong
        <5> QED
          BY <3>3, <4>1, LeastElement
      <4>3. /\ a \in around /\ a \in DOMAIN devs /\ Has(a) /\ devs[a].parent \in around \cup {0}
            /\ ~ (place < devs[a].offset + devs[a].limit)
        BY <3>1
      <4>4. place >= devs[a].offset /\ place < devs[a].offset + devs[a].blocks
        BY <1>2, <1>3, <4>3
      <4>5. CASE devs[a].parent = 0
        <5>1. devs[a].blocks <= devs[a].limit
          BY <4>3, <4>5 DEF Limits, Limited
        <5> QED
          BY <1>2, <1>3, <4>3, <4>4, <5>1
      <4>6. CASE devs[a].parent # 0
        <5> DEFINE p == devs[a].parent
                   x == place - devs[a].offset
        <5>1. p \in around /\ p \in DOMAIN devs /\ p < a /\ Has(p)
          BY <1>4, <3>1, <4>3, <4>6
        <5>2. p \notin wrong
          <6>1. ~ (a <= p)
            BY <1>1, <4>3, <5>1
          <6> QED
            BY <4>2, <6>1
        <5>3. place < devs[p].offset + devs[p].limit
          BY <5>1, <5>2
        <5>4. place < devs[p].offset + devs[p].blocks
          BY <1>2, <1>3, <5>1
        <5>5. x \in Nat /\ x < devs[a].blocks /\ devs[a].offset + x = place
          BY <1>2, <1>3, <4>3, <4>4
        <5>6. x < devs[a].limit
          BY <1>4, <4>3, <4>6, <5>3, <5>4, <5>5
        <5> QED
          BY <1>2, <1>3, <4>3, <5>5, <5>6
      <4> QED
        BY <4>5, <4>6
    <3> QED
      BY <3>2, <3>3
  <2> QED
    BY <2>1, <2>2
<1> QED
  BY <1>5, <1>6

LEMMA WantedIsExpected ==
  ASSUME TypeOK, Limits(devs), NEW d \in DOMAIN devs
  PROVE  Wanted(d) = Expected(d)
<1>1. ASSUME NEW s \in Kinds PROVE TableAt(s, d) <=> HasTable(s, d)
  <2>1. CASE s = "mbr"
    BY <2>1, ExistsIs DEF TableAt, HasTable
  <2>2. CASE s # "mbr"
    <3>1. CASE Block(d, 1) \in DOMAIN Gpt
      <4>1. Gpt[Block(d, 1)].loc \in Nat
        BY <3>1, ProbeAssumption
      <4> QED
        BY <2>2, <4>1, ExistsIs DEF TableAt, HasTable
    <3>2. CASE Block(d, 1) \notin DOMAIN Gpt
      BY <2>2, <3>2 DEF TableAt, HasTable
    <3> QED
      BY <3>1, <3>2
  <2> QED
    BY <2>1, <2>2
<1>2. ASSUME NEW s \in Kinds PROVE TableParts(s, d) = Parts(s, d)
  BY <1>1 DEF TableParts, Parts
<1> DEFINE t == devs[d].tried
<1>3. t \in Seq(Kinds)
  <2>1. devs[d] \in DeviceType
    BY AtType DEF TypeOK, Sorts
  <2> QED
    BY <2>1 DEF DeviceType
<1>4. \A i \in DOMAIN t : t[i] \in Kinds
  BY <1>3
<1>5. \A i \in DOMAIN t : TableParts(t[i], d) = Parts(t[i], d)
  BY <1>2, <1>4
<1> DEFINE W == {i \in DOMAIN t : TableParts(t[i], d) # <<>>}
           V == {i \in DOMAIN t : Parts(t[i], d) # <<>>}
<1>6. V = W
  BY <1>5
<1>7. ASSUME W # {} PROVE (CHOOSE i \in W : \A j \in W : i <= j) \in DOMAIN t
  <2>1. W \in SUBSET Nat
    BY <1>3
  <2>2. \E i \in W : \A j \in W : i <= j
    <3> HIDE DEF W
    <3> QED
      BY <1>7, <2>1, LeastElement
  <2> QED
    BY <2>2
<1>8. Wanted(d) = IF W = {} THEN <<>> ELSE TableParts(t[CHOOSE i \in W : \A j \in W : i <= j], d)
  BY Zenon DEF Wanted
<1>9. Expected(d) = IF V = {} THEN <<>> ELSE Parts(t[CHOOSE i \in V : \A j \in V : i <= j], d)
  BY Zenon DEF Expected
<1> HIDE DEF V, W, t
<1> QED
  BY <1>5, <1>6, <1>7, <1>8, <1>9

(* After a search every device has been probed, however deep it lies, and  *)
(* one whose probe has not failed has the partitions of its table in their *)
(* order, or else its file system, mounted once: searchTask.               *)
THEOREM ProbeFindsAll == Spec => []FindsAll
<1>1. TypeOK /\ Limits(devs) /\ FindInv => FindsAll
  <2>0. ASSUME TypeOK, Limits(devs), NEW d \in DOMAIN devs
        PROVE  Complete(d) => /\ Children(d) = Expected(d)
                              /\ HasFs(d) <=> (devs[d].fat /\ Expected(d) = <<>> /\ Exists(d, 0)
                                               /\ Block(d, 0) \in Fat)
    BY <2>0, WantedIsExpected, ExistsIs DEF Complete, Mountable
  <2> SUFFICES ASSUME TypeOK, Limits(devs), FindInv, pc = "shell", \E d \in DOMAIN devs : devs[d].probed,
                      NEW d \in DOMAIN devs
               PROVE  /\ devs[d].probed
                      /\ ~devs[d].failed => Complete(d)
                      /\ \A k, l \in DOMAIN fsList : fsList[k] = fsList[l] => k = l
    BY <2>0 DEF FindsAll
  <2>1. Turns /\ Finished /\ Mounts /\ ~Probing
    BY DEF FindInv, Probing
  <2>2. devs[d].probed
    BY <2>1 DEF Turns
  <2> QED
    BY <2>1, <2>2 DEF Finished, Mounts
<1> QED
  BY <1>1, FindInvariant, LimitInvariant, Types, PTL
=============================================================================
