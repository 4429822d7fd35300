---------------------------- MODULE ModulesProofs ---------------------------
(***************************************************************************)
(* Whatever files an archive holds and wherever their sections are placed, *)
(* a module that is loaded is linked as its file says, stays so while      *)
(* others come and go, and nothing but modules holds memory, a section     *)
(* with a name outside its file's table of names aside.                    *)
(***************************************************************************)
EXTENDS Modules, SequenceTheorems, TLAPS

Image(s) == {s[k] : k \in DOMAIN s}
On == Image(modules)
List(s) == s = [k \in 1..Len(s) |-> s[k]] /\ Len(s) \in Nat
Distinct(s) == \A j, k \in DOMAIN s : s[j].file = s[k].file => j = k

(* The table has been read up to the entry that is next, and every module  *)
(* comes from an entry before it.                                          *)
TableInv ==
  /\ archive \in Archives
  /\ at.entry \in Nat \ {0}
  /\ \A e \in 1..(at.entry - 1) : e \in DOMAIN archive.table /\ archive.table[e].size # 0
  /\ load # null =>
       /\ at.entry \in DOMAIN archive.table /\ Entry.size # 0
       /\ load.file = Entry.file
  /\ \A m \in On : \E e \in 1..(at.entry - 1) : archive.table[e].file = m.file

(* No two modules are of one file.                                         *)
ListInv == List(modules) /\ Distinct(modules)

Typed ==
  load # null => /\ DOMAIN load.base \subseteq DOMAIN Elf.sections
                 /\ load \in Loads(load.file, DOMAIN load.base)

(* Blocks are held by the modules, and by the load that goes on; any other *)
(* is lost.                                                                *)
Used(S) == UNION {HeldBy(m) : m \in S}
NotOf(f, blocks) == {h \in blocks : h[1] # f}
Others(f, S) == {m \in S : m.file # f}
InUse ==
  Used(On) \cup (IF load = null THEN {} ELSE HeldBy(load) \cup {<<load.file, "sections", 0>>})
HeldInv == InUse \subseteq held /\ \A h \in held \ InUse : Lost(h)

(* The sections of a file are placed apart, and apart from the others'.    *)
Span(f, base, i) == base[i]..(base[i] + Files[f].sections[i].size - 1)
Placed(f, base, cells) ==
  /\ base \in [DOMAIN base -> Memory] /\ DOMAIN base \subseteq Kept(f)
  /\ Cells(f, base) \subseteq DOMAIN cells
  /\ \A i, j \in DOMAIN base : i # j => Span(f, base, i) \cap Span(f, base, j) = {}

PlacedInv ==
  /\ \A m \in On : Placed(m.file, m.base, mem)
  /\ load # null => Placed(load.file, load.base, mem)
  /\ \A m, n \in On : m # n => Cells(m.file, m.base) \cap Cells(n.file, n.base) = {}
  /\ load # null => \A m \in On : Cells(m.file, m.base) \cap Cells(load.file, load.base) = {}

(* The relocations applied so far.                                         *)
Applied(l) ==
  IF l.phase # "rels" THEN {}
  ELSE {x \in Effective(Files[l.file]) : x[1] < l.i \/ (x[1] = l.i /\ x[2] < l.k)}

(* One that has been applied holds what it should; a cell that none has    *)
(* rewritten holds what the file has there.                                *)
Goal(f, base, x, cells) ==
  LET rel == Files[f].rels[x[1]][x[2]]
      j == Files[f].sections[x[1]].info
  IN /\ j \in DOMAIN base /\ rel.offset \in 0..(Files[f].sections[j].size - 1)
     /\ cells[Place(f, base, x[1], rel)] = Relocated(f, base, x[1], rel)

CellsInv(l, cells) ==
  /\ \A x \in Applied(l) : Goal(l.file, l.base, x, cells)
  /\ \A j \in DOMAIN l.base : \A o \in 0..(Files[l.file].sections[j].size - 1) :
       (\A x \in Applied(l) : Target(Files[l.file], x[1], x[2]) # <<j, o>>)
         => cells[l.base[j] + o] = Files[l.file].sections[j].cells[o + 1]

(* Symbols have their addresses as far as they are resolved, and the three *)
(* the loader looks for are known as far as they have been seen.           *)
Found(f, n, ptr, i) ==
  LET syms == Files[f].symbols
  IN IF ptr = null THEN \A j \in DOMAIN syms : j <= i => syms[j].name # n
     ELSE ptr + 1 \in DOMAIN syms /\ ptr + 1 <= i /\ syms[ptr + 1].name = n

Resolved(l) ==
  CASE l.phase = "sections" -> 1
    [] l.phase = "symbols" -> l.i
    [] OTHER -> Len(Files[l.file].symbols)

SymbolsInv(l) ==
  LET syms == Files[l.file].symbols
  IN /\ DOMAIN l.values = DOMAIN syms
     /\ \A j \in DOMAIN syms : j <= Resolved(l) => l.values[j] = Address(l.base, syms[j])
     /\ Found(l.file, "loom_mod_name", l.name, Resolved(l))
     /\ Found(l.file, "loomModInit", l.init, Resolved(l))
     /\ Found(l.file, "loomModDeinit", l.deinit, Resolved(l))
     /\ l.name # null => Address(l.base, syms[l.name + 1]) \in Cells(l.file, l.base)

PhaseInv(l) ==
  /\ l.phase = "sections" =>
       /\ l.name = null /\ DOMAIN l.base \subseteq 0..(l.i - 1)
       /\ \A j \in Nameless(l.file) : l.i <= j
  /\ l.phase = "symbols" => l.i # 0
  /\ l.phase = "rels" => l.k # 0 /\ l.name # null

LoadInv == load # null => PhaseInv(load) /\ SymbolsInv(load) /\ CellsInv(load, mem)

(* What a module's linkage says is about its own cells.                    *)
Bound(m) ==
  /\ \A x \in Effective(Files[m.file]) :
       Place(m.file, m.base, x[1], Files[m.file].rels[x[1]][x[2]]) \in Cells(m.file, m.base)
  /\ Named(m.file, m.base, "loom_mod_name") \subseteq Cells(m.file, m.base)
LinkInv == \A m \in On : Bound(m) /\ Link(m, mem)

Core == Typed /\ TableInv /\ ListInv /\ HeldInv
Holds == Core /\ PlacedInv /\ LoadInv /\ LinkInv
IInv == outcome = "running" => Holds
----------------------------------------------------------------------------
(* The list of modules, and what a module put first or one removed makes   *)
(* of it.                                                                  *)
LEMMA SeqOfImage ==
  ASSUME NEW s, List(s), NEW S, Image(s) \subseteq S
  PROVE  s \in Seq(S)
<1>1. \A k \in 1..Len(s) : s[k] \in S
  BY DEF Image, List
<1>2. s \in [1..Len(s) -> S]
  BY <1>1 DEF List
<1>3. Len(s) \in Nat
  BY DEF List
<1> QED
  BY <1>2, <1>3, SeqDef

(* A module is put first.                                                  *)
LEMMA Cons ==
  ASSUME NEW s, List(s), NEW r
  PROVE  /\ List(<<r>> \o s) /\ Len(<<r>> \o s) = Len(s) + 1
         /\ Image(<<r>> \o s) = Image(s) \cup {r}
         /\ (<<r>> \o s)[1] = r
         /\ \A k \in 1..Len(s) : (<<r>> \o s)[k + 1] = s[k]
<1> DEFINE S == Image(s) \cup {r}  t == <<r>> \o s
<1>1. s \in Seq(S) /\ <<r>> \in Seq(S) /\ Len(<<r>>) = 1 /\ <<r>>[1] = r
  <2>1. s \in Seq(S)
    BY SeqOfImage
  <2> QED
    BY <2>1
<1>2. /\ t \in Seq(S) /\ Len(t) = 1 + Len(s)
      /\ \A i \in 1..(1 + Len(s)) : t[i] = IF i <= 1 THEN <<r>>[i] ELSE s[i - 1]
  <2> HIDE DEF S
  <2> QED
    BY <1>1, ConcatProperties
<1>3. Len(s) \in Nat
  BY DEF List
<1>4. List(t)
  <2> HIDE DEF t, S
  <2>1. t \in [1..Len(t) -> S] /\ Len(t) \in Nat
    BY <1>2, LenProperties
  <2> QED
    BY <2>1 DEF List
<1>5. t[1] = r
  BY <1>1, <1>2, <1>3
<1>6. ASSUME NEW k \in 1..Len(s) PROVE t[k + 1] = s[k]
  <2>1. k + 1 \in 1..(1 + Len(s)) /\ ~ (k + 1 <= 1) /\ (k + 1) - 1 = k
    BY <1>3
  <2> HIDE DEF t
  <2> QED
    BY <2>1, <1>2
<1>7. DOMAIN t = 1..(Len(s) + 1) /\ DOMAIN s = 1..Len(s)
  <2> HIDE DEF t
  <2> QED
    BY <1>2, <1>3, <1>4 DEF List
<1>8. Image(t) = Image(s) \cup {r}
  <2> HIDE DEF t
  <2>1. ASSUME NEW k \in DOMAIN t PROVE t[k] \in Image(s) \cup {r}
    <3>1. CASE k = 1
      BY <3>1, <1>5
    <3>2. CASE k # 1
      <4>1. k - 1 \in 1..Len(s) /\ (k - 1) + 1 = k
        BY <3>2, <2>1, <1>7, <1>3
      <4> QED
        BY <4>1, <1>6, <1>7 DEF Image
    <3> QED
      BY <3>1, <3>2
  <2>2. ASSUME NEW k \in DOMAIN s PROVE s[k] \in Image(t)
    <3>1. k + 1 \in DOMAIN t /\ t[k + 1] = s[k]
      BY <1>6, <1>7, <1>3
    <3> QED
      BY <3>1 DEF Image
  <2>3. 1 \in DOMAIN t
    BY <1>7, <1>3
  <2> QED
    BY <2>1, <2>2, <2>3, <1>5 DEF Image
<1>9. Len(t) = Len(s) + 1
  <2> HIDE DEF t
  <2> QED
    BY <1>2, <1>3
<1> QED
  BY <1>4, <1>5, <1>6, <1>8, <1>9

(* A module is taken off.                                                  *)
LEMMA Drop ==
  ASSUME NEW s, List(s), Distinct(s), NEW k \in DOMAIN s
  PROVE  LET t == SubSeq(s, 1, k - 1) \o SubSeq(s, k + 1, Len(s))
         IN List(t) /\ Distinct(t) /\ Image(t) = Image(s) \ {s[k]}
<1> DEFINE S == Image(s)  a == SubSeq(s, 1, k - 1)  b == SubSeq(s, k + 1, Len(s))  t == a \o b
           n == Len(s)
<1>1. n \in Nat /\ DOMAIN s = 1..n /\ k \in 1..n
  BY DEF List
<1>2. \A i \in 1..n : s[i] \in S
  BY <1>1 DEF Image
<1>3. a \in Seq(S) /\ Len(a) = k - 1 /\ \A i \in 1..(k - 1) : a[i] = s[i]
  <2> HIDE DEF S
  <2>1. \A i \in 1..(k - 1) : s[i] \in S
    BY <1>1, <1>2
  <2>2. /\ a \in Seq(S) /\ Len(a) = IF 1 <= k - 1 THEN (k - 1) - 1 + 1 ELSE 0
        /\ \A i \in 1..((k - 1) - 1 + 1) : a[i] = s[1 + i - 1]
    <3>1. 1 \in Int /\ k - 1 \in Int
      BY <1>1
    <3> QED
      BY <2>1, <3>1, SubSeqProperties
  <2> HIDE DEF a
  <2> QED
    BY <2>2, <1>1
<1>4. b \in Seq(S) /\ Len(b) = n - k /\ \A i \in 1..(n - k) : b[i] = s[k + i]
  <2> HIDE DEF S
  <2>1. \A i \in (k + 1)..n : s[i] \in S
    BY <1>1, <1>2
  <2>2. /\ b \in Seq(S) /\ Len(b) = IF k + 1 <= n THEN n - (k + 1) + 1 ELSE 0
        /\ \A i \in 1..(n - (k + 1) + 1) : b[i] = s[(k + 1) + i - 1]
    <3>1. k + 1 \in Int /\ n \in Int
      BY <1>1
    <3> QED
      BY <2>1, <3>1, SubSeqProperties
  <2> HIDE DEF b, n
  <2>3. Len(b) = n - k /\ n - (k + 1) + 1 = n - k
    BY <2>2, <1>1
  <2>4. ASSUME NEW i \in 1..(n - k) PROVE b[i] = s[k + i]
    <3>1. i \in 1..(n - (k + 1) + 1) /\ (k + 1) + i - 1 = k + i
      BY <1>1, <2>3
    <3> QED
      BY <3>1, <2>2
  <2> QED
    BY <2>2, <2>3, <2>4
<1>5. /\ t \in Seq(S) /\ Len(t) = n - 1
      /\ \A i \in 1..(n - 1) : t[i] = IF i < k THEN s[i] ELSE s[i + 1]
  <2> HIDE DEF S, a, b, n
  <2>1. /\ t \in Seq(S) /\ Len(t) = Len(a) + Len(b)
        /\ \A i \in 1..(Len(a) + Len(b)) : t[i] = IF i <= Len(a) THEN a[i] ELSE b[i - Len(a)]
    BY <1>3, <1>4, ConcatProperties
  <2>2. ASSUME NEW i \in 1..(n - 1) PROVE t[i] = IF i < k THEN s[i] ELSE s[i + 1]
    <3>1. i \in 1..(Len(a) + Len(b))
      BY <1>1, <1>3, <1>4
    <3>2. CASE i < k
      <4>1. i \in 1..(k - 1) /\ i <= Len(a)
        BY <3>2, <1>1, <1>3
      <4> QED
        BY <4>1, <3>1, <3>2, <2>1, <1>3
    <3>3. CASE ~ (i < k)
      <4>1. ~ (i <= Len(a)) /\ i - Len(a) \in 1..(n - k) /\ k + (i - Len(a)) = i + 1
        BY <3>3, <1>1, <1>3
      <4> HIDE DEF t
      <4> QED
        BY <4>1, <3>1, <3>3, <2>1, <1>4
    <3> QED
      BY <3>2, <3>3
  <2> HIDE DEF t
  <2> QED
    BY <2>1, <2>2, <1>1, <1>3, <1>4
<1> HIDE DEF a, b, t, n
<1>6. List(t) /\ DOMAIN t = 1..(n - 1)
  <2>1. t \in [1..Len(t) -> S] /\ Len(t) \in Nat
    BY <1>5, LenProperties
  <2> QED
    BY <2>1, <1>5 DEF List
<1>7. Distinct(t)
  <2> SUFFICES ASSUME NEW i \in 1..(n - 1), NEW j \in 1..(n - 1), t[i].file = t[j].file PROVE i = j
    BY <1>6 DEF Distinct
  <2> DEFINE u(x) == IF x < k THEN x ELSE x + 1
  <2>1. t[i] = s[u(i)] /\ t[j] = s[u(j)]
    BY <1>5
  <2>2. u(i) \in 1..n /\ u(j) \in 1..n
    BY <1>1
  <2>3. u(i) = u(j)
    <3> HIDE DEF u
    <3> QED
      BY <2>1, <2>2, <1>1 DEF Distinct
  <2> QED
    BY <2>3, <1>1
<1>8. Image(t) = Image(s) \ {s[k]}
  <2>1. ASSUME NEW i \in DOMAIN t PROVE t[i] \in Image(s) \ {s[k]}
    <3> DEFINE x == IF i < k THEN i ELSE i + 1
    <3>1. x \in 1..n /\ x # k
      BY <1>1, <1>6
    <3>2. t[i] = s[x]
      BY <1>5, <1>6
    <3>3. s[x] # s[k]
      <4> HIDE DEF x
      <4> QED
        BY <3>1, <1>1 DEF Distinct
    <3> HIDE DEF x
    <3> QED
      BY <3>1, <3>2, <3>3, <1>1 DEF Image
  <2>2. ASSUME NEW x \in 1..n, s[x] # s[k] PROVE s[x] \in Image(t)
    <3> DEFINE i == IF x < k THEN x ELSE x - 1
    <3>0. x # k
      BY <2>2
    <3>1. i \in 1..(n - 1) /\ (IF i < k THEN i ELSE i + 1) = x
      BY <1>1, <3>0
    <3>2. t[i] = s[x]
      <4>1. t[i] = IF i < k THEN s[i] ELSE s[i + 1]
        <5> HIDE DEF i
        <5> QED
          BY <3>1, <1>5
      <4>2. CASE x < k
        BY <4>1, <4>2
      <4>3. CASE ~ (x < k)
        BY <4>1, <4>3, <3>1, <1>1, <3>0
      <4> QED
        BY <4>2, <4>3
    <3> HIDE DEF i
    <3> QED
      BY <3>1, <3>2, <1>6 DEF Image
  <2> QED
    BY <2>1, <2>2, <1>1 DEF Image
<1> QED
  BY <1>6, <1>7, <1>8 DEF t, a, b, n
----------------------------------------------------------------------------
(* What is assumed of the archive.                                         *)
LEMMA ArchiveIs ==
  ASSUME TableInv
  PROVE  /\ archive.taboff \in Nat /\ archive.modoff \in Nat
         /\ archive.table \in Seq([size : Nat, file : DOMAIN Files \cup {null}])
         /\ \A e \in DOMAIN archive.table :
              archive.table[e].size # 0 => archive.table[e].file \in DOMAIN Files
         /\ \A e, f \in DOMAIN archive.table :
              archive.table[e].size # 0 /\ archive.table[e].file = archive.table[f].file => e = f
         /\ \/ Len(archive.table) >= archive.modoff - archive.taboff
            \/ \E e \in DOMAIN archive.table : archive.table[e].size = 0
BY ArchivesAssumption DEF TableInv

(* The table does not end before the entry that is next.                   *)
LEMMA EntryThere ==
  ASSUME TableInv, Good
  PROVE  at.entry \in DOMAIN archive.table
<1> DEFINE n == Len(archive.table)
<1>1. n \in Nat /\ DOMAIN archive.table = 1..n
  <2>1. archive.table \in Seq([size : Nat, file : DOMAIN Files \cup {null}])
    BY ArchiveIs
  <2> QED
    BY <2>1, LenProperties
<1>2. at.entry \in Nat \ {0} /\ archive.taboff + at.entry <= archive.modoff
  BY DEF TableInv, Good, EntryGood
<1>3. CASE n >= archive.modoff - archive.taboff
  <2>1. archive.taboff \in Nat /\ archive.modoff \in Nat
    BY ArchiveIs
  <2>2. at.entry <= n
    BY <1>1, <1>2, <1>3, <2>1
  <2> HIDE DEF n
  <2> QED
    BY <1>1, <1>2, <2>2
<1>4. CASE \E e \in DOMAIN archive.table : archive.table[e].size = 0
  <2>1. PICK e \in DOMAIN archive.table : archive.table[e].size = 0
    BY <1>4
  <2>2. e \notin 1..(at.entry - 1)
    BY <2>1 DEF TableInv
  <2> HIDE DEF n
  <2> QED
    BY <1>1, <1>2, <2>1, <2>2
<1> QED
  BY <1>3, <1>4, ArchiveIs

(* The file that is next is none of those of the modules.                  *)
LEMMA NewFile ==
  ASSUME TableInv, at.entry \in DOMAIN archive.table, Entry.size # 0
  PROVE  Entry.file \in DOMAIN Files /\ \A m \in On : m.file # Entry.file
<1>1. Entry.file \in DOMAIN Files
  BY ArchiveIs DEF Entry
<1>2. ASSUME NEW m \in On, m.file = Entry.file PROVE FALSE
  <2>1. PICK e \in 1..(at.entry - 1) : archive.table[e].file = m.file
    BY DEF TableInv
  <2>2. e \in DOMAIN archive.table /\ e # at.entry
    BY <2>1 DEF TableInv
  <2> QED
    BY <1>2, <2>1, <2>2, ArchiveIs DEF Entry
<1> QED
  BY <1>1, <1>2

LEMMA LoadFile ==
  ASSUME TableInv, load # null
  PROVE  load.file \in DOMAIN Files /\ \A m \in On : m.file # load.file
BY NewFile DEF TableInv

LEMMA FilesOn ==
  ASSUME TableInv
  PROVE  \A m \in On : m.file \in DOMAIN Files
<1> SUFFICES ASSUME NEW m \in On PROVE m.file \in DOMAIN Files
  OBVIOUS
<1>1. PICK e \in 1..(at.entry - 1) : archive.table[e].file = m.file
  BY DEF TableInv
<1>2. e \in DOMAIN archive.table /\ archive.table[e].size # 0
  BY <1>1 DEF TableInv
<1> QED
  BY <1>1, <1>2, ArchiveIs

(* The entry has been tried.                                               *)
LEMMA Advanced ==
  ASSUME TableInv, at.entry \in DOMAIN archive.table, Entry.size # 0, Advance, archive' = archive
  PROVE  /\ at'.entry \in Nat \ {0}
         /\ \A e \in 1..(at'.entry - 1) : e \in DOMAIN archive'.table /\ archive'.table[e].size # 0
         /\ at.entry \in 1..(at'.entry - 1) /\ 1..(at.entry - 1) \subseteq 1..(at'.entry - 1)
<1>1. at'.entry = at.entry + 1 /\ at.entry \in Nat \ {0}
  BY DEF Advance, TableInv
<1>2. at'.entry \in Nat \ {0} /\ 1..(at'.entry - 1) = 1..(at.entry - 1) \cup {at.entry}
  BY <1>1
<1>3. \A e \in 1..(at.entry - 1) : e \in DOMAIN archive.table /\ archive.table[e].size # 0
  BY DEF TableInv
<1> QED
  BY <1>2, <1>3 DEF Entry

(* Blocks of one file.                                                     *)
LEMMA UsedWith ==
  ASSUME NEW S, NEW m, NEW l, HeldBy(l) = HeldBy(m)
  PROVE  Used(S \cup {m}) = Used(S) \cup HeldBy(l)
BY DEF Used

LEMMA UsedElse ==
  ASSUME NEW S, NEW f
  PROVE  NotOf(f, Used(S)) = Used(Others(f, S))
<1>1. \A n : \A h \in HeldBy(n) : h[1] = n.file
  BY DEF HeldBy
<1>2. ASSUME NEW h \in Used(S), h[1] # f PROVE h \in Used(Others(f, S))
  <2>1. PICK m \in S : h \in HeldBy(m)
    BY DEF Used
  <2>2. m.file # f
    BY <2>1, <1>1, <1>2
  <2> QED
    BY <2>1, <2>2 DEF Used, Others
<1>3. ASSUME NEW h \in Used(Others(f, S)) PROVE h \in Used(S) /\ h[1] # f
  <2>1. PICK m \in Others(f, S) : h \in HeldBy(m)
    BY DEF Used
  <2> QED
    BY <2>1, <1>1 DEF Used, Others
<1> QED
  BY <1>2, <1>3 DEF NotOf

LEMMA SameFile ==
  ASSUME ListInv
  PROVE  \A m, n \in On : m.file = n.file => m = n
BY DEF ListInv, Distinct, On, Image

LEMMA LoadFields ==
  ASSUME Typed, load # null
  PROVE  /\ load.phase \in {"sections", "symbols", "rels"} /\ load.i \in Nat /\ load.k \in Nat
         /\ load.base \in [DOMAIN load.base -> Memory] /\ load.symtab \in Nat
         /\ load.name \in Nat \cup {null} /\ load.init \in Nat \cup {null}
         /\ load.deinit \in Nat \cup {null} /\ load.values \in Seq(Nat)
         /\ DOMAIN load.base \subseteq DOMAIN Elf.sections
BY DEF Typed, Loads

LEMMA NotNull ==
  ASSUME NEW f \in DOMAIN Files, NEW D \in SUBSET DOMAIN Files[f].sections, NEW l \in Loads(f, D)
  PROVE  l # null
BY NullAssumption
----------------------------------------------------------------------------
(* The load goes on: nothing but load changes, nor the file, nor what of   *)
(* it has been placed.                                                     *)
Moves ==
  /\ load # null /\ UNCHANGED <<archive, at, held, modules, outcome>>
  /\ load'.file = load.file /\ load'.base = load.base
  /\ load' \in Loads(load.file, DOMAIN load.base)

LEMMA CoreMoves ==
  ASSUME Core, Moves
  PROVE  Core' /\ load' # null
<1>1. load' # null
  <2>1. load.file \in DOMAIN Files /\ DOMAIN load.base \subseteq DOMAIN Files[load.file].sections
    BY LoadFile, LoadFields DEF Core, Moves, Elf
  <2> QED
    BY <2>1, NotNull DEF Moves
<1>2. On' = On
  BY DEF On, Image, Moves
<1>3. Typed'
  <2>1. DOMAIN load.base \subseteq DOMAIN Files[load.file].sections
    BY LoadFields DEF Core, Moves, Elf
  <2> QED
    BY <2>1 DEF Typed, Moves, Elf
<1>4. TableInv'
  BY <1>2 DEF TableInv, Core, Moves, Entry
<1>5. ListInv'
  BY DEF ListInv, Core, Moves
<1>6. HeldInv'
  <2>1. HeldBy(load') = HeldBy(load)
    BY DEF HeldBy, Moves
  <2>2. InUse' = InUse /\ held' = held
    BY <1>1, <1>2, <2>1 DEF InUse, Moves
  <2> QED
    BY <2>2 DEF HeldInv, Core
<1> QED
  BY <1>1, <1>3, <1>4, <1>5, <1>6 DEF Core

(* A file is passed over.                                                  *)
LEMMA CoreSkips ==
  ASSUME Core, Loading, Advance, UNCHANGED <<archive, load, held, modules, outcome>>
  PROVE  Core'
<1>1. load = null /\ load' = null /\ Good /\ Entry.size # 0
  BY DEF Loading
<1>2. On' = On
  BY DEF On, Image
<1>3. TableInv'
  <2>1. at.entry \in DOMAIN archive.table
    BY <1>1, EntryThere DEF Core
  <2> QED
    BY <2>1, <1>1, <1>2, Advanced DEF Core, TableInv
<1>4. ListInv' /\ HeldInv' /\ Typed'
  BY <1>1, <1>2 DEF Core, ListInv, HeldInv, InUse, Typed
<1> QED
  BY <1>3, <1>4 DEF Core

(* A load fails.                                                           *)
LEMMA CoreError ==
  ASSUME Core, load # null, NEW lost, ErrorBut(lost), \A h \in lost : Lost(h),
         UNCHANGED <<archive, modules, outcome>>
  PROVE  Core'
<1>1. On' = On
  BY DEF On, Image
<1>2. load' = null
  BY DEF ErrorBut
<1>3. TableInv'
  <2>1. at.entry \in DOMAIN archive.table /\ Entry.size # 0 /\ Advance
    BY DEF ErrorBut, Core, TableInv
  <2> QED
    BY <2>1, <1>1, <1>2, Advanced DEF Core, TableInv
<1>4. HeldInv'
  <2>1. \A m \in On : m.file # load.file
    BY LoadFile DEF Core
  <2>3. \A h \in HeldBy(load) \cup {<<load.file, "sections", 0>>} : h[1] = load.file
    BY DEF HeldBy
  <2>4. InUse = Used(On) \cup (HeldBy(load) \cup {<<load.file, "sections", 0>>})
    BY DEF InUse
  <2>5. held' = NotOf(load.file, held) \cup lost
    BY DEF ErrorBut, NotOf
  <2>6. NotOf(load.file, Used(On)) = Used(On)
    <3>1. Others(load.file, On) = On
      BY <2>1 DEF Others
    <3> QED
      BY <3>1, UsedElse
  <2>7. InUse' = Used(On)
    BY <1>1, <1>2 DEF InUse
  <2>8. Used(On) \subseteq held'
    BY <2>4, <2>5, <2>6 DEF Core, HeldInv, NotOf
  <2>9. ASSUME NEW h \in held', h \notin Used(On) PROVE Lost(h)
    <3>1. CASE h \in lost
      BY <3>1
    <3>2. CASE h \in held /\ h[1] # load.file
      <4>1. h \notin InUse
        BY <3>2, <2>3, <2>4, <2>9
      <4> QED
        BY <4>1, <3>2 DEF Core, HeldInv
    <3> QED
      BY <3>1, <3>2, <2>5 DEF NotOf
  <2> QED
    BY <2>7, <2>8, <2>9 DEF HeldInv
<1>5. ListInv' /\ Typed'
  BY <1>2 DEF Core, ListInv, Typed
<1> QED
  BY <1>3, <1>4, <1>5 DEF Core

(* A load begins.                                                          *)
LEMMA CoreBegins ==
  ASSUME Core, Loading, UNCHANGED <<archive, at, modules, outcome>>,
         load' = [file |-> Entry.file, phase |-> "sections", i |-> 0, k |-> 0, base |-> <<>>,
                  symtab |-> UNDEF, name |-> null, init |-> null, deinit |-> null,
                  values |-> [j \in DOMAIN Files[Entry.file].symbols |-> Files[Entry.file].symbols[j].value]],
         held' = held \cup {<<Entry.file, "mod", 0>>, <<Entry.file, "sections", 0>>}
  PROVE  Core' /\ load' # null
<1> DEFINE f == Entry.file
<1>1. load = null /\ Good /\ Entry.size # 0
  BY DEF Loading
<1>2. On' = On
  BY DEF On, Image
<1>3. at.entry \in DOMAIN archive.table
  BY <1>1, EntryThere DEF Core
<1>4. f \in DOMAIN Files /\ \A m \in On : m.file # f
  BY <1>1, <1>3, NewFile DEF Core
<1>5. load'.file = f /\ load'.base = <<>> /\ DOMAIN load'.base = {}
  OBVIOUS
<1>6. load' \in Loads(f, {})
  <2> DEFINE syms == Files[f].symbols
  <2>1. syms \in Seq([name : STRING, type : STRING, shidx : Nat, value : Nat, size : Nat])
    BY <1>4, FilesAssumption DEF WellFormed
  <2>2. [j \in DOMAIN syms |-> syms[j].value] \in Seq(Nat)
    <3> DEFINE Sy == [name : STRING, type : STRING, shidx : Nat, value : Nat, size : Nat]
    <3>0. \A y \in Sy : y.value \in Nat
      OBVIOUS
    <3> HIDE DEF syms, Sy
    <3>1. Len(syms) \in Nat /\ DOMAIN syms = 1..Len(syms)
          /\ \A j \in 1..Len(syms) : syms[j].value \in Nat
      BY <2>1, <3>0, LenProperties, ElementOfSeq DEF Sy
    <3>2. [j \in DOMAIN syms |-> syms[j].value] \in [1..Len(syms) -> Nat]
      BY <3>1
    <3> QED
      BY <3>1, <3>2, SeqDef
  <2>3. <<>> \in [{} -> Memory]
    OBVIOUS
  <2> QED
    BY <2>2, <2>3 DEF Loads, UNDEF
<1>7. load' # null
  BY <1>4, <1>6, NotNull
<1>8. Typed'
  BY <1>5, <1>6 DEF Typed
<1>9. TableInv'
  BY <1>1, <1>2, <1>3, <1>5 DEF TableInv, Core, Entry
<1>10. HeldInv'
  <2>1. HeldBy(load') = {<<f, "mod", 0>>}
    BY <1>5 DEF HeldBy
  <2>2. InUse = Used(On) /\ InUse' = InUse \cup {<<f, "mod", 0>>, <<f, "sections", 0>>}
    BY <2>1, <1>1, <1>2, <1>5, <1>7 DEF InUse
  <2> QED
    BY <2>2 DEF Core, HeldInv
<1>11. ListInv'
  BY DEF Core, ListInv
<1> QED
  BY <1>7, <1>8, <1>9, <1>10, <1>11 DEF Core

(* A section is placed.                                                    *)
LEMMA CorePlaces ==
  ASSUME Core, load # null, NEW a \in Memory, NEW i \in DOMAIN Elf.sections,
         load'.file = load.file,
         load'.base = [j \in DOMAIN load.base \cup {i} |-> IF j = i THEN a ELSE load.base[j]],
         load' \in Loads(load.file, DOMAIN load.base \cup {i}),
         held' = held \cup {<<load.file, what, i>> : what \in {"section", "p"}},
         UNCHANGED <<archive, at, modules, outcome>>
  PROVE  Core' /\ load' # null
<1>1. DOMAIN load'.base = DOMAIN load.base \cup {i} /\ DOMAIN load'.base \subseteq DOMAIN Elf.sections
  BY LoadFields DEF Core
<1>2. load' # null
  BY <1>1, LoadFile, NotNull DEF Core, Elf
<1>3. On' = On
  BY DEF On, Image
<1>4. Typed'
  BY <1>1 DEF Typed, Elf
<1>5. TableInv'
  BY <1>3 DEF TableInv, Core, Entry
<1>6. HeldInv'
  <2>1. HeldBy(load') = HeldBy(load) \cup {<<load.file, what, i>> : what \in {"section", "p"}}
    BY <1>1 DEF HeldBy
  <2>2. InUse' = InUse \cup {<<load.file, what, i>> : what \in {"section", "p"}}
    BY <2>1, <1>2, <1>3 DEF InUse
  <2> QED
    BY <2>2 DEF Core, HeldInv
<1>7. ListInv'
  BY DEF Core, ListInv
<1> QED
  BY <1>2, <1>4, <1>5, <1>6, <1>7 DEF Core

(* A load ends, and the module is on the list.                             *)
LEMMA CoreLoaded ==
  ASSUME Core, load # null, Loaded
  PROVE  Core' /\ \E m : /\ On' = On \cup {m}
                          /\ m = [file |-> load.file, base |-> load.base, name |-> mem[Value(load.name)],
                                  init |-> Value(load.init), deinit |-> Value(load.deinit)]
<1> DEFINE m == [file |-> load.file, base |-> load.base, name |-> mem[Value(load.name)],
                 init |-> Value(load.init), deinit |-> Value(load.deinit)]
<1>1. modules' = <<m>> \o modules /\ load' = null /\ Advance /\ archive' = archive
      /\ held' = held \ {<<load.file, "sections", 0>>}
  BY DEF Loaded
<1>2. m.file = load.file /\ m.base = load.base
  OBVIOUS
<1> HIDE DEF m
<1>3. List(modules) /\ Distinct(modules)
  BY DEF Core, ListInv
<1>4. /\ List(modules') /\ Len(modules') = Len(modules) + 1
      /\ Image(modules') = Image(modules) \cup {m}
      /\ modules'[1] = m
      /\ \A k \in 1..Len(modules) : modules'[k + 1] = modules[k]
  <2>1. /\ List(<<m>> \o modules) /\ Len(<<m>> \o modules) = Len(modules) + 1
        /\ Image(<<m>> \o modules) = Image(modules) \cup {m}
        /\ (<<m>> \o modules)[1] = m
        /\ \A k \in 1..Len(modules) : (<<m>> \o modules)[k + 1] = modules[k]
    <3>1. List(modules)
      BY <1>3
    <3> HIDE DEF m
    <3> QED
      BY <3>1, Cons
  <2> QED
    BY <1>1, <2>1, Zenon
<1>5. On' = On \cup {m}
  BY <1>4 DEF On
<1>6. \A n \in On : n.file # load.file
  BY LoadFile DEF Core
<1>7. Distinct(modules')
  <2>1. DOMAIN modules' = 1..(Len(modules) + 1) /\ DOMAIN modules = 1..Len(modules) /\ Len(modules) \in Nat
    BY <1>3, <1>4 DEF List
  <2>2. ASSUME NEW j \in DOMAIN modules', j # 1
        PROVE  j - 1 \in DOMAIN modules /\ modules'[j] = modules[j - 1] /\ modules'[j].file # m.file
    <3>1. j - 1 \in 1..Len(modules) /\ (j - 1) + 1 = j
      BY <2>1, <2>2
    <3>2. modules'[j] = modules[j - 1]
      BY <3>1, <1>4
    <3> QED
      BY <3>1, <3>2, <2>1, <1>2, <1>6 DEF On, Image
  <2> SUFFICES ASSUME NEW j \in DOMAIN modules', NEW k \in DOMAIN modules',
                      modules'[j].file = modules'[k].file
               PROVE  j = k
    BY DEF Distinct
  <2>3. CASE j = 1 \/ k = 1
    BY <2>2, <2>3, <1>4
  <2>4. CASE j # 1 /\ k # 1
    <3>1. j - 1 = k - 1
      BY <2>2, <2>4, <1>3 DEF Distinct
    <3> QED
      BY <3>1, <2>1
  <2> QED
    BY <2>3, <2>4
<1>8. TableInv'
  <2>1. at.entry \in DOMAIN archive.table /\ Entry.size # 0 /\ load.file = archive.table[at.entry].file
    BY DEF Core, TableInv, Entry
  <2>2. /\ at'.entry \in Nat \ {0}
        /\ \A e \in 1..(at'.entry - 1) : e \in DOMAIN archive'.table /\ archive'.table[e].size # 0
        /\ at.entry \in 1..(at'.entry - 1) /\ 1..(at.entry - 1) \subseteq 1..(at'.entry - 1)
    BY <2>1, <1>1, Advanced DEF Core
  <2>3. \A n \in On' : \E e \in 1..(at'.entry - 1) : archive'.table[e].file = n.file
    BY <2>1, <2>2, <1>1, <1>2, <1>5 DEF Core, TableInv
  <2> QED
    BY <2>2, <2>3, <1>1 DEF Core, TableInv
<1>9. HeldInv'
  <2>1. InUse = Used(On) \cup (HeldBy(load) \cup {<<load.file, "sections", 0>>})
    BY DEF InUse
  <2>2. HeldBy(load) = HeldBy(m)
    BY <1>2 DEF HeldBy
  <2>3. <<load.file, "sections", 0>> \notin HeldBy(load)
    BY DEF HeldBy
  <2>4. <<load.file, "sections", 0>> \notin Used(On)
    BY DEF HeldBy, Used
  <2>5. InUse' = Used(On) \cup HeldBy(load)
    <3>1. Used(On') = Used(On) \cup HeldBy(load)
      BY <2>2, <1>5, UsedWith
    <3> QED
      BY <3>1, <1>1 DEF InUse
  <2>6. InUse' = InUse \ {<<load.file, "sections", 0>>}
    BY <2>1, <2>3, <2>4, <2>5
  <2> QED
    BY <2>6, <1>1 DEF Core, HeldInv
<1>10. ListInv' /\ Typed'
  BY <1>1, <1>4, <1>7 DEF ListInv, Typed
<1> QED
  BY <1>5, <1>8, <1>9, <1>10 DEF Core, m

(* A module is removed.                                                    *)
LEMMA CoreRmmod ==
  ASSUME Core, NEW k \in DOMAIN modules, Rmmod(k)
  PROVE  Core' /\ On' = On \ {modules[k]} /\ modules[k] \in On
<1> DEFINE m == modules[k]
<1>1. /\ modules' = SubSeq(modules, 1, k - 1) \o SubSeq(modules, k + 1, Len(modules))
      /\ held' = {h \in held : h[1] # m.file}
      /\ UNCHANGED <<archive, at, load, outcome>> /\ load = null
  BY DEF Rmmod, Started
<1>2. List(modules') /\ Distinct(modules') /\ Image(modules') = Image(modules) \ {m}
  BY <1>1, Drop DEF Core, ListInv
<1>3. On' = On \ {m} /\ m \in On
  BY <1>2 DEF On, Image
<1> HIDE DEF m
<1>4. TableInv'
  BY <1>1, <1>3 DEF Core, TableInv
<1>5. HeldInv'
  <2>1. InUse = Used(On) /\ InUse' = Used(On')
    BY <1>1 DEF InUse
  <2>2. \A n \in On : n.file = m.file <=> n = m
    BY <1>3, SameFile DEF Core
  <2>3. Others(m.file, On) = On'
    BY <2>2, <1>3 DEF Others
  <2>4. InUse' = NotOf(m.file, InUse)
    BY <2>1, <2>3, UsedElse
  <2>5. held' = NotOf(m.file, held)
    BY <1>1 DEF NotOf
  <2> QED
    BY <2>4, <2>5 DEF NotOf, Core, HeldInv
<1>6. ListInv' /\ Typed'
  BY <1>1, <1>2 DEF ListInv, Typed
<1> QED
  BY <1>3, <1>4, <1>5, <1>6 DEF Core, m
----------------------------------------------------------------------------
(* What is assumed of a file.                                              *)
LEMMA FileIs ==
  ASSUME NEW f \in DOMAIN Files
  PROVE  WellFormed(Files[f])
BY FilesAssumption

LEMMA SymbolsAre ==
  ASSUME NEW f \in DOMAIN Files
  PROVE  LET syms == Files[f].symbols
         IN /\ Len(syms) \in Nat /\ DOMAIN syms = 1..Len(syms)
            /\ \A j \in DOMAIN syms : syms[j].shidx \in Nat /\ syms[j].value \in Nat /\ syms[j].size \in Nat
<1> DEFINE Sy == [name : STRING, type : STRING, shidx : Nat, value : Nat, size : Nat]
           syms == Files[f].symbols
<1>1. \A y \in Sy : y.shidx \in Nat /\ y.value \in Nat /\ y.size \in Nat
  OBVIOUS
<1>2. syms \in Seq(Sy)
  BY FileIs DEF WellFormed
<1> HIDE DEF syms, Sy
<1>3. Len(syms) \in Nat /\ DOMAIN syms = 1..Len(syms) /\ \A j \in 1..Len(syms) : syms[j] \in Sy
  BY <1>2, LenProperties, ElementOfSeq
<1>4. /\ Len(syms) \in Nat /\ DOMAIN syms = 1..Len(syms)
      /\ \A j \in DOMAIN syms : syms[j].shidx \in Nat /\ syms[j].value \in Nat /\ syms[j].size \in Nat
  BY <1>1, <1>3
<1> QED
  BY <1>4 DEF syms

LEMMA RelsAre ==
  ASSUME NEW f \in DOMAIN Files, NEW i \in DOMAIN Files[f].rels
  PROVE  LET rels == Files[f].rels[i]
         IN /\ Len(rels) \in Nat /\ DOMAIN rels = 1..Len(rels)
            /\ \A k \in DOMAIN rels : rels[k].offset \in Nat /\ rels[k].sym \in Nat
<1> DEFINE Re == [offset : Nat, sym : Nat, type : STRING]
           rels == Files[f].rels[i]
<1>1. \A y \in Re : y.offset \in Nat /\ y.sym \in Nat
  OBVIOUS
<1>2. rels \in Seq(Re)
  BY FileIs DEF WellFormed
<1> HIDE DEF rels, Re
<1>3. Len(rels) \in Nat /\ DOMAIN rels = 1..Len(rels) /\ \A k \in 1..Len(rels) : rels[k] \in Re
  BY <1>2, LenProperties, ElementOfSeq
<1>4. /\ Len(rels) \in Nat /\ DOMAIN rels = 1..Len(rels)
      /\ \A k \in DOMAIN rels : rels[k].offset \in Nat /\ rels[k].sym \in Nat
  BY <1>1, <1>3
<1> QED
  BY <1>4 DEF rels

LEMMA MemoryNat == Memory \subseteq Nat /\ \A n \in DOMAIN Exports : Exports[n] \in Nat
BY WordAssumption

LEMMA AddressNat ==
  ASSUME NEW f \in DOMAIN Files, NEW base, base \in [DOMAIN base -> Memory],
         NEW j \in DOMAIN Files[f].symbols
  PROVE  Address(base, Files[f].symbols[j]) \in Nat
<1> DEFINE sym == Files[f].symbols[j]
<1>1. sym.value \in Nat
  BY SymbolsAre
<1>2. sym.shidx \in DOMAIN base => base[sym.shidx] \in Nat
  BY MemoryNat
<1> HIDE DEF sym
<1>3. Address(base, sym) \in Nat
  BY <1>1, <1>2, MemoryNat DEF Address
<1> QED
  BY <1>3 DEF sym

(* A good symbol's value becomes its address.                              *)
LEMMA AddressIs ==
  ASSUME NEW sym, SymbolGood(sym), sym.value \in Nat
  PROVE  AddressOf(sym) = Address(load.base, sym)
<1>1. CASE External(sym)
  BY <1>1 DEF SymbolGood, AddressOf, Address, External
<1>2. CASE ~ External(sym)
  <2>1. sym.shidx # UNDEF
    BY <1>2 DEF SymbolGood
  <2>2. CASE Inside(sym)
    BY <1>2, <2>1, <2>2 DEF AddressOf, Address, Inside
  <2>3. CASE ~ Inside(sym)
    BY <1>2, <2>1, <2>3 DEF AddressOf, Address, Inside
  <2> QED
    BY <2>2, <2>3
<1> QED
  BY <1>1, <1>2

LEMMA ExceptNat ==
  ASSUME NEW s \in Seq(Nat), NEW x, NEW v \in Nat
  PROVE  [s EXCEPT ![x] = v] \in Seq(Nat)
<1>1. Len(s) \in Nat /\ s \in [1..Len(s) -> Nat]
  BY LenProperties
<1>2. [s EXCEPT ![x] = v] \in [1..Len(s) -> Nat]
  BY <1>1
<1> QED
  BY <1>1, <1>2, SeqDef

(* What each step of a load does to load: where it stands, and the rest.   *)
Stands(phase, i, k) == load'.phase = phase /\ load'.i = i /\ load'.k = k
Same ==
  /\ load'.name = load.name /\ load'.init = load.init /\ load'.deinit = load.deinit
  /\ load'.values = load.values

LEMMA SectionSkips ==
  ASSUME Core, load # null, load' = NextSection(load.i, Section(load.i)), load.phase = "sections",
         UNCHANGED <<archive, at, held, modules, outcome>>
  PROVE  Moves /\ Same /\ Stands("sections", load.i + 1, load.k)
<1>1. /\ load \in Loads(load.file, DOMAIN load.base) /\ load.i + 1 \in Nat /\ load.k + 1 \in Nat
      /\ (IF Section(load.i).type = "SYMTAB" THEN load.i ELSE load.symtab) \in Nat
  BY LoadFields DEF Core, Typed
<1>2. /\ load' \in Loads(load.file, DOMAIN load.base)
      /\ load'.file = load.file /\ load'.base = load.base
      /\ Same /\ Stands("sections", load.i + 1, load.k)
  BY <1>1 DEF Loads, Same, Stands, NextSection
<1> QED
  BY <1>2 DEF Moves

LEMMA SectionPlaced ==
  ASSUME Core, load # null, NEW a \in Memory, load.phase = "sections",
         NEW i, i = load.i,
         load' = [NextSection(i, Section(i)) EXCEPT
                    !.base = [j \in DOMAIN @ \cup {i} |-> IF j = i THEN a ELSE @[j]]]
  PROVE  /\ load'.file = load.file
         /\ load'.base = [j \in DOMAIN load.base \cup {i} |-> IF j = i THEN a ELSE load.base[j]]
         /\ load' \in Loads(load.file, DOMAIN load.base \cup {i})
         /\ Same /\ Stands("sections", load.i + 1, load.k)
<1> DEFINE b == [j \in DOMAIN load.base \cup {i} |-> IF j = i THEN a ELSE load.base[j]]
<1>1. load \in Loads(load.file, DOMAIN load.base)
  BY DEF Core, Typed
<1>2. b \in [DOMAIN load.base \cup {i} -> Memory]
  BY LoadFields DEF Core
<1> DEFINE st == IF Section(i).type = "SYMTAB" THEN i ELSE load.symtab
<1>5. st \in Nat /\ i + 1 \in Nat
  BY LoadFields DEF Core
<1>3. load' = [load EXCEPT !.i = i + 1, !.symtab = st, !.base = b]
  BY <1>1 DEF NextSection, Loads
<1> HIDE DEF b, st
<1>4. /\ load'.file = load.file /\ load'.base = b
      /\ load' \in Loads(load.file, DOMAIN load.base \cup {i})
      /\ Same /\ Stands("sections", load.i + 1, load.k)
  BY <1>1, <1>2, <1>3, <1>5 DEF Same, Stands, Loads
<1> QED
  BY <1>4 DEF b

LEMMA SectionsEnd ==
  ASSUME Core, load # null, load' = [load EXCEPT !.phase = "symbols", !.i = 1],
         UNCHANGED <<archive, at, held, modules, outcome>>
  PROVE  Moves /\ Same /\ Stands("symbols", 1, load.k)
<1>1. load \in Loads(load.file, DOMAIN load.base)
  BY DEF Core, Typed
<1> QED
  BY <1>1, LoadFields DEF Core, Moves, Same, Stands, Loads

LEMMA SymbolsEnd ==
  ASSUME Core, load # null, load' = [load EXCEPT !.phase = "rels", !.i = 0, !.k = 1],
         UNCHANGED <<archive, at, held, modules, outcome>>
  PROVE  Moves /\ Same /\ Stands("rels", 0, 1)
<1>1. load \in Loads(load.file, DOMAIN load.base)
  BY DEF Core, Typed
<1> QED
  BY <1>1, LoadFields DEF Core, Moves, Same, Stands, Loads

LEMMA RelSectionEnds ==
  ASSUME Core, load # null, load' = [load EXCEPT !.i = @ + 1, !.k = 1],
         UNCHANGED <<archive, at, held, modules, outcome>>
  PROVE  Moves /\ Same /\ Stands(load.phase, load.i + 1, 1)
<1>1. /\ load \in Loads(load.file, DOMAIN load.base) /\ load.i + 1 \in Nat /\ load.k + 1 \in Nat
      /\ (IF Section(load.i).type = "SYMTAB" THEN load.i ELSE load.symtab) \in Nat
  BY LoadFields DEF Core, Typed
<1>2. /\ load' \in Loads(load.file, DOMAIN load.base)
      /\ load'.file = load.file /\ load'.base = load.base
      /\ Same /\ Stands(load.phase, load.i + 1, 1)
  BY <1>1 DEF Loads, Same, Stands, NextSection
<1> QED
  BY <1>2 DEF Moves

LEMMA RelPasses ==
  ASSUME Core, load # null, load' = [load EXCEPT !.k = @ + 1],
         UNCHANGED <<archive, at, held, modules, outcome>>
  PROVE  Moves /\ Same /\ Stands(load.phase, load.i, load.k + 1)
<1>1. /\ load \in Loads(load.file, DOMAIN load.base) /\ load.i + 1 \in Nat /\ load.k + 1 \in Nat
      /\ (IF Section(load.i).type = "SYMTAB" THEN load.i ELSE load.symtab) \in Nat
  BY LoadFields DEF Core, Typed
<1>2. /\ load' \in Loads(load.file, DOMAIN load.base)
      /\ load'.file = load.file /\ load'.base = load.base
      /\ Same /\ Stands(load.phase, load.i, load.k + 1)
  BY <1>1 DEF Loads, Same, Stands, NextSection
<1> QED
  BY <1>2 DEF Moves

Seen(sym, old, n) == IF sym.name = n THEN load.i ELSE old

LEMMA SymbolPasses ==
  ASSUME Core, load # null, load.phase = "symbols", load.i < Len(Elf.symbols),
         NEW sym, sym = Elf.symbols[load.i + 1], SymbolGood(sym),
         load' = [load EXCEPT !.i = @ + 1, !.values[load.i + 1] = AddressOf(sym),
                              !.name = Seen(sym, @, "loom_mod_name"), !.init = Seen(sym, @, "loomModInit"),
                              !.deinit = Seen(sym, @, "loomModDeinit")],
         UNCHANGED <<archive, at, held, modules, outcome>>
  PROVE  /\ Moves /\ Stands("symbols", load.i + 1, load.k)
         /\ load'.values = [load.values EXCEPT ![load.i + 1] = Address(load.base, sym)]
         /\ load'.name = Seen(sym, load.name, "loom_mod_name")
         /\ load'.init = Seen(sym, load.init, "loomModInit")
         /\ load'.deinit = Seen(sym, load.deinit, "loomModDeinit")
         /\ load.i + 1 \in DOMAIN Elf.symbols
<1>1. load \in Loads(load.file, DOMAIN load.base) /\ load.i \in Nat
  BY LoadFields DEF Core, Typed
<1>2. load.file \in DOMAIN Files
  BY LoadFile DEF Core
<1>3. load.i + 1 \in DOMAIN Elf.symbols /\ sym.value \in Nat
  <2>1. Len(Elf.symbols) \in Nat /\ DOMAIN Elf.symbols = 1..Len(Elf.symbols)
    BY <1>2, SymbolsAre DEF Elf
  <2>2. load.i + 1 \in DOMAIN Elf.symbols
    BY <2>1, <1>1
  <2> QED
    BY <1>2, <2>2, SymbolsAre DEF Elf
<1>4. AddressOf(sym) = Address(load.base, sym) /\ AddressOf(sym) \in Nat
  <2>1. AddressOf(sym) = Address(load.base, sym)
    BY <1>3, AddressIs
  <2>2. Address(load.base, sym) \in Nat
    BY <1>2, <1>3, AddressNat, LoadFields DEF Core, Elf
  <2> QED
    BY <2>1, <2>2
<1> DEFINE v == [load.values EXCEPT ![load.i + 1] = AddressOf(sym)]
           x == Seen(sym, load.name, "loom_mod_name")
           y == Seen(sym, load.init, "loomModInit")
           z == Seen(sym, load.deinit, "loomModDeinit")
<1>5. v \in Seq(Nat)
  BY <1>4, LoadFields, ExceptNat DEF Core
<1>6. x \in Nat \cup {null} /\ y \in Nat \cup {null} /\ z \in Nat \cup {null}
  BY <1>1, LoadFields DEF Core, Seen
<1>7. load' = [load EXCEPT !.i = load.i + 1, !.values = v, !.name = x, !.init = y, !.deinit = z]
  BY <1>1 DEF Loads
<1> HIDE DEF v, x, y, z
<1>8. /\ load'.values = v /\ load'.name = x /\ load'.init = y /\ load'.deinit = z
      /\ Moves /\ Stands("symbols", load.i + 1, load.k)
  <2>1. load.i + 1 \in Nat
    BY <1>1
  <2>2. /\ load' \in Loads(load.file, DOMAIN load.base)
        /\ load'.file = load.file /\ load'.base = load.base
        /\ load'.values = v /\ load'.name = x /\ load'.init = y /\ load'.deinit = z
        /\ load'.phase = load.phase /\ load'.i = load.i + 1 /\ load'.k = load.k
    <3>1. /\ load'.file = load.file /\ load'.base = load.base
          /\ load'.values = v /\ load'.name = x /\ load'.init = y /\ load'.deinit = z
          /\ load'.phase = load.phase /\ load'.i = load.i + 1 /\ load'.k = load.k
      BY <1>1, <1>7 DEF Loads
    <3>2. load' \in Loads(load.file, DOMAIN load.base)
      BY <1>1, <1>5, <1>6, <1>7, <2>1, ZenonT(30) DEF Loads
    <3> QED
      BY <3>1, <3>2
  <2> QED
    BY <2>2 DEF Moves, Stands
<1> QED
  BY <1>3, <1>4, <1>8 DEF v, x, y, z
----------------------------------------------------------------------------
(* What is in the cells of a module stays there.                           *)
Untouched(m) == \A c \in Cells(m.file, m.base) : mem'[c] = mem[c]

LEMMA RemoveCells ==
  ASSUME NEW cells, NEW f, NEW base, mem' = Without(cells), Cells(f, base) \cap cells = {},
         Cells(f, base) \subseteq DOMAIN mem
  PROVE  /\ Cells(f, base) \subseteq DOMAIN mem'
         /\ \A c \in Cells(f, base) : mem'[c] = mem[c]
BY DEF Without

LEMMA PlacedStays ==
  ASSUME NEW f, NEW base, NEW c, NEW d, Placed(f, base, c), Cells(f, base) \subseteq DOMAIN d
  PROVE  Placed(f, base, d)
BY DEF Placed

LEMMA PlacedCells ==
  ASSUME NEW f, NEW base, NEW c, Placed(f, base, c)
  PROVE  Cells(f, base) \subseteq DOMAIN c
BY DEF Placed

LEMMA PlacedMoves ==
  ASSUME Core, PlacedInv, Moves, DOMAIN mem' = DOMAIN mem
  PROVE  PlacedInv'
<1>1. On' = On
  BY DEF On, Image, Moves
<1>2. load # null /\ load'.file = load.file /\ load'.base = load.base
  BY DEF Moves
<1>3. \A m \in On' : Placed(m.file, m.base, mem')
  BY <1>1, PlacedStays, PlacedCells DEF PlacedInv
<1>4. Placed(load'.file, load'.base, mem')
  BY <1>2, PlacedStays, PlacedCells DEF PlacedInv
<1>5. \A m, n \in On' : m # n => Cells(m.file, m.base) \cap Cells(n.file, n.base) = {}
  BY <1>1 DEF PlacedInv
<1>6. \A m \in On' : Cells(m.file, m.base) \cap Cells(load'.file, load'.base) = {}
  BY <1>1, <1>2 DEF PlacedInv
<1> QED
  BY <1>3, <1>4, <1>5, <1>6 DEF PlacedInv

LEMMA PlacedError ==
  ASSUME Core, PlacedInv, load # null, NEW lost, ErrorBut(lost), UNCHANGED <<archive, modules, outcome>>
  PROVE  PlacedInv' /\ \A m \in On : Untouched(m)
<1>1. On' = On
  BY DEF On, Image
<1>2. load' = null /\ mem' = Without(Cells(load.file, load.base))
  BY DEF ErrorBut
<1>3. ASSUME NEW m \in On PROVE Placed(m.file, m.base, mem') /\ Untouched(m)
  <2>1. Placed(m.file, m.base, mem) /\ Cells(m.file, m.base) \subseteq DOMAIN mem
    BY PlacedCells DEF PlacedInv
  <2>2. Cells(m.file, m.base) \cap Cells(load.file, load.base) = {}
    BY DEF PlacedInv
  <2>3. /\ Cells(m.file, m.base) \subseteq DOMAIN mem'
        /\ \A c \in Cells(m.file, m.base) : mem'[c] = mem[c]
    BY <2>1, <2>2, <1>2, RemoveCells
  <2> QED
    BY <2>1, <2>3, PlacedStays DEF Untouched
<1>4. \A m, n \in On' : m # n => Cells(m.file, m.base) \cap Cells(n.file, n.base) = {}
  BY <1>1 DEF PlacedInv
<1> QED
  BY <1>1, <1>2, <1>3, <1>4 DEF PlacedInv

LEMMA PlacedBegins ==
  ASSUME Core, PlacedInv, load'.base = <<>>, UNCHANGED <<mem, modules>>
  PROVE  PlacedInv'
<1>1. On' = On
  BY DEF On, Image
<1>2. Cells(load'.file, load'.base) = {}
  BY DEF Cells
<1>3. Placed(load'.file, load'.base, mem')
  BY <1>2 DEF Placed
<1>4. /\ \A m \in On' : Placed(m.file, m.base, mem')
      /\ \A m, n \in On' : m # n => Cells(m.file, m.base) \cap Cells(n.file, n.base) = {}
  BY <1>1 DEF PlacedInv
<1> QED
  BY <1>2, <1>3, <1>4 DEF PlacedInv

(* Nothing moves.                                                          *)
LEMMA PlacedSkips ==
  ASSUME PlacedInv, UNCHANGED <<load, mem, modules>>
  PROVE  PlacedInv'
BY DEF PlacedInv, On, Image

LEMMA PlacedRmmod ==
  ASSUME Core, PlacedInv, NEW k \in DOMAIN modules, Rmmod(k)
  PROVE  PlacedInv' /\ \A m \in On' : Untouched(m)
<1> DEFINE m == modules[k]
           gone == {i \in DOMAIN m.base : <<m.file, "p", i>> \in held}
<1>1. load = null /\ load' = null /\ mem' = Without(Cells(m.file, [i \in gone |-> m.base[i]]))
  BY DEF Rmmod, Started
<1>2. On' = On \ {m} /\ m \in On
  BY CoreRmmod
<1>3. gone = DOMAIN m.base
  <2>1. Used(On) \subseteq held
    BY DEF Core, HeldInv, InUse
  <2>2. ASSUME NEW i \in DOMAIN m.base PROVE <<m.file, "p", i>> \in Used(On)
    <3>1. <<m.file, "p", i>> \in HeldBy(m)
      BY DEF HeldBy
    <3> QED
      BY <3>1, <1>2 DEF Used
  <2> QED
    BY <2>1, <2>2
<1> HIDE DEF m
<1>4. Cells(m.file, [i \in gone |-> m.base[i]]) = Cells(m.file, m.base)
  BY <1>3 DEF Cells
<1>5. ASSUME NEW n \in On' PROVE Placed(n.file, n.base, mem') /\ Untouched(n)
  <2>1. Placed(n.file, n.base, mem) /\ Cells(n.file, n.base) \subseteq DOMAIN mem
    BY <1>2, PlacedCells DEF PlacedInv
  <2>2. Cells(n.file, n.base) \cap Cells(m.file, m.base) = {}
    BY <1>2 DEF PlacedInv
  <2>3. /\ Cells(n.file, n.base) \subseteq DOMAIN mem'
        /\ \A c \in Cells(n.file, n.base) : mem'[c] = mem[c]
    BY <2>1, <2>2, <1>1, <1>4, RemoveCells
  <2> QED
    BY <2>1, <2>3, PlacedStays DEF Untouched
<1>6. \A x, y \in On' : x # y => Cells(x.file, x.base) \cap Cells(y.file, y.base) = {}
  BY <1>2 DEF PlacedInv
<1> QED
  BY <1>1, <1>5, <1>6 DEF PlacedInv

LEMMA PlacedLoaded ==
  ASSUME Core, PlacedInv, load # null, load' = null, UNCHANGED mem,
         NEW m, On' = On \cup {m}, m.file = load.file, m.base = load.base
  PROVE  PlacedInv'
<1>1. \A n \in On' : Placed(n.file, n.base, mem')
  BY DEF PlacedInv
<1>2. \A x, y \in On' : x # y => Cells(x.file, x.base) \cap Cells(y.file, y.base) = {}
  <2> SUFFICES ASSUME NEW x \in On', NEW y \in On', x # y
               PROVE  Cells(x.file, x.base) \cap Cells(y.file, y.base) = {}
    OBVIOUS
  <2>1. CASE x = m
    BY <2>1 DEF PlacedInv
  <2>2. CASE y = m
    BY <2>2 DEF PlacedInv
  <2>3. CASE x # m /\ y # m
    BY <2>3 DEF PlacedInv
  <2> QED
    BY <2>1, <2>2, <2>3
<1> QED
  BY <1>1, <1>2 DEF PlacedInv

(* A section is placed where nothing is.                                   *)
Extends(b, base, i, a) ==
  /\ i \notin DOMAIN base /\ DOMAIN b = DOMAIN base \cup {i} /\ b[i] = a
  /\ \A j \in DOMAIN base : b[j] = base[j]

Room(f, i, a) == a..(a + Files[f].sections[i].size - 1)

LEMMA CellsWith ==
  ASSUME NEW f, NEW base, NEW i, NEW a, NEW b, Extends(b, base, i, a)
  PROVE  Cells(f, b) = Cells(f, base) \cup Room(f, i, a)
<1>1. DOMAIN b = DOMAIN base \cup {i} /\ b[i] = a /\ \A j \in DOMAIN base : b[j] = base[j]
  BY DEF Extends
<1>2. ASSUME NEW c \in Cells(f, b) PROVE c \in Cells(f, base) \cup Room(f, i, a)
  <2>1. PICK j \in DOMAIN b : c \in b[j]..(b[j] + Files[f].sections[j].size - 1)
    BY DEF Cells
  <2> QED
    BY <2>1, <1>1 DEF Cells, Room
<1>3. ASSUME NEW c \in Cells(f, base) PROVE c \in Cells(f, b)
  <2>1. PICK j \in DOMAIN base : c \in base[j]..(base[j] + Files[f].sections[j].size - 1)
    BY DEF Cells
  <2> QED
    BY <2>1, <1>1 DEF Cells
<1>4. ASSUME NEW c \in Room(f, i, a) PROVE c \in Cells(f, b)
  BY <1>1 DEF Cells, Room
<1> QED
  BY <1>2, <1>3, <1>4

LEMMA PlacedPlaces ==
  ASSUME Core, PlacedInv, load # null, NEW i \in Kept(load.file), i \notin DOMAIN load.base,
         NEW a \in Places(Section(i)),
         load'.file = load.file,
         load'.base = [j \in DOMAIN load.base \cup {i} |-> IF j = i THEN a ELSE load.base[j]],
         mem' = [x \in DOMAIN mem \cup a..(a + Section(i).size - 1) |->
                   IF x \in DOMAIN mem THEN mem[x]
                   ELSE IF Section(i).type = "NOBITS" THEN 0 ELSE Section(i).cells[x - a + 1]],
         UNCHANGED modules
  PROVE  PlacedInv' /\ \A m \in On : Untouched(m)
<1> DEFINE f == load.file  base == load.base  b == load'.base  new == a..(a + Section(i).size - 1)
<1>1. a \in Memory /\ new \cap DOMAIN mem = {}
  BY DEF Places
<1>2. On' = On
  BY DEF On, Image
<1>3. DOMAIN mem' = DOMAIN mem \cup new /\ \A x \in DOMAIN mem : mem'[x] = mem[x]
  OBVIOUS
<1>4. Placed(f, base, mem)
  BY DEF PlacedInv
<1>5. Section(i) = Files[f].sections[i]
  BY DEF Section, Elf
<1>6. Cells(f, b) = Cells(f, base) \cup new
  <2>1. Extends(b, base, i, a)
    BY DEF Extends
  <2> HIDE DEF f, base, b, new
  <2>2. Cells(f, b) = Cells(f, base) \cup Room(f, i, a)
    BY <2>1, CellsWith
  <2> QED
    BY <2>2, <1>5 DEF new, Room
<1>7. DOMAIN b = DOMAIN base \cup {i} /\ b[i] = a /\ \A j \in DOMAIN base : b[j] = base[j]
  OBVIOUS
<1> HIDE DEF f, base, b, new
<1>8. ASSUME NEW j \in DOMAIN base PROVE Span(f, base, j) \subseteq DOMAIN mem
  <2>1. Span(f, base, j) \subseteq Cells(f, base)
    BY DEF Span, Cells
  <2> QED
    BY <2>1, <1>4 DEF Placed
<1>9. Span(f, b, i) = new /\ \A j \in DOMAIN base : Span(f, b, j) = Span(f, base, j)
  BY <1>5, <1>7 DEF Span, new
<1>10. Placed(f, b, mem')
  <2>1. b \in [DOMAIN b -> Memory] /\ DOMAIN b \subseteq Kept(f)
    <3>1. base \in [DOMAIN base -> Memory] /\ DOMAIN base \subseteq Kept(f)
      BY <1>4 DEF Placed
    <3>2. b = [j \in DOMAIN b |-> b[j]]
      BY DEF b
    <3> QED
      BY <3>1, <3>2, <1>1, <1>7 DEF f
  <2>2. Cells(f, b) \subseteq DOMAIN mem'
    BY <1>3, <1>4, <1>6 DEF Placed
  <2>3. ASSUME NEW x \in DOMAIN b, NEW y \in DOMAIN b, x # y
        PROVE  Span(f, b, x) \cap Span(f, b, y) = {}
    <3>1. CASE x = i
      BY <3>1, <2>3, <1>1, <1>7, <1>8, <1>9
    <3>2. CASE y = i
      BY <3>2, <2>3, <1>1, <1>7, <1>8, <1>9
    <3>3. CASE x # i /\ y # i
      BY <3>3, <2>3, <1>4, <1>7, <1>9 DEF Placed
    <3> QED
      BY <3>1, <3>2, <3>3
  <2> QED
    BY <2>1, <2>2, <2>3 DEF Placed
<1>11. ASSUME NEW m \in On
       PROVE  Placed(m.file, m.base, mem') /\ Untouched(m) /\ Cells(m.file, m.base) \cap Cells(f, b) = {}
  <2>1. Placed(m.file, m.base, mem) /\ Cells(m.file, m.base) \subseteq DOMAIN mem
    BY PlacedCells DEF PlacedInv
  <2>2. Cells(m.file, m.base) \cap Cells(f, base) = {}
    BY DEF PlacedInv, f, base
  <2>3. Placed(m.file, m.base, mem')
    BY <2>1, <1>3, PlacedStays
  <2> QED
    BY <2>1, <2>2, <2>3, <1>1, <1>3, <1>6 DEF Untouched
<1>12. \A m, n \in On' : m # n => Cells(m.file, m.base) \cap Cells(n.file, n.base) = {}
  BY <1>2 DEF PlacedInv
<1>13. load'.file = f /\ load'.base = b
  BY DEF f, b
<1> QED
  BY <1>2, <1>10, <1>11, <1>12, <1>13 DEF PlacedInv
----------------------------------------------------------------------------
(* A module stays linked as long as its cells are not written.             *)
LEMMA LinkStays ==
  ASSUME NEW m, Bound(m), Link(m, mem), Untouched(m)
  PROVE  Link(m, mem')
<1>1. ASSUME NEW i \in DOMAIN Files[m.file].rels, NEW k \in DOMAIN Files[m.file].rels[i],
             Files[m.file].rels[i][k].type # "NONE"
      PROVE  mem'[Place(m.file, m.base, i, Files[m.file].rels[i][k])]
             = mem[Place(m.file, m.base, i, Files[m.file].rels[i][k])]
  <2>1. <<i, k>> \in Effective(Files[m.file])
    BY <1>1 DEF Effective
  <2> QED
    BY <2>1 DEF Bound, Untouched
<1>2. {mem'[a] : a \in Named(m.file, m.base, "loom_mod_name")}
      = {mem[a] : a \in Named(m.file, m.base, "loom_mod_name")}
  BY DEF Bound, Untouched
<1> QED
  BY <1>1, <1>2 DEF Link

LEMMA LinksStay ==
  ASSUME LinkInv, On' \subseteq On, \A m \in On' : Untouched(m)
  PROVE  LinkInv'
BY LinkStays DEF LinkInv
----------------------------------------------------------------------------
(* Numbers that differ by a multiple of w have the same rest.              *)
LEMMA DivMod ==
  ASSUME NEW x \in Int, NEW w \in Nat \ {0}
  PROVE  x % w \in 0..(w - 1) /\ x = w * (x \div w) + (x % w) /\ x \div w \in Int
OBVIOUS

LEMMA OneRest ==
  ASSUME NEW q \in Int, NEW r \in Int, NEW p \in Int, NEW s \in Int, NEW w \in Nat \ {0},
         r \in 0..(w - 1), s \in 0..(w - 1), w * q + r = w * p + s
  PROVE  r = s
<1>1. CASE q = p
  BY <1>1
<1>2. CASE q > p
  <2>1. q - p >= 1
    BY <1>2
  <2>2. w * (q - p) >= w
    BY <2>1
  <2> QED
    BY <2>2
<1>3. CASE q < p
  <2>1. p - q >= 1
    BY <1>3
  <2>2. w * (p - q) >= w
    BY <2>1
  <2> QED
    BY <2>2
<1> QED
  BY <1>1, <1>2, <1>3

LEMMA ModShift ==
  ASSUME NEW x \in Int, NEW k \in Int, NEW w \in Nat \ {0}
  PROVE  (x + w * k) % w = x % w
<1> DEFINE y == x + w * k
<1>1. y \in Int
  OBVIOUS
<1>2. y % w \in 0..(w - 1) /\ y = w * (y \div w) + (y % w) /\ y \div w \in Int
  <2> HIDE DEF y
  <2> QED
    BY <1>1, DivMod
<1>3. x % w \in 0..(w - 1) /\ x = w * (x \div w) + (x % w) /\ x \div w \in Int
  BY DivMod
<1>4. w * (y \div w) + (y % w) = w * ((x \div w) + k) + (x % w)
  <2>1. y = w * ((x \div w) + k) + (x % w)
    BY <1>3
  <2> HIDE DEF y
  <2> QED
    BY <1>2, <2>1
<1> HIDE DEF y
<1>5. y % w \in Int /\ x % w \in Int /\ (x \div w) + k \in Int
  BY <1>2, <1>3
<1>6. y % w = x % w
  BY <1>2, <1>3, <1>4, <1>5, OneRest
<1> QED
  BY <1>6 DEF y

(* Read as signed, a number moves by a multiple of the width.              *)
LEMMA SignedIs ==
  ASSUME NEW x \in Int, NEW w \in Nat \ {0}
  PROVE  \E q \in Int : Signed(x, w) = x + w * q
<1>1. x % w \in 0..(w - 1) /\ x = w * (x \div w) + (x % w) /\ x \div w \in Int
  BY DivMod
<1> DEFINE d == x \div w
<1>2. CASE x % w >= w \div 2
  <2>1. Signed(x, w) = (x % w) - w
    BY <1>2 DEF Signed
  <2>2. x = w * d + (x % w) /\ d \in Int /\ x % w \in Int
    BY <1>1
  <2> HIDE DEF d
  <2> DEFINE q == (0 - d) - 1
  <2>3. q \in Int /\ (x % w) - w = x + w * q
    BY <2>2
  <2> HIDE DEF q
  <2> QED
    BY <2>1, <2>3
<1>3. CASE ~ (x % w >= w \div 2)
  <2>1. Signed(x, w) = x % w
    BY <1>3 DEF Signed
  <2>2. x = w * d + (x % w) /\ d \in Int /\ x % w \in Int
    BY <1>1
  <2> HIDE DEF d
  <2> DEFINE q == 0 - d
  <2>3. q \in Int /\ x % w = x + w * q
    BY <2>2
  <2> HIDE DEF q
  <2> QED
    BY <2>1, <2>3
<1> QED
  BY <1>2, <1>3

LEMMA SignedShort ==
  ASSUME NEW x \in Int
  PROVE  \E q \in Int : Signed(x, Word) = x + Short * q
<1>1. Word \in Nat \ {0} /\ Short \in Nat \ {0} /\ Word % Short = 0
  BY WordAssumption
<1>2. PICK c \in Int : Word = Short * c
  <2> DEFINE d == Word \div Short
  <2>1. Word = Short * d + (Word % Short) /\ d \in Int
    BY <1>1, DivMod
  <2> HIDE DEF d
  <2>2. Word = Short * d
    BY <2>1, <1>1
  <2> QED
    BY <2>1, <2>2
<1>3. PICK p \in Int : Signed(x, Word) = x + Word * p
  BY <1>1, SignedIs
<1>4. c * p \in Int /\ Word * p = Short * (c * p)
  BY <1>1, <1>2
<1> QED
  BY <1>3, <1>4

(* What is written is the address plus the addend, less the place, however *)
(* the operands are read.                                                  *)
LEMMA FixupIs ==
  ASSUME NEW type \in {"16", "PC16", "32", "PC32"}, NEW S \in Int, NEW A \in Int, NEW P \in Int
  PROVE  Fixup(type, S, A, P) % Width(type)
         = (S + A - (IF type \in {"PC16", "PC32"} THEN P ELSE 0)) % Width(type)
<1> DEFINE p == IF type \in {"PC16", "PC32"} THEN P ELSE 0
<1>1. Word \in Nat \ {0} /\ Short \in Nat \ {0} /\ Width(type) \in {Word, Short} /\ p \in Int
  BY WordAssumption DEF Width
<1>2. PICK q \in Int : Fixup(type, S, A, P) = (S + (A - p)) + Width(type) * q
  <2>1. CASE Width(type) = Short
    <3>1. PICK a \in Int : Signed(S, Word) = S + Short * a
      BY SignedShort
    <3>2. PICK b \in Int : Signed(A, Short) = A + Short * b
      BY <1>1, SignedIs
    <3>3. PICK c \in Int : Signed(P, Word) = P + Short * c
      BY SignedShort
    <3>4. CASE type \in {"PC16", "PC32"}
      <4>1. Fixup(type, S, A, P) = (S + Short * a) + ((A + Short * b) - (P + Short * c))
        BY <2>1, <3>1, <3>2, <3>3, <3>4 DEF Fixup
      <4>2. (S + Short * a) + ((A + Short * b) - (P + Short * c)) = (S + (A - P)) + Short * (a + (b - c))
        BY <1>1
      <4> QED
        BY <4>1, <4>2, <2>1, <3>4
    <3>5. CASE type \notin {"PC16", "PC32"}
      <4>1. Fixup(type, S, A, P) = (S + Short * a) + ((A + Short * b) - 0)
        BY <2>1, <3>1, <3>2, <3>3, <3>5 DEF Fixup
      <4>2. (S + Short * a) + ((A + Short * b) - 0) = (S + (A - 0)) + Short * (a + b)
        BY <1>1
      <4> QED
        BY <4>1, <4>2, <2>1, <3>5
    <3> QED
      BY <3>4, <3>5
  <2>2. CASE Width(type) = Word /\ Word # Short
    <3>1. PICK b \in Int : Signed(A, Word) = A + Word * b
      BY <1>1, SignedIs
    <3>2. Fixup(type, S, A, P) = S + ((A + Word * b) - p)
      BY <2>2, <3>1 DEF Fixup
    <3>3. S + ((A + Word * b) - p) = (S + (A - p)) + Word * b
      <4> HIDE DEF p
      <4> QED
        BY <1>1
    <3> QED
      BY <3>2, <3>3, <2>2
  <2> QED
    BY <2>1, <2>2, <1>1
<1>3. ((S + (A - p)) + Width(type) * q) % Width(type) = (S + (A - p)) % Width(type)
  <2>1. S + (A - p) \in Int /\ Width(type) \in Nat \ {0}
    BY <1>1
  <2> QED
    BY <2>1, ModShift
<1> QED
  BY <1>2, <1>3
----------------------------------------------------------------------------
LEMMA SectionsAre ==
  ASSUME NEW f \in DOMAIN Files
  PROVE  LET n == Cardinality(DOMAIN Files[f].sections)
         IN /\ n \in Nat /\ DOMAIN Files[f].sections = 0..(n - 1)
            /\ \A i \in Kept(f) : /\ i # 0 /\ Files[f].sections[i].size \in Nat
                                  /\ Files[f].sections[i].cells \in [1..Files[f].sections[i].size -> 0..(Word - 1)]
                                  /\ Files[f].sections[i].type = "NOBITS" =>
                                       \A o \in 1..Files[f].sections[i].size : Files[f].sections[i].cells[o] = 0
BY FileIs DEF WellFormed, Kept

LEMMA NamelessAre ==
  ASSUME NEW f \in DOMAIN Files
  PROVE  \A j \in Nameless(f) : j \in Nat
BY SectionsAre DEF Nameless, Kept

LEMMA EffectiveIs ==
  ASSUME NEW f \in DOMAIN Files, NEW x \in Effective(Files[f])
  PROVE  /\ x = <<x[1], x[2]>> /\ x[1] \in DOMAIN Files[f].rels /\ x[2] \in DOMAIN Files[f].rels[x[1]]
         /\ x[1] \in Nat /\ x[1] < Cardinality(DOMAIN Files[f].sections)
         /\ Files[f].sections[x[1]].type = "REL"
         /\ x[2] \in Nat \ {0} /\ x[2] <= Len(Files[f].rels[x[1]])
         /\ Files[f].rels[x[1]][x[2]].type # "NONE"
<1>1. PICK a \in DOMAIN Files[f].rels : x \in {a} \X DOMAIN Files[f].rels[a]
  BY DEF Effective
<1>2. /\ x = <<x[1], x[2]>> /\ x[1] \in DOMAIN Files[f].rels /\ x[2] \in DOMAIN Files[f].rels[x[1]]
      /\ Files[f].rels[x[1]][x[2]].type # "NONE"
  BY <1>1 DEF Effective
<1>3. x[1] \in DOMAIN Files[f].sections /\ Files[f].sections[x[1]].type = "REL"
  <2>1. DOMAIN Files[f].rels = {i \in DOMAIN Files[f].sections : Files[f].sections[i].type = "REL"}
    BY FileIs DEF WellFormed
  <2> QED
    BY <1>2, <2>1
<1>4. x[1] \in Nat /\ x[1] < Cardinality(DOMAIN Files[f].sections)
  BY <1>3, SectionsAre
<1>5. x[2] \in Nat \ {0} /\ x[2] <= Len(Files[f].rels[x[1]])
  <2>1. /\ Len(Files[f].rels[x[1]]) \in Nat
        /\ DOMAIN Files[f].rels[x[1]] = 1..Len(Files[f].rels[x[1]])
    BY <1>2, RelsAre
  <2> QED
    BY <2>1, <1>2
<1> QED
  BY <1>2, <1>3, <1>4, <1>5

LEMMA CellsSame ==
  ASSUME CellsInv(load, mem), load'.file = load.file, load'.base = load.base,
         Applied(load') = Applied(load), mem' = mem
  PROVE  CellsInv(load', mem')
BY DEF CellsInv

LEMMA SymbolsSame ==
  ASSUME SymbolsInv(load), load'.file = load.file, load'.base = load.base, Same,
         Resolved(load') = Resolved(load)
  PROVE  SymbolsInv(load')
BY DEF SymbolsInv, Same

(* The first symbol, the empty one, is its own address.                    *)
LEMMA FirstSymbol ==
  ASSUME NEW f \in DOMAIN Files, NEW base, DOMAIN base \subseteq Kept(f),
         1 \in DOMAIN Files[f].symbols
  PROVE  /\ Address(base, Files[f].symbols[1]) = Files[f].symbols[1].value
         /\ Files[f].symbols[1].name = ""
<1> DEFINE sym == Files[f].symbols[1]
<1>1. sym.name = "" /\ sym.shidx = UNDEF /\ "" \notin DOMAIN Exports
  <2>1. Files[f].symbols # <<>>
    OBVIOUS
  <2> QED
    BY <2>1, FileIs DEF WellFormed
<1>2. sym.value \in Nat
  BY SymbolsAre
<1>3. UNDEF \notin DOMAIN base
  BY SectionsAre DEF UNDEF
<1> HIDE DEF sym
<1>4. Address(base, sym) = sym.value
  <2>1. sym.name \notin DOMAIN Exports /\ sym.shidx \notin DOMAIN base
    BY <1>1, <1>3
  <2>2. Address(base, sym) = 0 + sym.value
    BY <2>1 DEF Address
  <2> QED
    BY <2>2, <1>2
<1> QED
  BY <1>1, <1>4 DEF sym

LEMMA LoadBegins ==
  ASSUME NEW f \in DOMAIN Files,
         load' = [file |-> f, phase |-> "sections", i |-> 0, k |-> 0, base |-> <<>>,
                  symtab |-> UNDEF, name |-> null, init |-> null, deinit |-> null,
                  values |-> [j \in DOMAIN Files[f].symbols |-> Files[f].symbols[j].value]]
  PROVE  LoadInv'
<1> DEFINE syms == Files[f].symbols
<1>1. /\ load'.file = f /\ load'.phase = "sections" /\ load'.i = 0 /\ load'.base = <<>>
      /\ load'.name = null /\ load'.init = null /\ load'.deinit = null
      /\ DOMAIN load'.values = DOMAIN syms /\ \A j \in DOMAIN syms : load'.values[j] = syms[j].value
  OBVIOUS
<1>2. \A j \in DOMAIN syms : j <= 1 =>
        j = 1 /\ syms[j].name = "" /\ Address(load'.base, syms[j]) = syms[j].value
  <2> SUFFICES ASSUME NEW j \in DOMAIN syms, j <= 1
               PROVE  j = 1 /\ syms[j].name = "" /\ Address(load'.base, syms[j]) = syms[j].value
    OBVIOUS
  <2>1. j = 1
    BY SymbolsAre
  <2>2. DOMAIN load'.base \subseteq Kept(f)
    BY <1>1
  <2> QED
    BY <2>1, <2>2, FirstSymbol
<1> HIDE DEF syms
<1>3. Resolved(load') = 1
  BY <1>1 DEF Resolved
<1>4. SymbolsInv(load')
  BY <1>1, <1>2, <1>3 DEF SymbolsInv, Found, syms
<1>5. CellsInv(load', mem')
  BY <1>1 DEF CellsInv, Applied
<1>6. PhaseInv(load')
  BY <1>1, NamelessAre DEF PhaseInv
<1> QED
  BY <1>4, <1>5, <1>6 DEF LoadInv

LEMMA LoadSkips ==
  ASSUME Core, PlacedInv, LoadInv, load # null, load.phase = "sections", mem' = mem,
         load.i \notin Nameless(load.file),
         Moves, Same, Stands("sections", load.i + 1, load.k)
  PROVE  LoadInv'
<1>1. load'.file = load.file /\ load'.base = load.base /\ load'.phase = "sections" /\ load'.i = load.i + 1
  BY DEF Moves, Stands
<1>2. CellsInv(load', mem')
  <2>1. Applied(load') = Applied(load)
    BY <1>1 DEF Applied
  <2> QED
    BY <1>1, <2>1, CellsSame DEF LoadInv
<1>3. SymbolsInv(load')
  <2>1. Resolved(load') = Resolved(load)
    BY <1>1 DEF Resolved
  <2> QED
    BY <1>1, <2>1, SymbolsSame DEF LoadInv
<1>4. PhaseInv(load')
  <2>1. load.i \in Nat /\ load'.name = null /\ DOMAIN load.base \subseteq 0..(load.i - 1)
    BY LoadFields DEF Core, LoadInv, PhaseInv, Same
  <2>2. DOMAIN load'.base \subseteq 0..(load'.i - 1)
    BY <2>1, <1>1
  <2>3. \A j \in Nameless(load.file) : load.i <= j
    BY DEF LoadInv, PhaseInv
  <2>4. \A j \in Nameless(load.file) : load.i + 1 <= j
    <3>1. load.file \in DOMAIN Files
      BY LoadFile DEF Core
    <3> QED
      BY <2>1, <2>3, <3>1, NamelessAre
  <2> QED
    BY <1>1, <2>1, <2>2, <2>4 DEF PhaseInv
<1> QED
  BY <1>2, <1>3, <1>4 DEF LoadInv

LEMMA LoadSectionsEnd ==
  ASSUME Core, LoadInv, load # null, load.phase = "sections", mem' = mem,
         Moves, Same, Stands("symbols", 1, load.k)
  PROVE  LoadInv'
<1>1. load'.file = load.file /\ load'.base = load.base /\ load'.phase = "symbols" /\ load'.i = 1
  BY DEF Moves, Stands
<1>2. CellsInv(load', mem')
  <2>1. Applied(load') = Applied(load)
    BY <1>1 DEF Applied
  <2> QED
    BY <1>1, <2>1, CellsSame DEF LoadInv
<1>3. SymbolsInv(load')
  <2>1. Resolved(load') = Resolved(load)
    BY <1>1 DEF Resolved
  <2> QED
    BY <1>1, <2>1, SymbolsSame DEF LoadInv
<1>4. PhaseInv(load')
  BY <1>1 DEF PhaseInv
<1> QED
  BY <1>2, <1>3, <1>4 DEF LoadInv

LEMMA LoadRelMoves ==
  ASSUME Core, LoadInv, load # null, load.phase = "rels", mem' = mem,
         Moves, Same, load'.phase = "rels", load'.k # 0, Applied(load') = Applied(load)
  PROVE  LoadInv'
<1>1. load'.file = load.file /\ load'.base = load.base
  BY DEF Moves
<1>2. CellsInv(load', mem')
  BY <1>1, CellsSame DEF LoadInv
<1>3. SymbolsInv(load')
  <2>1. Resolved(load') = Resolved(load)
    BY <1>1 DEF Resolved
  <2> QED
    BY <1>1, <2>1, SymbolsSame DEF LoadInv
<1>4. PhaseInv(load')
  BY <1>1 DEF PhaseInv, Same, LoadInv
<1> QED
  BY <1>2, <1>3, <1>4 DEF LoadInv

LEMMA AppliedFile ==
  ASSUME NEW l, NEW x \in Applied(l)
  PROVE  x \in Effective(Files[l.file])
BY DEF Applied

LEMMA LoadRelSectionEnds ==
  ASSUME Core, LoadInv, load # null, load.phase = "rels", mem' = mem,
         Moves, Same, Stands("rels", load.i + 1, 1),
         Section(load.i).type # "REL" \/ load.k > Len(Elf.rels[load.i])
  PROVE  LoadInv'
<1>1. load'.file = load.file /\ load'.phase = "rels" /\ load'.i = load.i + 1 /\ load'.k = 1
  BY DEF Moves, Stands
<1>2. load.i \in Nat /\ load.k \in Nat /\ load.file \in DOMAIN Files
  BY LoadFields, LoadFile DEF Core
<1>3. ASSUME NEW x \in Effective(Files[load.file])
      PROVE  (x[1] < load.i + 1 \/ (x[1] = load.i + 1 /\ x[2] < 1))
             <=> (x[1] < load.i \/ (x[1] = load.i /\ x[2] < load.k))
  <2>1. x[1] \in Nat /\ x[2] \in Nat \ {0}
    BY <1>2, EffectiveIs
  <2>2. x[1] = load.i => x[2] < load.k
    <3> SUFFICES ASSUME x[1] = load.i PROVE x[2] < load.k
      OBVIOUS
    <3>1. Section(load.i).type = "REL" /\ x[2] <= Len(Elf.rels[load.i])
      BY <1>2, EffectiveIs DEF Section, Elf
    <3>2. Len(Elf.rels[load.i]) \in Nat
      BY <1>2, EffectiveIs, RelsAre DEF Elf
    <3> QED
      BY <3>1, <3>2, <2>1, <1>2
  <2> QED
    BY <2>1, <2>2, <1>2
<1>4. Applied(load') = Applied(load)
  BY <1>1, <1>3 DEF Applied
<1> QED
  BY <1>1, <1>4, LoadRelMoves

LEMMA LoadRelPasses ==
  ASSUME Core, LoadInv, load # null, load.phase = "rels", mem' = mem,
         Moves, Same, Stands("rels", load.i, load.k + 1),
         Elf.rels[load.i][load.k].type = "NONE"
  PROVE  LoadInv'
<1>1. load'.file = load.file /\ load'.phase = "rels" /\ load'.i = load.i /\ load'.k = load.k + 1
  BY DEF Moves, Stands
<1>2. load.i \in Nat /\ load.k \in Nat /\ load.file \in DOMAIN Files
  BY LoadFields, LoadFile DEF Core
<1>3. ASSUME NEW x \in Effective(Files[load.file])
      PROVE  (x[1] < load.i \/ (x[1] = load.i /\ x[2] < load.k + 1))
             <=> (x[1] < load.i \/ (x[1] = load.i /\ x[2] < load.k))
  <2>1. x[1] \in Nat /\ x[2] \in Nat \ {0}
    BY <1>2, EffectiveIs
  <2>2. ~ (x[1] = load.i /\ x[2] = load.k)
    BY <1>2, EffectiveIs DEF Elf
  <2> QED
    BY <2>1, <2>2, <1>2
<1>4. Applied(load') = Applied(load)
  BY <1>1, <1>3 DEF Applied
<1>5. load'.k # 0
  BY <1>1, <1>2
<1> QED
  BY <1>1, <1>4, <1>5, LoadRelMoves

LEMMA LoadSymbolsEnd ==
  ASSUME Core, LoadInv, load # null, load.phase = "symbols", mem' = mem,
         Moves, Same, Stands("rels", 0, 1), load.i >= Len(Elf.symbols), load.name # null
  PROVE  LoadInv'
<1>1. load'.file = load.file /\ load'.base = load.base /\ load'.phase = "rels" /\ load'.i = 0 /\ load'.k = 1
  BY DEF Moves, Stands
<1>2. load.i \in Nat /\ load.file \in DOMAIN Files
  BY LoadFields, LoadFile DEF Core
<1>3. Applied(load') = {}
  <2>1. ASSUME NEW x \in Effective(Files[load.file]) PROVE ~ (x[1] < 0 \/ (x[1] = 0 /\ x[2] < 1))
    BY <1>2, EffectiveIs
  <2> QED
    BY <1>1, <2>1 DEF Applied
<1>4. Applied(load) = {}
  BY DEF Applied
<1>5. CellsInv(load', mem')
  BY <1>1, <1>3, <1>4, CellsSame DEF LoadInv
<1>6. SymbolsInv(load')
  <2> DEFINE n == Len(Files[load.file].symbols)
  <2>1. n \in Nat /\ DOMAIN Files[load.file].symbols = 1..n
    BY <1>2, SymbolsAre
  <2>2. Resolved(load') = n /\ Resolved(load) = load.i
    BY <1>1 DEF Resolved
  <2>3. n <= load.i
    BY <2>1, <1>2 DEF Elf
  <2>4. \A j \in DOMAIN Files[load.file].symbols : j <= n /\ j <= load.i
    <3> HIDE DEF n
    <3> QED
      BY <2>1, <2>3, <1>2
  <2> HIDE DEF n
  <2>5. ASSUME NEW name, NEW ptr, Found(load.file, name, ptr, load.i) PROVE Found(load.file, name, ptr, n)
    BY <2>4, <2>5 DEF Found
  <2> QED
    BY <2>2, <2>4, <2>5, <1>1 DEF LoadInv, SymbolsInv, Same
<1>7. PhaseInv(load')
  BY <1>1 DEF PhaseInv, Same
<1> QED
  BY <1>5, <1>6, <1>7 DEF LoadInv

(* A value that is within a size, with some of it to spare.                *)
LEMMA InsideCell ==
  ASSUME NEW n \in Nat, NEW value \in Nat, NEW size \in Nat, size # 0, value + size <= n
  PROVE  value \in 0..(n - 1)
OBVIOUS

(* Where the o-th cell of a section lies.                                  *)
LEMMA CellPlace ==
  ASSUME NEW f \in DOMAIN Files, NEW base, NEW c, Placed(f, base, c), NEW j \in DOMAIN base,
         NEW o \in 0..(Files[f].sections[j].size - 1)
  PROVE  /\ base[j] \in Nat /\ Files[f].sections[j].size \in Nat /\ j \in Kept(f)
         /\ base[j] + o \in Span(f, base, j) /\ base[j] + o \in Cells(f, base)
<1>1. j \in Kept(f) /\ base[j] \in Memory
  BY DEF Placed
<1>2. base[j] \in Nat /\ Files[f].sections[j].size \in Nat
  BY <1>1, MemoryNat, SectionsAre
<1>3. base[j] + o \in Span(f, base, j)
  BY <1>2 DEF Span
<1>4. Span(f, base, j) \subseteq Cells(f, base)
  BY DEF Span, Cells
<1> QED
  BY <1>1, <1>2, <1>3, <1>4

LEMMA LoadPlaces ==
  ASSUME Core, PlacedInv, LoadInv, load # null, load.phase = "sections",
         NEW i \in Kept(load.file), i = load.i, i \notin DOMAIN load.base, i \notin Nameless(load.file),
         NEW a \in Places(Section(i)),
         load'.file = load.file,
         load'.base = [j \in DOMAIN load.base \cup {i} |-> IF j = i THEN a ELSE load.base[j]],
         Same, Stands("sections", load.i + 1, load.k),
         mem' = [x \in DOMAIN mem \cup a..(a + Section(i).size - 1) |->
                   IF x \in DOMAIN mem THEN mem[x]
                   ELSE IF Section(i).type = "NOBITS" THEN 0 ELSE Section(i).cells[x - a + 1]]
  PROVE  LoadInv'
<1> DEFINE f == load.file  base == load.base  b == load'.base  s == Files[f].sections[i]
<1>1. f \in DOMAIN Files /\ Placed(f, base, mem) /\ Section(i) = s
  BY LoadFile DEF Core, PlacedInv, Section, Elf
<1>2. Extends(b, base, i, a)
  BY DEF Extends
<1>3. a \in Nat /\ a..(a + s.size - 1) \cap DOMAIN mem = {}
  BY <1>1, MemoryNat DEF Places
<1>4. /\ \A x \in DOMAIN mem : mem'[x] = mem[x]
      /\ \A x \in a..(a + s.size - 1) : mem'[x] = IF s.type = "NOBITS" THEN 0 ELSE s.cells[x - a + 1]
  BY <1>1, <1>3
<1>5. load'.file = f /\ load'.base = b /\ load'.phase = "sections" /\ load'.i = load.i + 1 /\ load'.name = load.name
  BY DEF Stands, Same
<1>6. load.i \in Nat
  BY LoadFields DEF Core
<1>7. PhaseInv(load) /\ SymbolsInv(load) /\ CellsInv(load, mem)
  BY DEF LoadInv
<1>8. Applied(load') = {} /\ Applied(load) = {}
  BY <1>5 DEF Applied
<1> HIDE DEF f, base, b, s
<1>9. PhaseInv(load')
  <2>1. load.name = null /\ DOMAIN base \subseteq 0..(load.i - 1)
    BY <1>7 DEF PhaseInv, base
  <2>2. DOMAIN b \subseteq 0..((load.i + 1) - 1)
    BY <2>1, <1>2, <1>6 DEF Extends
  <2>3. \A j \in Nameless(f) : load.i <= j
    BY <1>5, <1>7 DEF PhaseInv, f
  <2>4. \A j \in Nameless(f) : load.i + 1 <= j
    BY <2>3, <1>1, <1>6, NamelessAre DEF f
  <2> QED
    BY <2>1, <2>2, <2>4, <1>5 DEF PhaseInv
<1>10. ASSUME NEW j \in DOMAIN b, NEW o \in 0..(Files[f].sections[j].size - 1)
       PROVE  mem'[b[j] + o] = Files[f].sections[j].cells[o + 1]
  <2>1. CASE j = i
    <3>1. s.size \in Nat /\ (s.type = "NOBITS" => \A x \in 1..s.size : s.cells[x] = 0)
      BY <1>1, SectionsAre DEF f, s
    <3>2. b[j] = a /\ o \in 0..(s.size - 1)
      BY <2>1, <1>2, <1>10 DEF Extends, s
    <3>3. a + o \in a..(a + s.size - 1) /\ (a + o) - a + 1 = o + 1 /\ o + 1 \in 1..s.size
      BY <3>1, <3>2, <1>3
    <3>4. mem'[a + o] = IF s.type = "NOBITS" THEN 0 ELSE s.cells[o + 1]
      BY <3>3, <1>4
    <3>5. mem'[a + o] = s.cells[o + 1]
      BY <3>1, <3>3, <3>4
    <3> QED
      BY <3>2, <3>5, <2>1 DEF s
  <2>2. CASE j # i
    <3>1. j \in DOMAIN base /\ b[j] = base[j]
      BY <2>2, <1>2, <1>10 DEF Extends
    <3>2. base[j] + o \in DOMAIN mem
      BY <3>1, <1>1, CellPlace, PlacedCells
    <3>3. mem[base[j] + o] = Files[f].sections[j].cells[o + 1]
      BY <3>1, <1>7, <1>8 DEF CellsInv, f, base
    <3> QED
      BY <3>1, <3>2, <3>3, <1>4
  <2> QED
    BY <2>1, <2>2
<1>11. CellsInv(load', mem')
  <2>1. ASSUME NEW j \in DOMAIN load'.base, NEW o \in 0..(Files[load'.file].sections[j].size - 1)
        PROVE  mem'[load'.base[j] + o] = Files[load'.file].sections[j].cells[o + 1]
    <3>1. j \in DOMAIN b /\ o \in 0..(Files[f].sections[j].size - 1)
      BY <1>5
    <3>2. mem'[b[j] + o] = Files[f].sections[j].cells[o + 1]
      BY <3>1, <1>10
    <3> QED
      BY <3>2, <1>5, Zenon
  <2> QED
    BY <2>1, <1>8 DEF CellsInv
<1>12. SymbolsInv(load')
  <2>1. Resolved(load') = 1 /\ Resolved(load) = 1
    BY <1>5 DEF Resolved
  <2>2. load.name = null
    BY <1>7 DEF PhaseInv
  <2>3. ASSUME NEW j \in DOMAIN Files[f].symbols, j <= 1
        PROVE  Address(b, Files[f].symbols[j]) = Address(base, Files[f].symbols[j])
    <3>1. j = 1
      BY <2>3, <1>1, SymbolsAre
    <3>2. DOMAIN base \subseteq Kept(f) /\ DOMAIN b \subseteq Kept(f)
      BY <1>1, <1>2 DEF Placed, Extends, f
    <3>3. Address(base, Files[f].symbols[1]) = Files[f].symbols[1].value
      BY <3>1, <3>2, <2>3, <1>1, FirstSymbol
    <3>4. Address(b, Files[f].symbols[1]) = Files[f].symbols[1].value
      BY <3>1, <3>2, <2>3, <1>1, FirstSymbol
    <3> QED
      BY <3>1, <3>3, <3>4
  <2> QED
    BY <2>1, <2>2, <2>3, <1>5, <1>7 DEF SymbolsInv, Same, f, base
<1> QED
  BY <1>9, <1>11, <1>12 DEF LoadInv

LEMMA FoundNext ==
  ASSUME NEW f \in DOMAIN Files, NEW n, NEW ptr \in Nat \cup {null}, NEW i \in Nat,
         i + 1 \in DOMAIN Files[f].symbols, Found(f, n, ptr, i),
         NEW q, q = IF Files[f].symbols[i + 1].name = n THEN i ELSE ptr
  PROVE  Found(f, n, q, i + 1)
<1> DEFINE syms == Files[f].symbols
<1>1. null \notin Nat
  BY WordAssumption
<1>2. \A j \in DOMAIN syms : j \in Nat
  BY SymbolsAre
<1> HIDE DEF syms
<1>3. CASE syms[i + 1].name = n
  BY <1>1, <1>3 DEF Found, syms
<1>4. CASE syms[i + 1].name # n /\ ptr = null
  <2>1. \A j \in DOMAIN syms : j <= i + 1 => syms[j].name # n
    <3> SUFFICES ASSUME NEW j \in DOMAIN syms, j <= i + 1 PROVE syms[j].name # n
      OBVIOUS
    <3>1. j = i + 1 \/ j <= i
      BY <1>2
    <3> QED
      BY <3>1, <1>4 DEF Found, syms
  <2> QED
    BY <2>1, <1>4 DEF Found, syms
<1>5. CASE syms[i + 1].name # n /\ ptr # null
  BY <1>5 DEF Found, syms
<1> QED
  BY <1>3, <1>4, <1>5

LEMMA LoadSymbol ==
  ASSUME Core, PlacedInv, LoadInv, load # null, load.phase = "symbols", mem' = mem,
         NEW sym, sym = Elf.symbols[load.i + 1], SymbolGood(sym),
         Moves, Stands("symbols", load.i + 1, load.k),
         load'.values = [load.values EXCEPT ![load.i + 1] = Address(load.base, sym)],
         load'.name = Seen(sym, load.name, "loom_mod_name"),
         load'.init = Seen(sym, load.init, "loomModInit"),
         load'.deinit = Seen(sym, load.deinit, "loomModDeinit"),
         load.i + 1 \in DOMAIN Elf.symbols
  PROVE  LoadInv'
<1> DEFINE f == load.file  base == load.base  i == load.i  syms == Files[f].symbols
<1>1. load'.file = f /\ load'.base = base /\ load'.phase = "symbols" /\ load'.i = i + 1
  BY DEF Moves, Stands
<1>2. i \in Nat /\ f \in DOMAIN Files /\ i + 1 \in DOMAIN syms /\ sym = syms[i + 1]
  BY LoadFields, LoadFile DEF Core, Elf
<1>3. SymbolsInv(load) /\ Resolved(load) = i /\ Resolved(load') = i + 1
  BY <1>1 DEF LoadInv, Resolved
<1>4. CellsInv(load', mem')
  <2>1. Applied(load') = Applied(load)
    BY <1>1 DEF Applied
  <2> QED
    BY <1>1, <2>1, CellsSame DEF LoadInv
<1>5. PhaseInv(load')
  BY <1>1, <1>2 DEF PhaseInv
<1>6. /\ Found(f, "loom_mod_name", load'.name, i + 1)
      /\ Found(f, "loomModInit", load'.init, i + 1)
      /\ Found(f, "loomModDeinit", load'.deinit, i + 1)
  <2>1. /\ Found(f, "loom_mod_name", load.name, i)
        /\ Found(f, "loomModInit", load.init, i)
        /\ Found(f, "loomModDeinit", load.deinit, i)
    BY <1>3 DEF SymbolsInv
  <2>2. /\ load.name \in Nat \cup {null} /\ load.init \in Nat \cup {null}
        /\ load.deinit \in Nat \cup {null}
    BY LoadFields DEF Core
  <2>3. /\ load'.name = IF syms[i + 1].name = "loom_mod_name" THEN i ELSE load.name
        /\ load'.init = IF syms[i + 1].name = "loomModInit" THEN i ELSE load.init
        /\ load'.deinit = IF syms[i + 1].name = "loomModDeinit" THEN i ELSE load.deinit
    BY <1>2 DEF Seen
  <2> HIDE DEF f, i
  <2> QED
    BY <2>1, <2>2, <2>3, <1>2, FoundNext
<1>7. /\ DOMAIN load'.values = DOMAIN syms
      /\ \A j \in DOMAIN syms : j <= i + 1 => load'.values[j] = Address(base, syms[j])
  <2>1. DOMAIN load.values = DOMAIN syms
    BY <1>3 DEF SymbolsInv
  <2>2. /\ DOMAIN load'.values = DOMAIN syms
        /\ \A j \in DOMAIN syms :
             load'.values[j] = IF j = i + 1 THEN Address(base, sym) ELSE load.values[j]
    BY <2>1
  <2>3. \A j \in DOMAIN syms : j <= i => load.values[j] = Address(base, syms[j])
    BY <1>3 DEF SymbolsInv
  <2>4. \A j \in DOMAIN syms : j \in Nat
    BY <1>2, SymbolsAre
  <2> HIDE DEF f, base, i, syms
  <2>5. ASSUME NEW j \in DOMAIN syms, j <= i + 1 PROVE load'.values[j] = Address(base, syms[j])
    <3>1. CASE j = i + 1
      BY <3>1, <2>2, <1>2
    <3>2. CASE j # i + 1
      <4>1. j <= i
        BY <3>2, <2>4, <2>5, <1>2
      <4> QED
        BY <4>1, <3>2, <2>2, <2>3
    <3> QED
      BY <3>1, <3>2
  <2> QED
    BY <2>2, <2>5
<1>8. load'.name # null => Address(base, syms[load'.name + 1]) \in Cells(f, base)
  <2>1. CASE sym.name = "loom_mod_name"
    <3>1. load'.name = i
      BY <2>1 DEF Seen
    <3>2. SymbolValidate(sym) /\ ~ External(sym)
      BY <2>1 DEF SymbolGood, Special, External
    <3>3. /\ sym.shidx \in DOMAIN base /\ sym.shidx # UNDEF
          /\ sym.value + sym.size <= Section(sym.shidx).size
      BY <3>2 DEF SymbolValidate, SymbolGood, Inside
    <3>4. sym.size # 0 /\ sym.size \in Nat /\ sym.value \in Nat
      <4>1. sym.size # 0
        <5>1. \A j \in DOMAIN syms : syms[j].name = "loom_mod_name" => syms[j].size # 0
          BY <1>2, FileIs DEF WellFormed
        <5> QED
          BY <5>1, <1>2, <2>1
      <4> QED
        BY <4>1, <1>2, SymbolsAre
    <3>5. Placed(f, base, mem)
      BY DEF PlacedInv
    <3>6. Section(sym.shidx).size = Files[f].sections[sym.shidx].size
      BY DEF Section, Elf
    <3> HIDE DEF f, base, i, syms
    <3>7. Files[f].sections[sym.shidx].size \in Nat
      BY <3>3, <3>5, <1>2, SectionsAre DEF Placed
    <3>8. sym.value \in 0..(Files[f].sections[sym.shidx].size - 1)
      BY <3>3, <3>4, <3>6, <3>7, InsideCell
    <3>9. base[sym.shidx] + sym.value \in Cells(f, base)
      BY <3>3, <3>5, <3>8, <1>2, CellPlace
    <3>10. Address(base, sym) = base[sym.shidx] + sym.value
      BY <3>3 DEF Address
    <3> QED
      BY <3>1, <3>9, <3>10, <1>2
  <2>2. CASE sym.name # "loom_mod_name"
    <3>1. load'.name = load.name
      BY <2>2 DEF Seen
    <3> QED
      BY <3>1, <1>3 DEF SymbolsInv
  <2> QED
    BY <2>1, <2>2
<1>9. SymbolsInv(load')
  <2> HIDE DEF f, base, i
  <2> QED
    BY <1>1, <1>3, <1>6, <1>7, <1>8 DEF SymbolsInv
<1> QED
  BY <1>4, <1>5, <1>9 DEF LoadInv

(* Two relocations of different cells.                                     *)
LEMMA ApartPlaces ==
  ASSUME NEW f \in DOMAIN Files, NEW base, NEW c, Placed(f, base, c),
         NEW i \in DOMAIN base, NEW j \in DOMAIN base,
         NEW o \in 0..(Files[f].sections[i].size - 1), NEW p \in 0..(Files[f].sections[j].size - 1),
         <<i, o>> # <<j, p>>
  PROVE  base[i] + o # base[j] + p
<1>1. base[i] \in Nat /\ base[j] \in Nat
  BY CellPlace
<1>2. o \in Int /\ p \in Int
  OBVIOUS
<1>3. CASE i = j
  <2>1. o # p
    BY <1>3
  <2> QED
    BY <2>1, <1>1, <1>2, <1>3
<1>4. CASE i # j
  <2>1. base[i] + o \in Span(f, base, i) /\ base[j] + p \in Span(f, base, j)
    BY CellPlace
  <2>2. Span(f, base, i) \cap Span(f, base, j) = {}
    BY <1>4 DEF Placed
  <2> QED
    BY <2>1, <2>2
<1> QED
  BY <1>3, <1>4

LEMMA TargetsApart ==
  ASSUME NEW f \in DOMAIN Files, NEW x \in Effective(Files[f]), NEW y \in Effective(Files[f]), x # y
  PROVE  Target(Files[f], x[1], x[2]) # Target(Files[f], y[1], y[2])
<1>1. WellFormed(Files[f])
  BY FileIs
<1>2. \A u, v \in Effective(Files[f]) :
        Target(Files[f], u[1], u[2]) = Target(Files[f], v[1], v[2]) => u = v
  BY <1>1 DEF WellFormed
<1> QED
  BY <1>2

LEMMA Within ==
  ASSUME NEW n \in Nat, NEW o \in Nat, o < n
  PROVE  o \in 0..(n - 1) /\ o + 1 \in 1..n
OBVIOUS

LEMMA EffectivePair ==
  ASSUME NEW elf, NEW i \in DOMAIN elf.rels, NEW k \in DOMAIN elf.rels[i], elf.rels[i][k].type # "NONE"
  PROVE  <<i, k>> \in Effective(elf)
<1>1. <<i, k>> \in {i} \X DOMAIN elf.rels[i] /\ <<i, k>>[1] = i /\ <<i, k>>[2] = k
  OBVIOUS
<1>2. <<i, k>> \in UNION {{a} \X DOMAIN elf.rels[a] : a \in DOMAIN elf.rels}
  BY <1>1
<1> QED
  BY <1>1, <1>2 DEF Effective

(* The relocation that is next is applied.                                 *)
Applies(P, rel) ==
  /\ load # null /\ load.phase = "rels" /\ load.i < Shents
  /\ Section(load.i).type = "REL" /\ ~ (load.k > Len(Elf.rels[load.i]))
  /\ rel = Elf.rels[load.i][load.k] /\ RelGood(Section(load.i), rel)
  /\ rel.type \in {"16", "PC16", "32", "PC32"}
  /\ P = load.base[Section(load.i).info] + rel.offset
  /\ mem' = [mem EXCEPT ![P] =
              Fixup(rel.type, load.values[rel.sym + 1], mem[P], P) % Width(rel.type)]

(* What is known of it: x is the relocation, j its section.                *)
LEMMA NextRelocation ==
  ASSUME Core, PlacedInv, LoadInv, NEW P, NEW rel, Applies(P, rel),
         NEW f, f = load.file, NEW base, base = load.base, NEW x, x = <<load.i, load.k>>,
         NEW j, j = Files[f].sections[load.i].info
  PROVE  /\ f \in DOMAIN Files /\ x \in Effective(Files[f]) /\ x \notin Applied(load)
         /\ load.i \in Nat /\ load.k \in Nat
         /\ x[1] = load.i /\ x[2] = load.k /\ rel = Files[f].rels[load.i][load.k]
         /\ j \in DOMAIN base /\ rel.offset \in 0..(Files[f].sections[j].size - 1)
         /\ P = base[j] + rel.offset /\ P \in Cells(f, base) /\ P \in Nat
         /\ Target(Files[f], load.i, load.k) = <<j, rel.offset>>
         /\ rel.sym + 1 \in DOMAIN Files[f].symbols /\ rel.sym + 1 <= Len(Files[f].symbols)
<1>1. f \in DOMAIN Files /\ load.i \in Nat /\ load.k \in Nat /\ load.k # 0
  BY LoadFile, LoadFields DEF Core, Applies, LoadInv, PhaseInv
<1>2. load.i \in DOMAIN Files[f].sections /\ Files[f].sections[load.i].type = "REL"
  <2>1. load.i < Cardinality(DOMAIN Files[f].sections) /\ Files[f].sections[load.i].type = "REL"
    BY DEF Applies, Shents, Elf, Section
  <2>2. /\ Cardinality(DOMAIN Files[f].sections) \in Nat
        /\ DOMAIN Files[f].sections = 0..(Cardinality(DOMAIN Files[f].sections) - 1)
    BY <1>1, SectionsAre
  <2>3. load.i \in 0..(Cardinality(DOMAIN Files[f].sections) - 1)
    BY <2>1, <2>2, <1>1, Within
  <2> QED
    BY <2>1, <2>2, <2>3
<1>3. load.i \in DOMAIN Files[f].rels
  <2>1. DOMAIN Files[f].rels = {i \in DOMAIN Files[f].sections : Files[f].sections[i].type = "REL"}
    BY <1>1, FileIs DEF WellFormed
  <2> QED
    BY <2>1, <1>2
<1>4. load.k \in DOMAIN Files[f].rels[load.i]
  <2>1. /\ Len(Files[f].rels[load.i]) \in Nat
        /\ DOMAIN Files[f].rels[load.i] = 1..Len(Files[f].rels[load.i])
    BY <1>1, <1>3, RelsAre
  <2>2. ~ (load.k > Len(Files[f].rels[load.i]))
    BY DEF Applies, Elf
  <2> QED
    BY <2>1, <2>2, <1>1
<1>5. x[1] = load.i /\ x[2] = load.k /\ rel = Files[f].rels[load.i][load.k]
  BY DEF Applies, Elf
<1>6. rel.type # "NONE"
  BY DEF Applies
<1>7. x \in Effective(Files[f])
  <2>1. load.i \in DOMAIN Files[f].rels /\ load.k \in DOMAIN Files[f].rels[load.i]
        /\ Files[f].rels[load.i][load.k].type # "NONE"
    BY <1>3, <1>4, <1>5, <1>6, Zenon
  <2> QED
    BY <2>1, EffectivePair
<1>8. x \notin Applied(load)
  BY <1>1, <1>5 DEF Applied
<1>9. rel.offset \in Nat /\ rel.sym \in Nat
  BY <1>1, <1>3, <1>4, <1>5, RelsAre
<1>10. j \in DOMAIN base /\ rel.offset < Files[f].sections[j].size /\ P = base[j] + rel.offset
  BY DEF Applies, RelGood, Section, Elf
<1>11. Placed(f, base, mem)
  BY DEF PlacedInv, Applies
<1>12. Files[f].sections[j].size \in Nat
  BY <1>1, <1>10, <1>11, SectionsAre DEF Placed
<1>13. rel.offset \in 0..(Files[f].sections[j].size - 1)
  <2>1. rel.offset \in Nat /\ rel.offset < Files[f].sections[j].size
    BY <1>9, <1>10, Zenon
  <2> QED
    BY <2>1, <1>12, Within
<1>14. P \in Cells(f, base) /\ P \in Nat
  <2>1. base[j] \in Nat /\ base[j] + rel.offset \in Cells(f, base)
    BY <1>1, <1>10, <1>11, <1>13, CellPlace
  <2>2. P = base[j] + rel.offset /\ rel.offset \in Nat
    BY <1>9, <1>10, Zenon
  <2>3. base[j] + rel.offset \in Nat
    <3>1. base[j] \in Nat /\ rel.offset \in Nat
      BY <2>1, <1>9, Zenon
    <3>2. \A a, b \in Nat : a + b \in Nat
      OBVIOUS
    <3> QED
      BY <3>1, <3>2, Zenon
  <2> QED
    BY <2>1, <2>2, <2>3, Zenon
<1>15. Target(Files[f], load.i, load.k) = <<j, rel.offset>>
  BY <1>5 DEF Target
<1>16. rel.sym + 1 \in DOMAIN Files[f].symbols /\ rel.sym + 1 <= Len(Files[f].symbols)
  <2>1. rel.sym < Len(Files[f].symbols)
    BY DEF Applies, RelGood, Elf
  <2>2. Len(Files[f].symbols) \in Nat /\ DOMAIN Files[f].symbols = 1..Len(Files[f].symbols)
    BY <1>1, SymbolsAre
  <2> QED
    BY <2>1, <2>2, <1>9
<1> QED
  BY <1>1, <1>5, <1>7, <1>8, <1>10, <1>13, <1>14, <1>15, <1>16

LEMMA LoadRelApplies ==
  ASSUME Core, PlacedInv, LoadInv, NEW P, NEW rel, Applies(P, rel),
         Moves, Same, Stands("rels", load.i, load.k + 1)
  PROVE  LoadInv' /\ DOMAIN mem' = DOMAIN mem /\ \A m \in On : Untouched(m)
<1> DEFINE f == load.file  base == load.base  x == <<load.i, load.k>>
           j == Files[f].sections[load.i].info
<1>1. /\ f \in DOMAIN Files /\ x \in Effective(Files[f]) /\ x \notin Applied(load)
      /\ load.i \in Nat /\ load.k \in Nat
      /\ x[1] = load.i /\ x[2] = load.k /\ rel = Files[f].rels[load.i][load.k]
      /\ j \in DOMAIN base /\ rel.offset \in 0..(Files[f].sections[j].size - 1)
      /\ P = base[j] + rel.offset /\ P \in Cells(f, base) /\ P \in Nat
      /\ Target(Files[f], load.i, load.k) = <<j, rel.offset>>
      /\ rel.sym + 1 \in DOMAIN Files[f].symbols /\ rel.sym + 1 <= Len(Files[f].symbols)
  <2> HIDE DEF f, base, x, j
  <2> QED
    BY NextRelocation DEF f, base, x, j
<1>17. P \in Nat /\ load.i \in Nat /\ load.k \in Nat /\ f \in DOMAIN Files
  BY <1>1, Zenon
<1>18. rel.offset \in 0..(Files[f].sections[j].size - 1) /\ j \in DOMAIN base
  BY <1>1, Zenon
<1>2. load # null /\ load.phase = "rels" /\ Placed(f, base, mem) /\ P \in DOMAIN mem
  <2>1. load # null /\ load.phase = "rels"
    BY DEF Applies
  <2>2. Placed(f, base, mem)
    BY <2>1 DEF PlacedInv
  <2> QED
    BY <2>1, <2>2, <1>1 DEF Placed
<1>3. load'.file = f /\ load'.base = base /\ load'.phase = "rels" /\ load'.i = load.i /\ load'.k = load.k + 1
  BY DEF Moves, Stands
<1>4. /\ DOMAIN mem' = DOMAIN mem /\ \A c \in DOMAIN mem : c # P => mem'[c] = mem[c]
      /\ mem'[P] = Fixup(rel.type, load.values[rel.sym + 1], mem[P], P) % Width(rel.type)
  BY <1>2 DEF Applies
<1>5. PhaseInv(load) /\ SymbolsInv(load) /\ CellsInv(load, mem)
  BY <1>2 DEF LoadInv
<1>6. Applied(load') = Applied(load) \cup {x}
  <2>1. ASSUME NEW y \in Effective(Files[f])
        PROVE  (y[1] < load.i \/ (y[1] = load.i /\ y[2] < load.k + 1))
               <=> (y[1] < load.i \/ (y[1] = load.i /\ y[2] < load.k)) \/ y = x
    <3>1. y[1] \in Nat /\ y[2] \in Nat /\ y = <<y[1], y[2]>>
      BY <1>17, EffectiveIs, <2>1
    <3>2. (y[1] = load.i /\ y[2] = load.k) <=> y = x
      BY <3>1
    <3>3. y[2] < load.k + 1 <=> y[2] < load.k \/ y[2] = load.k
      BY <3>1, <1>17
    <3> HIDE DEF x
    <3> QED
      BY <3>2, <3>3
  <2> HIDE DEF x, f
  <2>2. \A y \in Effective(Files[f]) : y \in Applied(load') <=> y \in Applied(load) \cup {x}
    BY <2>1, <1>2, <1>3 DEF Applied, f
  <2>3. /\ \A y \in Applied(load) : y \in Effective(Files[f])
        /\ \A y \in Applied(load') : y \in Effective(Files[f])
    BY <1>3, AppliedFile DEF f
  <2> QED
    BY <2>2, <2>3, <1>1
<1>7. ASSUME NEW y \in Applied(load)
      PROVE  y \in Effective(Files[f]) /\ Target(Files[f], y[1], y[2]) # <<j, rel.offset>>
  <2>1. y \in Effective(Files[f]) /\ y # x
    BY <1>1, AppliedFile
  <2> HIDE DEF f, x, j
  <2> QED
    BY <2>1, <1>1, TargetsApart
<1> HIDE DEF f, base, x, j
<1>8. mem[P] = Files[f].sections[j].cells[rel.offset + 1] /\ mem[P] \in Int
  <2>1. mem[P] = Files[f].sections[j].cells[rel.offset + 1]
    BY <1>1, <1>5, <1>7 DEF CellsInv, f, base
  <2>2. /\ Files[f].sections[j].size \in Nat
        /\ Files[f].sections[j].cells \in [1..Files[f].sections[j].size -> 0..(Word - 1)]
    BY <1>1, <1>2, SectionsAre DEF Placed
  <2>3. rel.offset + 1 \in 1..Files[f].sections[j].size
    <3>1. rel.offset \in Nat /\ rel.offset < Files[f].sections[j].size
      BY <1>18, <2>2
    <3> QED
      BY <3>1, <2>2, Within
  <2>4. Files[f].sections[j].cells[rel.offset + 1] \in 0..(Word - 1)
    BY <2>2, <2>3
  <2> QED
    BY <2>1, <2>4
<1>9. /\ load.values[rel.sym + 1] = Address(base, Files[f].symbols[rel.sym + 1])
      /\ load.values[rel.sym + 1] \in Nat
  <2>1. Resolved(load) = Len(Files[f].symbols)
    BY <1>2 DEF Resolved, f
  <2>2. load.values[rel.sym + 1] = Address(base, Files[f].symbols[rel.sym + 1])
    BY <2>1, <1>1, <1>5 DEF SymbolsInv, f, base
  <2>3. base \in [DOMAIN base -> Memory]
    BY <1>2 DEF Placed
  <2> QED
    BY <2>2, <2>3, <1>1, AddressNat
<1>10. Goal(f, base, x, mem')
  <2>1. rel.type \in {"16", "PC16", "32", "PC32"}
    BY DEF Applies
  <2> DEFINE S == load.values[rel.sym + 1]  A == mem[P]
  <2>2. Fixup(rel.type, S, A, P) % Width(rel.type)
        = (S + A - (IF rel.type \in {"PC16", "PC32"} THEN P ELSE 0)) % Width(rel.type)
    <3>1. S \in Int /\ A \in Int /\ P \in Int
      BY <1>8, <1>9, <1>17
    <3> HIDE DEF S, A
    <3> QED
      BY <2>1, <3>1, FixupIs, ZenonT(40)
  <2>3. Place(f, base, load.i, rel) = P
    BY <1>1 DEF Place, j
  <2>4. Relocated(f, base, load.i, rel)
        = (S + A - (IF rel.type \in {"PC16", "PC32"} THEN P ELSE 0)) % Width(rel.type)
    BY <2>3, <1>8, <1>9 DEF Relocated, j
  <2>5. mem'[P] = Relocated(f, base, load.i, rel)
    BY <2>2, <2>4, <1>4
  <2> QED
    BY <2>3, <2>5, <1>1 DEF Goal, j
<1>11. ASSUME NEW y \in Applied(load) PROVE Goal(f, base, y, mem')
  <2> DEFINE rely == Files[f].rels[y[1]][y[2]]  jy == Files[f].sections[y[1]].info
  <2>1. Goal(f, base, y, mem)
    BY <1>5 DEF CellsInv, f, base
  <2>2. jy \in DOMAIN base /\ rely.offset \in 0..(Files[f].sections[jy].size - 1)
    BY <2>1 DEF Goal
  <2>3. Target(Files[f], y[1], y[2]) = <<jy, rely.offset>> /\ Place(f, base, y[1], rely) = base[jy] + rely.offset
    BY DEF Target, Place
  <2>4. mem[Place(f, base, y[1], rely)] = Relocated(f, base, y[1], rely)
    BY <2>1 DEF Goal
  <2> HIDE DEF rely, jy
  <2>5. Place(f, base, y[1], rely) # P /\ Place(f, base, y[1], rely) \in DOMAIN mem
    <3>1. <<jy, rely.offset>> # <<j, rel.offset>>
      BY <2>3, <1>7
    <3>2. base[jy] + rely.offset # base[j] + rel.offset
      BY <3>1, <2>2, <1>17, <1>18, <1>2, ApartPlaces
    <3>3. base[jy] + rely.offset \in Cells(f, base)
      BY <2>2, <1>1, <1>2, CellPlace
    <3> QED
      BY <3>2, <3>3, <2>3, <1>1, <1>2 DEF Placed
  <2>6. mem'[Place(f, base, y[1], rely)] = Relocated(f, base, y[1], rely)
    BY <2>4, <2>5, <1>4
  <2> QED
    BY <2>2, <2>6 DEF Goal, rely, jy
<1>12. ASSUME NEW i \in DOMAIN base, NEW o \in 0..(Files[f].sections[i].size - 1),
              \A y \in Applied(load') : Target(Files[f], y[1], y[2]) # <<i, o>>
       PROVE  mem'[base[i] + o] = Files[f].sections[i].cells[o + 1]
  <2>1. <<j, rel.offset>> # <<i, o>>
    BY <1>1, <1>6, <1>12
  <2>2. base[i] + o # P
    <3>1. base[i] + o # base[j] + rel.offset
      BY <2>1, <1>12, <1>17, <1>18, <1>2, ApartPlaces
    <3> QED
      BY <3>1, <1>1, Zenon
  <2>3. base[i] + o \in DOMAIN mem
    BY <1>1, <1>2, CellPlace, PlacedCells
  <2>4. \A y \in Applied(load) : Target(Files[f], y[1], y[2]) # <<i, o>>
    BY <1>6, <1>12
  <2>5. mem[base[i] + o] = Files[f].sections[i].cells[o + 1]
    BY <2>4, <1>5 DEF CellsInv, f, base
  <2> QED
    BY <2>2, <2>3, <2>5, <1>4
<1>13. CellsInv(load', mem')
  <2>1. \A y \in Applied(load') : Goal(load'.file, load'.base, y, mem')
    BY <1>3, <1>6, <1>10, <1>11
  <2>2. ASSUME NEW i \in DOMAIN load'.base, NEW o \in 0..(Files[load'.file].sections[i].size - 1),
               \A y \in Applied(load') : Target(Files[load'.file], y[1], y[2]) # <<i, o>>
        PROVE  mem'[load'.base[i] + o] = Files[load'.file].sections[i].cells[o + 1]
    <3>1. /\ i \in DOMAIN base /\ o \in 0..(Files[f].sections[i].size - 1)
          /\ \A y \in Applied(load') : Target(Files[f], y[1], y[2]) # <<i, o>>
      BY <2>2, <1>3
    <3>2. mem'[base[i] + o] = Files[f].sections[i].cells[o + 1]
      BY <3>1, <1>12
    <3> QED
      BY <3>2, <1>3, Zenon
  <2> QED
    BY <2>1, <2>2 DEF CellsInv
<1>14. SymbolsInv(load')
  <2>1. Resolved(load') = Resolved(load)
    BY <1>2, <1>3 DEF Resolved, f
  <2> QED
    BY <2>1, <1>3, <1>5, SymbolsSame DEF f, base
<1>15. PhaseInv(load')
  <2>1. load.k + 1 # 0
    BY <1>17
  <2>2. load.name # null
    BY <1>2, <1>5 DEF PhaseInv
  <2>3. load'.name # null /\ load'.phase = "rels" /\ load'.k # 0
    BY <2>1, <2>2, <1>3, Zenon DEF Same
  <2> QED
    BY <2>3 DEF PhaseInv
<1>16. ASSUME NEW m \in On PROVE Untouched(m)
  <2>1. P \notin Cells(m.file, m.base) /\ Cells(m.file, m.base) \subseteq DOMAIN mem
    BY <1>1, <1>2, PlacedCells DEF PlacedInv, f, base
  <2> QED
    BY <2>1, <1>4 DEF Untouched
<1> QED
  BY <1>4, <1>13, <1>14, <1>15, <1>16 DEF LoadInv

(* The symbol the loader found is the one of that name.                    *)
LEMMA NamedIs ==
  ASSUME NEW f \in DOMAIN Files, NEW base, NEW n \in {"loom_mod_name", "loomModInit", "loomModDeinit"},
         NEW ptr \in Nat \cup {null}, Found(f, n, ptr, Len(Files[f].symbols))
  PROVE  /\ ptr = null => Named(f, base, n) = {}
         /\ ptr # null => Named(f, base, n) = {Address(base, Files[f].symbols[ptr + 1])}
<1> DEFINE syms == Files[f].symbols
<1>1. Len(syms) \in Nat /\ DOMAIN syms = 1..Len(syms)
  BY SymbolsAre
<1>2. \A i, j \in DOMAIN syms : syms[i].name = n /\ syms[j].name = n => i = j
  BY FileIs DEF WellFormed
<1>3. CASE ptr = null
  <2>1. \A j \in DOMAIN syms : syms[j].name # n
    BY <1>1, <1>3 DEF Found
  <2> QED
    BY <2>1, <1>3 DEF Named
<1>4. CASE ptr # null
  <2>1. ptr + 1 \in DOMAIN syms /\ syms[ptr + 1].name = n
    BY <1>4 DEF Found
  <2>2. {x \in DOMAIN syms : syms[x].name = n} = {ptr + 1}
    BY <2>1, <1>2
  <2> QED
    BY <2>2, <1>4 DEF Named
<1> QED
  BY <1>3, <1>4

LEMMA ValueIs ==
  ASSUME Core, PlacedInv, LoadInv, load # null, load.phase = "rels",
         NEW n \in {"loom_mod_name", "loomModInit", "loomModDeinit"},
         NEW ptr \in Nat \cup {null}, Found(load.file, n, ptr, Len(Files[load.file].symbols))
  PROVE  {Value(ptr)} \ {null} = Named(load.file, load.base, n)
<1> DEFINE f == load.file  syms == Files[f].symbols
<1>1. f \in DOMAIN Files /\ load.base \in [DOMAIN load.base -> Memory]
  BY LoadFile, LoadFields DEF Core
<1>2. /\ ptr = null => Named(f, load.base, n) = {}
      /\ ptr # null => Named(f, load.base, n) = {Address(load.base, syms[ptr + 1])}
  BY <1>1, NamedIs
<1>3. CASE ptr = null
  BY <1>2, <1>3 DEF Value
<1>4. CASE ptr # null
  <2>1. ptr + 1 \in DOMAIN syms /\ ptr + 1 <= Len(syms)
    BY <1>4 DEF Found
  <2>2. load.values[ptr + 1] = Address(load.base, syms[ptr + 1])
    BY <2>1 DEF LoadInv, SymbolsInv, Resolved
  <2>3. Address(load.base, syms[ptr + 1]) \in Nat
    BY <2>1, <1>1, AddressNat
  <2>4. Value(ptr) = Address(load.base, syms[ptr + 1]) /\ Value(ptr) # null
    BY <2>2, <2>3, <1>4, WordAssumption DEF Value
  <2> QED
    BY <2>4, <1>2, <1>4
<1> QED
  BY <1>3, <1>4

(* The module is linked when it goes on the list.                          *)
LEMMA LoadLinks ==
  ASSUME Core, PlacedInv, LoadInv, load # null, load.phase = "rels", load.i = Shents,
         NEW m, m = [file |-> load.file, base |-> load.base, name |-> mem[Value(load.name)],
                     init |-> Value(load.init), deinit |-> Value(load.deinit)]
  PROVE  Bound(m) /\ Link(m, mem)
<1> DEFINE f == load.file  base == load.base  syms == Files[f].symbols
<1>1. /\ m.file = f /\ m.base = base /\ m.name = mem[Value(load.name)]
      /\ m.init = Value(load.init) /\ m.deinit = Value(load.deinit)
  OBVIOUS
<1>2. f \in DOMAIN Files /\ Placed(f, base, mem)
  BY LoadFile DEF Core, PlacedInv
<1>3. SymbolsInv(load) /\ CellsInv(load, mem) /\ load.name # null
  BY DEF LoadInv, PhaseInv
<1>4. load.name \in Nat \cup {null} /\ load.init \in Nat \cup {null} /\ load.deinit \in Nat \cup {null}
  BY LoadFields DEF Core
<1>5. /\ Found(f, "loom_mod_name", load.name, Len(syms))
      /\ Found(f, "loomModInit", load.init, Len(syms))
      /\ Found(f, "loomModDeinit", load.deinit, Len(syms))
      /\ Address(base, syms[load.name + 1]) \in Cells(f, base)
  BY <1>3 DEF SymbolsInv, Resolved
<1>6. /\ {Value(load.name)} \ {null} = Named(f, base, "loom_mod_name")
      /\ {Value(load.init)} \ {null} = Named(f, base, "loomModInit")
      /\ {Value(load.deinit)} \ {null} = Named(f, base, "loomModDeinit")
  BY <1>4, <1>5, ValueIs
<1>7. Named(f, base, "loom_mod_name") = {Value(load.name)} /\ Value(load.name) \in Cells(f, base)
  <2>1. Named(f, base, "loom_mod_name") = {Address(base, syms[load.name + 1])}
    BY <1>2, <1>3, <1>4, <1>5, NamedIs
  <2> QED
    BY <2>1, <1>5, <1>6
<1>8. ASSUME NEW x \in Effective(Files[f])
      PROVE  /\ Place(f, base, x[1], Files[f].rels[x[1]][x[2]]) \in Cells(f, base)
             /\ mem[Place(f, base, x[1], Files[f].rels[x[1]][x[2]])]
                = Relocated(f, base, x[1], Files[f].rels[x[1]][x[2]])
  <2>1. x[1] < load.i
    BY <1>2, EffectiveIs DEF Shents, Elf
  <2>2. x \in Applied(load)
    BY <2>1 DEF Applied
  <2>3. Goal(f, base, x, mem)
    BY <2>2, <1>3 DEF CellsInv
  <2> DEFINE rel == Files[f].rels[x[1]][x[2]]  j == Files[f].sections[x[1]].info
  <2>4. j \in DOMAIN base /\ rel.offset \in 0..(Files[f].sections[j].size - 1)
    BY <2>3 DEF Goal
  <2>5. base[j] + rel.offset \in Cells(f, base)
    <3> HIDE DEF f, base, rel, j
    <3> QED
      BY <2>4, <1>2, CellPlace
  <2> QED
    BY <2>3, <2>5 DEF Goal, Place
<1> HIDE DEF f, base, syms
<1>9. Bound(m)
  BY <1>1, <1>7, <1>8 DEF Bound
<1>10. Link(m, mem)
  <2>1. ASSUME NEW i \in DOMAIN Files[f].rels, NEW k \in DOMAIN Files[f].rels[i],
               Files[f].rels[i][k].type # "NONE"
        PROVE  mem[Place(f, base, i, Files[f].rels[i][k])] = Relocated(f, base, i, Files[f].rels[i][k])
    <3>1. <<i, k>> \in Effective(Files[f]) /\ <<i, k>>[1] = i /\ <<i, k>>[2] = k
      BY <2>1 DEF Effective
    <3> QED
      BY <3>1, <1>8
  <2>2. {m.name} = {mem[a] : a \in Named(f, base, "loom_mod_name")}
    BY <1>1, <1>7
  <2> QED
    BY <2>1, <2>2, <1>1, <1>6 DEF Link
<1> QED
  BY <1>9, <1>10
----------------------------------------------------------------------------
(* Each step keeps the invariant.                                          *)
LEMMA SameLinks ==
  ASSUME LinkInv, mem' = mem, modules' = modules
  PROVE  LinkInv'
<1>1. On' = On /\ \A m \in On' : Untouched(m)
  BY DEF On, Image, Untouched
<1> QED
  BY <1>1, LinksStay

LEMMA ErrorHolds ==
  ASSUME Holds, load # null, NEW lost, ErrorBut(lost), \A h \in lost : Lost(h),
         UNCHANGED <<archive, modules, outcome>>
  PROVE  Holds'
<1>1. Core'
  BY CoreError DEF Holds
<1>2. PlacedInv' /\ \A m \in On : Untouched(m)
  BY PlacedError DEF Holds
<1>3. LoadInv'
  BY DEF ErrorBut, LoadInv
<1>4. LinkInv'
  <2>1. On' = On
    BY DEF On, Image
  <2> QED
    BY <1>2, <2>1, LinksStay DEF Holds
<1> QED
  BY <1>1, <1>2, <1>3, <1>4 DEF Holds

LEMMA BeginHolds ==
  ASSUME Holds, Begin, outcome' = "running"
  PROVE  Holds'
<1>1. Loading /\ UNCHANGED <<archive, mem, modules>> /\ outcome = "running" /\ load = null
  BY DEF Begin, Loading
<1>2. LinkInv'
  BY <1>1, SameLinks DEF Holds
<1>3. CASE UNCHANGED <<load, held, outcome>> /\ Advance
  <2>1. Core'
    BY <1>1, <1>3, CoreSkips DEF Holds
  <2>2. PlacedInv'
    BY <1>1, <1>3, PlacedSkips DEF Holds
  <2>3. LoadInv'
    BY <1>1, <1>3 DEF LoadInv
  <2> QED
    BY <1>2, <2>1, <2>2, <2>3 DEF Holds
<1>4. CASE /\ load' = [file |-> Entry.file, phase |-> "sections", i |-> 0, k |-> 0, base |-> <<>>,
                       symtab |-> UNDEF, name |-> null, init |-> null, deinit |-> null,
                       values |-> [j \in DOMAIN Files[Entry.file].symbols |-> Files[Entry.file].symbols[j].value]]
           /\ held' = held \cup {<<Entry.file, "mod", 0>>, <<Entry.file, "sections", 0>>}
           /\ UNCHANGED <<at, outcome>>
  <2>1. Core'
    BY <1>1, <1>4, CoreBegins DEF Holds
  <2>2. PlacedInv'
    <3>1. load'.base = <<>>
      BY <1>4
    <3> QED
      BY <1>1, <3>1, PlacedBegins DEF Holds
  <2>3. LoadInv'
    <3>1. at.entry \in DOMAIN archive.table /\ Entry.size # 0
      BY <1>1, EntryThere DEF Holds, Core, Loading
    <3>2. Entry.file \in DOMAIN Files
      BY <3>1, NewFile DEF Holds, Core
    <3> QED
      BY <1>4, <3>2, LoadBegins
  <2> QED
    BY <1>2, <2>1, <2>2, <2>3 DEF Holds
<1> QED
  BY <1>1, <1>3, <1>4 DEF Begin

(* Only load moves.                                                        *)
LEMMA MovesHold ==
  ASSUME Holds, Moves, mem' = mem, LoadInv'
  PROVE  Holds'
<1>1. Core' /\ PlacedInv'
  BY CoreMoves, PlacedMoves DEF Holds
<1>2. LinkInv'
  BY SameLinks DEF Holds, Moves
<1> QED
  BY <1>1, <1>2 DEF Holds

LEMMA PlaceHolds ==
  ASSUME Holds, Sections, load.i \in Kept(load.file), load.i \notin Nameless(load.file), PlaceSection(load.i, Section(load.i)), UNCHANGED at
  PROVE  Holds'
<1> DEFINE i == load.i
<1>1. /\ load # null /\ load.phase = "sections" /\ UNCHANGED <<archive, at, modules, outcome>>
  BY DEF Sections, Phase
<1>2. PICK a \in Places(Section(i)) :
        /\ load' = [NextSection(i, Section(i)) EXCEPT
                      !.base = [j \in DOMAIN @ \cup {i} |-> IF j = i THEN a ELSE @[j]]]
        /\ held' = held \cup {<<load.file, what, i>> : what \in {"section", "p"}}
        /\ mem' = [x \in DOMAIN mem \cup a..(a + Section(i).size - 1) |->
                     IF x \in DOMAIN mem THEN mem[x]
                     ELSE IF Section(i).type = "NOBITS" THEN 0 ELSE Section(i).cells[x - a + 1]]
  BY DEF PlaceSection
<1>3. a \in Memory
  BY DEF Places
<1>4. /\ load'.file = load.file
      /\ load'.base = [j \in DOMAIN load.base \cup {i} |-> IF j = i THEN a ELSE load.base[j]]
      /\ load' \in Loads(load.file, DOMAIN load.base \cup {i})
      /\ Same /\ Stands("sections", load.i + 1, load.k)
  BY <1>1, <1>2, <1>3, SectionPlaced DEF Holds
<1>5. i \in DOMAIN Elf.sections
  BY DEF Kept, Elf
<1>6. i \notin DOMAIN load.base
  <2>1. DOMAIN load.base \subseteq 0..(load.i - 1) /\ load.i \in Nat
    BY <1>1, LoadFields DEF Holds, LoadInv, PhaseInv, Core
  <2> QED
    BY <2>1
<1>7. Core'
  BY <1>1, <1>2, <1>3, <1>4, <1>5, CorePlaces DEF Holds
<1>8. PlacedInv' /\ \A m \in On : Untouched(m)
  BY <1>1, <1>2, <1>4, <1>6, PlacedPlaces DEF Holds
<1>9. LoadInv'
  BY <1>1, <1>2, <1>4, <1>6, LoadPlaces DEF Holds
<1>10. LinkInv'
  <2>1. On' = On
    BY <1>1 DEF On, Image
  <2> QED
    BY <1>8, <2>1, LinksStay DEF Holds
<1> QED
  BY <1>7, <1>8, <1>9, <1>10 DEF Holds

LEMMA SectionsHold ==
  ASSUME Holds, Sections
  PROVE  Holds'
<1>1. load # null /\ load.phase = "sections" /\ UNCHANGED <<archive, modules, outcome>>
  BY DEF Sections, Phase
<1>2. load.i \in DOMAIN Elf.sections
  <2>1. load.i \in Nat /\ load.i < Cardinality(DOMAIN Files[load.file].sections)
    BY <1>1, LoadFields DEF Holds, Core, Sections, Shents, Elf
  <2>2. load.file \in DOMAIN Files
    BY <1>1, LoadFile DEF Holds, Core
  <2>3. /\ Cardinality(DOMAIN Files[load.file].sections) \in Nat
        /\ DOMAIN Files[load.file].sections = 0..(Cardinality(DOMAIN Files[load.file].sections) - 1)
    BY <2>2, SectionsAre
  <2> QED
    BY <2>1, <2>3, Within DEF Elf
<1>3. CASE Error
  BY <1>1, <1>3, ErrorHolds DEF Error
<1>4. CASE /\ load.i \notin Kept(load.file)
           /\ load' = NextSection(load.i, Section(load.i)) /\ UNCHANGED <<at, held, mem>>
  <2>0. load.i \notin Nameless(load.file)
    BY <1>4 DEF Nameless
  <2>1. Moves /\ Same /\ Stands("sections", load.i + 1, load.k)
    BY <1>1, <1>4, SectionSkips DEF Holds
  <2>2. LoadInv'
    BY <1>1, <1>4, <2>0, <2>1, LoadSkips DEF Holds
  <2> QED
    BY <1>4, <2>1, <2>2, MovesHold
<1>5. CASE /\ load.i \in Kept(load.file) /\ load.i \notin Nameless(load.file)
           /\ PlaceSection(load.i, Section(load.i)) /\ UNCHANGED at
  BY <1>5, PlaceHolds
<1>6. CASE load.i \in Nameless(load.file) /\ ErrorBut({<<load.file, "section", load.i>>})
  <2>1. load.file \in DOMAIN Files
    BY <1>1, LoadFile DEF Holds, Core
  <2>2. \A j \in Nameless(load.file) : load.i <= j
    BY <1>1 DEF Holds, LoadInv, PhaseInv
  <2>3. Lost(<<load.file, "section", load.i>>)
    BY <1>6, <2>1, <2>2 DEF Lost
  <2>4. \A h \in {<<load.file, "section", load.i>>} : Lost(h)
    BY <2>3
  <2> HIDE DEF Lost
  <2> QED
    BY <1>1, <1>6, <2>4, ErrorHolds
<1> QED
  BY <1>3, <1>4, <1>5, <1>6 DEF Sections

LEMMA SectionsDoneHolds ==
  ASSUME Holds, SectionsDone
  PROVE  Holds'
<1>1. load # null /\ load.phase = "sections" /\ UNCHANGED <<archive, modules, outcome>>
  BY DEF SectionsDone, Phase
<1>2. CASE Error
  BY <1>1, <1>2, ErrorHolds DEF Error
<1>3. CASE load' = [load EXCEPT !.phase = "symbols", !.i = 1] /\ UNCHANGED <<at, held, mem>>
  <2>1. Moves /\ Same /\ Stands("symbols", 1, load.k)
    BY <1>1, <1>3, SectionsEnd DEF Holds
  <2>2. LoadInv'
    BY <1>1, <1>3, <2>1, LoadSectionsEnd DEF Holds
  <2> QED
    BY <1>3, <2>1, <2>2, MovesHold
<1> QED
  BY <1>2, <1>3 DEF SectionsDone

LEMMA SymbolsHold ==
  ASSUME Holds, Symbols
  PROVE  Holds'
<1>1. /\ load # null /\ load.phase = "symbols" /\ load.i < Len(Elf.symbols)
      /\ UNCHANGED <<archive, modules, outcome>>
  BY DEF Symbols, Phase
<1>2. CASE Error
  BY <1>1, <1>2, ErrorHolds DEF Error
<1> DEFINE sym == Elf.symbols[load.i + 1]
<1>3. CASE /\ SymbolGood(sym)
           /\ load' = [load EXCEPT !.i = @ + 1, !.values[load.i + 1] = AddressOf(sym),
                                   !.name = Seen(sym, @, "loom_mod_name"),
                                   !.init = Seen(sym, @, "loomModInit"),
                                   !.deinit = Seen(sym, @, "loomModDeinit")]
           /\ UNCHANGED <<at, held, mem>>
  <2>1. /\ Moves /\ Stands("symbols", load.i + 1, load.k)
        /\ load'.values = [load.values EXCEPT ![load.i + 1] = Address(load.base, sym)]
        /\ load'.name = Seen(sym, load.name, "loom_mod_name")
        /\ load'.init = Seen(sym, load.init, "loomModInit")
        /\ load'.deinit = Seen(sym, load.deinit, "loomModDeinit")
        /\ load.i + 1 \in DOMAIN Elf.symbols
    BY <1>1, <1>3, SymbolPasses DEF Holds
  <2>2. LoadInv'
    BY <1>1, <1>3, <2>1, LoadSymbol DEF Holds
  <2> QED
    BY <1>3, <2>1, <2>2, MovesHold
<1> QED
  BY <1>2, <1>3 DEF Symbols, Seen

LEMMA SymbolsDoneHolds ==
  ASSUME Holds, SymbolsDone
  PROVE  Holds'
<1>1. /\ load # null /\ load.phase = "symbols" /\ load.i >= Len(Elf.symbols)
      /\ UNCHANGED <<archive, modules, outcome>>
  BY DEF SymbolsDone, Phase
<1>2. CASE Error
  BY <1>1, <1>2, ErrorHolds DEF Error
<1>3. CASE /\ load.name # null /\ load' = [load EXCEPT !.phase = "rels", !.i = 0, !.k = 1]
           /\ UNCHANGED <<at, held, mem>>
  <2>1. Moves /\ Same /\ Stands("rels", 0, 1)
    BY <1>1, <1>3, SymbolsEnd DEF Holds
  <2>2. LoadInv'
    BY <1>1, <1>3, <2>1, LoadSymbolsEnd DEF Holds
  <2> QED
    BY <1>3, <2>1, <2>2, MovesHold
<1> QED
  BY <1>2, <1>3 DEF SymbolsDone

LEMMA RelsHold ==
  ASSUME Holds, Rels
  PROVE  Holds'
<1> DEFINE s == Section(load.i)
           rel == Elf.rels[load.i][load.k]
           P == load.base[s.info] + rel.offset
           r == Fixup(rel.type, load.values[rel.sym + 1], mem[P], P)
<1>1. load # null /\ load.phase = "rels" /\ load.i < Shents /\ UNCHANGED <<archive, modules, outcome>>
  BY DEF Rels, Phase
<1>2. CASE Error
  BY <1>1, <1>2, ErrorHolds DEF Error
<1>3. CASE /\ s.type # "REL" \/ load.k > Len(Elf.rels[load.i])
           /\ load' = [load EXCEPT !.i = @ + 1, !.k = 1] /\ UNCHANGED <<at, held, mem>>
  <2>1. Moves /\ Same /\ Stands("rels", load.i + 1, 1)
    BY <1>1, <1>3, RelSectionEnds DEF Holds
  <2>2. LoadInv'
    BY <1>1, <1>3, <2>1, LoadRelSectionEnds DEF Holds
  <2> QED
    BY <1>3, <2>1, <2>2, MovesHold
<1>4. CASE /\ rel.type = "NONE" /\ load' = [load EXCEPT !.k = @ + 1] /\ UNCHANGED <<at, held, mem>>
  <2>1. Moves /\ Same /\ Stands("rels", load.i, load.k + 1)
    BY <1>1, <1>4, RelPasses DEF Holds
  <2>2. LoadInv'
    BY <1>1, <1>4, <2>1, LoadRelPasses DEF Holds
  <2> QED
    BY <1>4, <2>1, <2>2, MovesHold
<1>5. CASE /\ s.type = "REL" /\ ~ (load.k > Len(Elf.rels[load.i])) /\ RelGood(s, rel)
           /\ rel.type \in {"16", "PC16", "32", "PC32"}
           /\ load' = [load EXCEPT !.k = @ + 1] /\ UNCHANGED <<at, held>>
           /\ mem' = [mem EXCEPT ![P] = r % Width(rel.type)]
  <2>1. Moves /\ Same /\ Stands("rels", load.i, load.k + 1)
    BY <1>1, <1>5, RelPasses DEF Holds
  <2>2. Applies(P, rel)
    BY <1>1, <1>5 DEF Applies
  <2> HIDE DEF s, rel, P, r
  <2>3. LoadInv' /\ DOMAIN mem' = DOMAIN mem /\ \A m \in On : Untouched(m)
    BY <2>1, <2>2, LoadRelApplies DEF Holds
  <2>4. Core' /\ PlacedInv'
    BY <2>1, <2>3, CoreMoves, PlacedMoves DEF Holds
  <2>5. LinkInv'
    <3>1. On' = On
      BY <1>1 DEF On, Image
    <3> QED
      BY <2>3, <3>1, LinksStay DEF Holds
  <2> QED
    BY <2>3, <2>4, <2>5 DEF Holds
<1> QED
  BY <1>2, <1>3, <1>4, <1>5 DEF Rels

LEMMA LoadedHolds ==
  ASSUME Holds, Loaded
  PROVE  Holds'
<1>1. /\ load # null /\ load.phase = "rels" /\ load.i = Shents /\ load' = null
      /\ UNCHANGED <<archive, mem, outcome>>
  BY DEF Loaded, Phase
<1>2. Core'
  BY <1>1, CoreLoaded DEF Holds
<1>3. PICK m : /\ On' = On \cup {m}
               /\ m = [file |-> load.file, base |-> load.base, name |-> mem[Value(load.name)],
                       init |-> Value(load.init), deinit |-> Value(load.deinit)]
  BY <1>1, CoreLoaded DEF Holds
<1>4. m.file = load.file /\ m.base = load.base
  BY <1>3
<1>5. Bound(m) /\ Link(m, mem)
  BY <1>1, <1>3, LoadLinks DEF Holds
<1>6. PlacedInv'
  BY <1>1, <1>3, <1>4, PlacedLoaded DEF Holds
<1>7. LinkInv'
  BY <1>1, <1>3, <1>5 DEF Holds, LinkInv
<1>8. LoadInv'
  BY <1>1 DEF LoadInv
<1> QED
  BY <1>2, <1>6, <1>7, <1>8 DEF Holds

LEMMA RmmodHolds ==
  ASSUME Holds, NEW k \in DOMAIN modules, Rmmod(k)
  PROVE  Holds'
<1>1. Core' /\ On' = On \ {modules[k]}
  BY CoreRmmod DEF Holds
<1>2. PlacedInv' /\ \A m \in On' : Untouched(m)
  BY PlacedRmmod DEF Holds
<1>3. LinkInv'
  BY <1>1, <1>2, LinksStay DEF Holds
<1>4. LoadInv'
  BY DEF Rmmod, Started, LoadInv
<1> QED
  BY <1>1, <1>2, <1>3, <1>4 DEF Holds

(* Placements, symbols, relocations and lists stay right through every     *)
(* step of a load, its failure, and every removal (module.c:239-563).      *)
THEOREM ModulesInvariant == Spec => []IInv
<1>1. Init => IInv
  <2> SUFFICES ASSUME Init PROVE Holds
    BY DEF IInv
  <2>1. modules = <<>> /\ load = null /\ held = {} /\ mem = <<>> /\ archive \in Archives
        /\ at.entry = 1
    BY DEF Init
  <2>2. On = {}
    BY <2>1 DEF On, Image
  <2>3. TableInv
    BY <2>1, <2>2 DEF TableInv
  <2>4. ListInv
    <3>1. Len(modules) = 0 /\ DOMAIN modules = 1..0
      BY <2>1
    <3>2. modules = [k \in 1..0 |-> modules[k]]
      BY <2>1
    <3> QED
      BY <3>1, <3>2 DEF ListInv, List, Distinct
  <2>5. Typed /\ PlacedInv /\ LoadInv /\ LinkInv
    BY <2>1, <2>2 DEF Typed, PlacedInv, LoadInv, LinkInv
  <2>6. HeldInv
    BY <2>1, <2>2 DEF HeldInv, InUse, Used
  <2> QED
    BY <2>3, <2>4, <2>5, <2>6 DEF Holds, Core
<1>2. IInv /\ [Next]_vars => IInv'
  <2> SUFFICES ASSUME IInv, [Next]_vars, outcome' = "running" PROVE Holds'
    BY DEF IInv
  <2>1. CASE Panic
    BY <2>1 DEF Panic
  <2>2. CASE Begin
    <3>1. Holds
      BY <2>2 DEF Begin, Loading, IInv
    <3> QED
      BY <2>2, <3>1, BeginHolds
  <2>3. CASE Sections \/ SectionsDone \/ Symbols \/ SymbolsDone \/ Rels \/ Loaded
    <3>1. Holds
      BY <2>3 DEF Sections, SectionsDone, Symbols, SymbolsDone, Rels, Loaded, Phase, IInv
    <3> QED
      BY <2>3, <3>1, SectionsHold, SectionsDoneHolds, SymbolsHold, SymbolsDoneHolds, RelsHold, LoadedHolds
  <2>4. ASSUME NEW k \in DOMAIN modules, Rmmod(k) PROVE Holds'
    <3>1. Holds
      BY <2>4 DEF Rmmod, Started, IInv
    <3> QED
      BY <2>4, <3>1, RmmodHolds
  <2>5. CASE UNCHANGED vars
    <3>1. Holds
      BY <2>5 DEF vars, IInv
    <3>2. On' = On
      BY <2>5 DEF vars, On, Image
    <3>3. Core'
      BY <3>1, <3>2, <2>5 DEF vars, Holds, Core, Typed, TableInv, ListInv, HeldInv, InUse, Entry, Elf
    <3>4. PlacedInv' /\ LinkInv' /\ LoadInv'
      <4>1. mem' = mem /\ modules' = modules /\ load' = load
        BY <2>5 DEF vars
      <4> QED
        BY <3>1, <4>1, PlacedSkips, SameLinks DEF Holds, LoadInv
    <3> QED
      BY <3>3, <3>4 DEF Holds
  <2> QED
    BY <2>1, <2>2, <2>3, <2>4, <2>5 DEF Next
<1> QED
  BY <1>1, <1>2, PTL DEF Spec

(* A module on the list is linked as its file says: every relocated cell   *)
(* is right, and it is known and entered where its symbols say             *)
(* (module.c:302-431, platform/x86/rel.c:12-92).                           *)
THEOREM ModulesLinked == Spec => []Linked
<1>1. IInv => Linked
  BY DEF IInv, Holds, LinkInv, Linked, On, Image
<1> QED
  BY <1>1, ModulesInvariant, PTL

(* Between two files and after the last, the blocks in use are those of    *)
(* the modules on the list, and of a file whose section names are not all  *)
(* in its table the first such section (module.c:107-125, 433-440,         *)
(* 525-563).                                                               *)
THEOREM ModulesOnlyHold == Spec => []OnlyModulesHold
<1>1. IInv => OnlyModulesHold
  <2> DEFINE used == UNION {HeldBy(modules[k]) : k \in DOMAIN modules}
  <2> SUFFICES ASSUME IInv, load = null, outcome = "running"
               PROVE  used \subseteq held /\ \A h \in held \ used : Lost(h)
    BY DEF OnlyModulesHold
  <2>1. InUse = Used(On)
    BY DEF InUse
  <2>2. Used(On) = used
    BY DEF Used, On, Image
  <2>3. HeldInv
    BY DEF IInv, Holds, Core
  <2> QED
    BY <2>1, <2>2, <2>3 DEF HeldInv
<1> QED
  BY <1>1, ModulesInvariant, PTL
=============================================================================
