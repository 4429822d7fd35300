--------------------------- MODULE BlockDevProofs ---------------------------
(***************************************************************************)
(* BlockDev for every tree of partitions, every block size and every cache *)
(* size: types, isolation of partitions, and that reads return the bytes   *)
(* of the device.                                                          *)
(***************************************************************************)
EXTENDS BlockDev, WellFoundedInduction, FiniteSetTheorems, SequenceTheorems, TLAPS

(* The least element of a set of numbers: induction without an operator.   *)
LEMMA LeastElement ==
  ASSUME NEW T \in SUBSET Nat, T # {}
  PROVE  \E m \in T : \A k \in T : m <= k
<1> DEFINE R == {ss \in Nat \X Nat : ss[1] < ss[2]}
<1>1. IsWellFoundedOn(R, Nat)
  BY NatLessThanWellFounded, Zenon DEF OpToRel
<1>2. PICK x \in T : \A y \in T : ~ (<<y, x>> \in R)
  BY <1>1, WFMin
<1>3. ASSUME NEW y \in T PROVE x <= y
  <2>1. ~ (y < x)
    BY <1>2
  <2> QED
    BY <2>1
<1> QED
  BY <1>3

(* h follows g from a, n times.                                            *)
Follows(h, n, a, g) == \A k \in 0..n : h[k] = IF k = 0 THEN a ELSE g[h[k - 1]]

(* Following a function from a is defined as far as one likes.             *)
LEMMA FollowingExists ==
  ASSUME NEW S, NEW a \in S, NEW g \in [S -> S], NEW N \in Nat
  PROVE  \E h \in [0..N -> S] : Follows(h, N, a, g)
<1> DEFINE T == {n \in Nat : ~ \E h \in [0..n -> S] : Follows(h, n, a, g)}
<1>1. T = {}
  <2> SUFFICES ASSUME T # {} PROVE FALSE
    OBVIOUS
  <2>1. PICK m \in T : \A k \in T : m <= k
    <3>1. T \in SUBSET Nat
      OBVIOUS
    <3> HIDE DEF T
    <3> QED
      BY <3>1, LeastElement
  <2>2. m # 0
    <3> DEFINE z == [k \in 0..0 |-> a]
    <3>1. Follows(z, 0, a, g) /\ z \in [0..0 -> S]
      BY DEF Follows
    <3> QED
      BY <2>1, <3>1
  <2>3. m - 1 \in Nat /\ m - 1 \notin T
    <3>1. m \in Nat /\ m - 1 \in Nat
      BY <2>1, <2>2
    <3>2. ~ (m <= m - 1)
      BY <3>1
    <3> HIDE DEF T
    <3> QED
      BY <2>1, <3>1, <3>2
  <2>4. PICK h \in [0..(m - 1) -> S] : Follows(h, m - 1, a, g)
    BY <2>3
  <2> DEFINE hh == [k \in 0..m |-> IF k = m THEN g[h[m - 1]] ELSE h[k]]
  <2>5. hh \in [0..m -> S]
    <3>1. ASSUME NEW k \in 0..m PROVE (IF k = m THEN g[h[m - 1]] ELSE h[k]) \in S
      BY <2>2, <2>3, <2>4
    <3> QED
      BY <3>1
  <2>6. ASSUME NEW k \in 0..m PROVE hh[k] = IF k = 0 THEN a ELSE g[hh[k - 1]]
    <3>1. CASE k = m
      BY <3>1, <2>2, <2>3
    <3>2. CASE k # m
      <4>1. k \in 0..(m - 1)
        BY <3>2, <2>3
      <4>2. h[k] = IF k = 0 THEN a ELSE g[h[k - 1]]
        BY <2>4, <4>1 DEF Follows
      <4> QED
        BY <4>1, <4>2, <3>2
    <3> QED
      BY <3>1, <3>2
  <2>7. m \in Nat /\ ~ \E f \in [0..m -> S] : Follows(f, m, a, g)
    BY <2>1
  <2> HIDE DEF hh
  <2> QED
    BY <2>5, <2>6, <2>7 DEF Follows
<1> QED
  BY <1>1

LEMMA FollowingType ==
  ASSUME NEW S, NEW a \in S, NEW g \in [S -> S], NEW N \in Nat,
         NEW f, Follows(f, N, a, g)
  PROVE  \A n \in 0..N : f[n] \in S
<1> DEFINE B == {n \in 0..N : f[n] \notin S}
<1>2. B = {}
  <2> SUFFICES ASSUME B # {} PROVE FALSE
    OBVIOUS
  <2>1. B \in SUBSET Nat
    OBVIOUS
  <2>2. PICK m \in B : \A k \in B : m <= k
    <3> HIDE DEF B
    <3> QED
      BY LeastElement, <2>1
  <2>3. f[m] = IF m = 0 THEN a ELSE g[f[m - 1]]
    BY <2>2 DEF Follows
  <2>4. m # 0
    BY <2>2, <2>3
  <2>5. m - 1 \in 0..N /\ ~ (m <= m - 1)
    BY <2>2, <2>4
  <2>6. m - 1 \notin B
    <3> HIDE DEF B
    <3> QED
      BY <2>2, <2>5
  <2> QED
    BY <2>2, <2>3, <2>4, <2>5, <2>6
<1>3. \A n \in 0..N : f[n] \in S
  BY <1>2
<1> QED
  BY <1>3

----------------------------------------------------------------------------
(* The ring.                                                               *)
LEMMA EntriesType == Entries \in Nat \ {0}
  BY DevicesAssumption

LEMMA RingFollows ==
  ASSUME NEW c \in CacheType
  PROVE  /\ Ring(c) \in [0..(Entries - 1) -> Entry]
         /\ Ring(c)[0] = c.mru
         /\ \A n \in 1..(Entries - 1) : Ring(c)[n] = c.next[Ring(c)[n - 1]]
<1> DEFINE N == Entries - 1
           a == c.mru
           g == c.next
           nth[n \in 0..N] == IF n = 0 THEN a ELSE g[nth[n - 1]]
<1>1. Ring(c) = nth
  BY DEF Ring
<1>2. a \in Entry /\ g \in [Entry -> Entry] /\ N \in Nat
  BY EntriesType DEF CacheType
<1> HIDE DEF N, a, g
<1>3. PICK h \in [0..N -> Entry] : Follows(h, N, a, g)
  BY <1>2, FollowingExists
<1>4. h = [n \in 0..N |-> IF n = 0 THEN a ELSE g[h[n - 1]]]
  BY <1>3 DEF Follows
<1>5. nth = [n \in 0..N |-> IF n = 0 THEN a ELSE g[nth[n - 1]]]
  BY <1>4
<1> HIDE DEF nth
<1>6. Follows(nth, N, a, g)
  BY <1>5 DEF Follows
<1>7. \A n \in 0..N : nth[n] \in Entry
  BY <1>2, <1>6, FollowingType
<1>8. nth[0] = a /\ \A n \in 1..N : nth[n] = g[nth[n - 1]]
  BY <1>2, <1>6 DEF Follows
<1>9. nth \in [0..N -> Entry]
  BY <1>5, <1>7
<1> QED
  BY <1>1, <1>8, <1>9 DEF N, a, g

(* No entries but all of them are closed under next: the ring is one ring. *)
Cyclic(c) == \A S \in SUBSET Entry : S # {} /\ (\A e \in S : c.next[e] \in S) => S = Entry
LinksAgree(c) == \A e \in Entry : c.prev[c.next[e]] = e /\ c.next[c.prev[e]] = e
RingInv(c) == c \in CacheType /\ LinksAgree(c) /\ Cyclic(c)

LEMMA EntryFinite == IsFiniteSet(Entry) /\ Cardinality(Entry) = Entries
<1>1. Entries \in Nat
  BY EntriesType
<1>2. IsFiniteSet(1..Entries) /\ Cardinality(1..Entries) = Entries
  <2>1. 1 \in Int /\ Entries \in Int
    BY <1>1
  <2>2. IsFiniteSet(1..Entries)
    BY <2>1, FS_Interval
  <2>3. Cardinality(1..Entries) = IF 1 > Entries THEN 0 ELSE Entries - 1 + 1
    BY <2>1, FS_Interval
  <2> QED
    BY <2>2, <2>3, EntriesType
<1> QED
  BY <1>2 DEF Entry

(* Following next meets every entry within as many steps as there are      *)
(* entries, or some entry twice on the way, and then all of them before.   *)
LEMMA RingCovers ==
  ASSUME NEW c, RingInv(c)
  PROVE  {Ring(c)[n] : n \in 0..(Entries - 1)} = Entry
<1> DEFINE N == Entries - 1
           R == Ring(c)
           V == {R[n] : n \in 0..N}
<1>1. N \in Nat /\ N + 1 = Entries
  BY EntriesType
<1>2. R \in [0..N -> Entry] /\ R[0] = c.mru /\ \A n \in 1..N : R[n] = c.next[R[n - 1]]
  BY RingFollows DEF RingInv
<1> HIDE DEF R, N
<1>3. \A j \in 1..N : \A i \in 0..(j - 1) : R[i] = R[j] => V = Entry
  <2> SUFFICES ASSUME NEW j \in 1..N, NEW i \in 0..(j - 1), R[i] = R[j]
               PROVE  V = Entry
    OBVIOUS
  <2> DEFINE W == {R[k] : k \in 0..(j - 1)}
  <2>1. W \in SUBSET Entry /\ W # {}
    BY <1>1, <1>2
  <2>2. ASSUME NEW k \in 0..(j - 1) PROVE c.next[R[k]] \in W
    <3>1. k + 1 \in 1..N /\ (k + 1) - 1 = k
      BY <1>1
    <3>2. c.next[R[k]] = R[k + 1]
      BY <1>2, <3>1
    <3>3. CASE k + 1 = j
      BY <3>2, <3>3
    <3>4. CASE k + 1 # j
      <4>1. k + 1 \in 0..(j - 1)
        BY <1>1, <3>4
      <4> QED
        BY <3>2, <4>1
    <3> QED
      BY <3>3, <3>4
  <2>3. \A e \in W : c.next[e] \in W
    BY <2>2
  <2>4. W = Entry
    <3> HIDE DEF W
    <3> QED
      BY <2>1, <2>3 DEF RingInv, Cyclic
  <2>5. W \subseteq V /\ V \subseteq Entry
    BY <1>1, <1>2
  <2> QED
    BY <2>4, <2>5
<1>4. ASSUME V # Entry PROVE FALSE
  <2>1. V \subseteq Entry
    BY <1>2
  <2>2. IsFiniteSet(V) /\ Cardinality(V) < Cardinality(Entry)
    <3> HIDE DEF V
    <3>1. IsFiniteSet(V) /\ Cardinality(V) <= Cardinality(Entry)
          /\ (Cardinality(V) = Cardinality(Entry) => V = Entry)
      BY <2>1, EntryFinite, FS_Subset
    <3>2. Cardinality(V) \in Nat /\ Cardinality(Entry) \in Nat
      BY <3>1, EntryFinite, FS_CardinalityType
    <3> QED
      BY <1>4, <3>1, <3>2
  <2>3. IsFiniteSet(0..N) /\ Cardinality(0..N) = Entries
    <3>1. 0 \in Int /\ N \in Int /\ ~ (0 > N) /\ N - 0 + 1 = Entries
      BY <1>1
    <3> QED
      BY <3>1, FS_Interval
  <2>4. R \in [0..N -> V]
    BY <1>2
  <2>5. \E x, y \in 0..N : x # y /\ R[x] = R[y]
    <3> HIDE DEF V
    <3> QED
      BY <2>2, <2>3, <2>4, EntryFinite, FS_PigeonHole
  <2>6. PICK x \in 0..N : \E y \in 0..N : x # y /\ R[x] = R[y]
    BY <2>5
  <2>7. PICK y \in 0..N : x # y /\ R[x] = R[y]
    BY <2>6
  <2> HIDE DEF V
  <2>8. CASE x < y
    <3>1. y \in 1..N /\ x \in 0..(y - 1)
      BY <1>1, <2>8
    <3> QED
      BY <1>3, <1>4, <2>7, <3>1
  <2>9. CASE y < x
    <3>1. x \in 1..N /\ y \in 0..(x - 1)
      BY <1>1, <2>9
    <3> QED
      BY <1>3, <1>4, <2>7, <3>1
  <2> QED
    BY <1>1, <2>7, <2>8, <2>9
<1> QED
  BY <1>4 DEF R, N

LEMMA CacheInitRing == RingInv(CacheInit)
<1> DEFINE c == CacheInit
<1>1. Entries \in Nat \ {0} /\ 1 \in Entry /\ Entries \in Entry
  BY EntriesType DEF Entry
<1>2. /\ c.next = [e \in Entry |-> IF e = 1 THEN Entries ELSE e - 1]
      /\ c.prev = [e \in Entry |-> IF e = Entries THEN 1 ELSE e + 1]
  BY DEF CacheInit
<1>3. c \in CacheType
  BY EntriesType DEF CacheInit, CacheType, Entry
<1>4. LinksAgree(c)
  BY EntriesType DEF CacheInit, LinksAgree, Entry
<1> HIDE DEF c
<1>5. ASSUME NEW S \in SUBSET Entry, S # {}, \A e \in S : c.next[e] \in S
      PROVE  S = Entry
  <2>1. S \in SUBSET Nat
    BY DEF Entry
  <2>2. PICK m \in S : \A k \in S : m <= k
    BY <1>5, <2>1, LeastElement
  <2>3. m = 1
    <3> SUFFICES ASSUME m # 1 PROVE FALSE
      OBVIOUS
    <3>1. m - 1 \in S
      BY <1>2, <1>5
    <3> QED
      BY <2>1, <2>2, <3>1
  <2>4. Entries \in S
    BY <1>1, <1>2, <1>5, <2>2, <2>3
  <2> DEFINE T == {n \in 0..(Entries - 1) : Entries - n \notin S}
  <2>5. T = {}
    <3> SUFFICES ASSUME T # {} PROVE FALSE
      OBVIOUS
    <3>1. T \in SUBSET Nat
      OBVIOUS
    <3>2. PICK n \in T : \A k \in T : n <= k
      <4> HIDE DEF T
      <4> QED
        BY <3>1, LeastElement
    <3>3. n \in 0..(Entries - 1) /\ n # 0 /\ Entries - n \notin S
      BY <1>1, <2>4, <3>2
    <3>4. n - 1 \in 0..(Entries - 1) /\ ~ (n <= n - 1)
      BY <1>1, <3>3
    <3>5. n - 1 \notin T
      <4> HIDE DEF T
      <4> QED
        BY <3>2, <3>4
    <3>6. Entries - (n - 1) \in S
      BY <3>4, <3>5
    <3>7. c.next[Entries - (n - 1)] = Entries - n
      BY <1>1, <1>2, <3>3 DEF Entry
    <3> QED
      BY <1>5, <3>3, <3>6, <3>7
  <2>6. ASSUME NEW e \in Entry PROVE e \in S
    <3>1. Entries - e \in 0..(Entries - 1) /\ Entries - (Entries - e) = e
      BY <1>1 DEF Entry
    <3>2. Entries - e \notin T
      BY <2>5
    <3> QED
      BY <3>1, <3>2
  <2> QED
    BY <2>6
<1>6. Cyclic(c)
  BY <1>5 DEF Cyclic
<1> QED
  BY <1>3, <1>4, <1>6 DEF RingInv, c

(* Moving an entry to the head: it is unlinked where it was, between p and *)
(* n, and linked before the old head m, after t.                           *)
LEMMA TouchLinks ==
  ASSUME NEW c, RingInv(c), NEW e \in Entry, e # c.mru,
         NEW m, m = c.mru, NEW p, p = c.prev[e], NEW n, n = c.next[e],
         NEW t, t = (IF m = n THEN p ELSE c.prev[m]),
         NEW w, w = Touch(c, e)
  PROVE  /\ w \in CacheType /\ w.mru = e /\ w.block = c.block /\ w.data = c.data
         /\ m \in Entry /\ p \in Entry /\ n \in Entry /\ t \in Entry
         /\ p # e /\ n # e /\ t # e
         /\ w.next[e] = m /\ w.next[t] = e
         /\ p # t => w.next[p] = n
         /\ \A x \in Entry \ {e, t, p} : w.next[x] = c.next[x]
         /\ w.prev[e] = t /\ w.prev[m] = e
         /\ n # m => w.prev[n] = p
         /\ \A x \in Entry \ {e, m, n} : w.prev[x] = c.prev[x]
<1> DEFINE u == Unlink(c, e)
<1>1. /\ c \in CacheType /\ c.mru \in Entry
      /\ c.next \in [Entry -> Entry] /\ c.prev \in [Entry -> Entry]
  BY DEF RingInv, CacheType
<1>2. \A x \in Entry : c.prev[c.next[x]] = x /\ c.next[c.prev[x]] = x
  BY DEF RingInv, LinksAgree
<1>3. p \in Entry /\ n \in Entry /\ m \in Entry
  BY <1>1
<1>4. p # e /\ n # e
  <2>1. n = e => {e} = Entry
    BY DEF RingInv, Cyclic
  <2>2. n # e
    BY <1>1, <2>1
  <2> QED
    BY <1>2, <2>2
<1>5. /\ u \in CacheType
      /\ u.next = [c.next EXCEPT ![p] = n]
      /\ u.prev = [c.prev EXCEPT ![n] = p]
      /\ u.mru = m /\ u.block = c.block /\ u.data = c.data
  BY <1>1, <1>3 DEF Unlink, CacheType
<1>6. t \in Entry /\ t = u.prev[m] /\ t # e
  BY <1>1, <1>2, <1>3, <1>4, <1>5
<1>7. w = LinkMruHead(u, e)
  BY DEF Touch
<1> HIDE DEF u
<1>8. w = [u EXCEPT !.next = [u.next EXCEPT ![e] = m, ![t] = e],
                    !.prev = [u.prev EXCEPT ![e] = t, ![m] = e],
                    !.mru = e]
  BY <1>5, <1>6, <1>7 DEF LinkMruHead
<1>9. /\ DOMAIN u = {"mru", "next", "prev", "block", "data"}
      /\ u = [mru |-> u.mru, next |-> u.next, prev |-> u.prev,
              block |-> u.block, data |-> u.data]
  BY <1>5 DEF CacheType
<1>10. /\ w.next = [u.next EXCEPT ![e] = m, ![t] = e]
       /\ w.prev = [u.prev EXCEPT ![e] = t, ![m] = e]
       /\ w.mru = e /\ w.block = u.block /\ w.data = u.data
  BY <1>8, <1>9
<1>11. w = [mru |-> w.mru, next |-> w.next, prev |-> w.prev,
            block |-> w.block, data |-> w.data]
  BY <1>8, <1>9
<1>12. /\ u.next \in [Entry -> Entry] /\ u.prev \in [Entry -> Entry]
       /\ u.block \in [Entry -> Nat \cup {Unset}] /\ u.data \in [Entry -> Nat \cup {Stale}]
  BY <1>5 DEF CacheType
<1>13. w.next \in [Entry -> Entry] /\ w.prev \in [Entry -> Entry]
  BY <1>3, <1>6, <1>10, <1>12
<1>14. w \in CacheType
  BY <1>10, <1>11, <1>12, <1>13 DEF CacheType
<1>15. /\ w.next[e] = m /\ w.next[t] = e
       /\ p # t => w.next[p] = n
       /\ \A x \in Entry \ {e, t, p} : w.next[x] = c.next[x]
  BY <1>1, <1>3, <1>4, <1>5, <1>6, <1>10, <1>12
<1>16. /\ w.prev[e] = t /\ w.prev[m] = e
       /\ n # m => w.prev[n] = p
       /\ \A x \in Entry \ {e, m, n} : w.prev[x] = c.prev[x]
  BY <1>1, <1>3, <1>4, <1>5, <1>6, <1>10, <1>12
<1>17. w.mru = e /\ w.block = c.block /\ w.data = c.data
  BY <1>5, <1>10
<1> QED
  BY <1>3, <1>4, <1>6, <1>14, <1>15, <1>16, <1>17

(* The ring stays one ring, with the entry at its head.                    *)
LEMMA TouchKeepsRing ==
  ASSUME NEW c, RingInv(c), NEW e \in Entry
  PROVE  /\ RingInv(Touch(c, e)) /\ Touch(c, e).mru = e
         /\ Touch(c, e).block = c.block /\ Touch(c, e).data = c.data
<1>1. /\ c \in CacheType /\ c.mru \in Entry
      /\ c.next \in [Entry -> Entry] /\ c.prev \in [Entry -> Entry]
  BY DEF RingInv, CacheType
<1>2. \A x \in Entry : c.prev[c.next[x]] = x /\ c.next[c.prev[x]] = x
  BY DEF RingInv, LinksAgree
<1>3. CASE e = c.mru
  BY <1>3 DEF Touch
<1>4. CASE e # c.mru
  <2> DEFINE m == c.mru
             p == c.prev[e]
             n == c.next[e]
             t == IF m = n THEN p ELSE c.prev[m]
             w == Touch(c, e)
  <2>1. t = (IF m = n THEN p ELSE c.prev[m])
    OBVIOUS
  <2>8. c.next[p] = e /\ c.prev[n] = e /\ c.prev[e] = p /\ c.next[e] = n
    BY <1>2
  <2>9. /\ m = n => t = p
        /\ m # n => t # p /\ c.next[t] = m /\ c.prev[m] = t
    <3>1. p # c.prev[m] \/ e = m
      BY <1>1, <1>2
    <3> QED
      BY <1>1, <1>2, <1>4, <3>1
  <2>2. m = c.mru /\ p = c.prev[e] /\ n = c.next[e] /\ w = Touch(c, e)
    OBVIOUS
  <2> HIDE DEF m, p, n, t, w
  <2>3. /\ w \in CacheType /\ w.mru = e /\ w.block = c.block /\ w.data = c.data
        /\ m \in Entry /\ p \in Entry /\ n \in Entry /\ t \in Entry
        /\ p # e /\ n # e /\ t # e
        /\ w.next[e] = m /\ w.next[t] = e
        /\ p # t => w.next[p] = n
        /\ \A x \in Entry \ {e, t, p} : w.next[x] = c.next[x]
        /\ w.prev[e] = t /\ w.prev[m] = e
        /\ n # m => w.prev[n] = p
        /\ \A x \in Entry \ {e, m, n} : w.prev[x] = c.prev[x]
    BY <1>4, <2>1, <2>2, TouchLinks
  <2>10. LinksAgree(w)
    <3>1. ASSUME NEW x \in Entry PROVE w.prev[w.next[x]] = x
      <4>1. CASE x = e \/ x = t
        BY <2>3, <4>1
      <4>2. CASE x = p /\ p # t
        BY <2>3, <2>9, <4>2
      <4>3. CASE x \notin {e, t, p}
        <5>1. w.next[x] = c.next[x] /\ c.next[x] \in Entry /\ c.prev[c.next[x]] = x
          BY <1>1, <1>2, <2>3, <4>3
        <5>2. c.next[x] \notin {e, m, n}
          BY <1>2, <2>8, <2>9, <4>3, <5>1
        <5> QED
          BY <2>3, <5>1, <5>2
      <4> QED
        BY <4>1, <4>2, <4>3
    <3>2. ASSUME NEW x \in Entry PROVE w.next[w.prev[x]] = x
      <4>1. CASE x = e \/ x = m
        BY <2>3, <4>1
      <4>2. CASE x = n /\ n # m
        BY <2>3, <2>9, <4>2
      <4>3. CASE x \notin {e, m, n}
        <5>1. w.prev[x] = c.prev[x] /\ c.prev[x] \in Entry /\ c.next[c.prev[x]] = x
          BY <1>1, <1>2, <2>3, <4>3
        <5>2. c.prev[x] \notin {e, t, p}
          BY <1>2, <2>8, <2>9, <4>3, <5>1
        <5> QED
          BY <2>3, <5>1, <5>2
      <4> QED
        BY <4>1, <4>2, <4>3
    <3> QED
      BY <3>1, <3>2 DEF LinksAgree
  <2>11. ASSUME NEW S \in SUBSET Entry, S # {}, \A x \in S : w.next[x] \in S
         PROVE  S = Entry
    <3>1. \A Z \in SUBSET Entry : Z # {} /\ (\A x \in Z : c.next[x] \in Z) => Z = Entry
      BY DEF RingInv, Cyclic
    <3>2. p \in S
      <4> SUFFICES ASSUME p \notin S PROVE FALSE
        OBVIOUS
      <4> DEFINE Z == S \ {e}
      <4>1. Z # {}
        BY <1>4, <2>3, <2>11 DEF m
      <4>2. ASSUME NEW x \in Z PROVE c.next[x] \in Z
        <5>1. x \in Entry /\ x # p /\ x # e
          OBVIOUS
        <5>2. c.next[x] # e
          BY <1>2, <2>8, <5>1
        <5>3. c.next[x] \in S
          BY <2>3, <2>9, <2>11, <5>1
        <5> QED
          BY <5>2, <5>3
      <4>3. Z = Entry
        <5>1. Z \in SUBSET Entry
          OBVIOUS
        <5> HIDE DEF Z
        <5> QED
          BY <3>1, <4>1, <4>2, <5>1
      <4> QED
        BY <4>3
    <3>3. n \in S
      BY <2>3, <2>9, <2>11, <3>2
    <3> DEFINE Z == S \cup {e}
    <3>4. ASSUME NEW x \in Z PROVE c.next[x] \in Z
      BY <2>3, <2>8, <2>9, <2>11, <3>3
    <3>5. Z = Entry
      <4>1. Z \in SUBSET Entry /\ Z # {}
        OBVIOUS
      <4> HIDE DEF Z
      <4> QED
        BY <3>1, <3>4, <4>1
    <3>6. e \in S
      BY <2>3, <2>11, <3>5
    <3> QED
      BY <3>5, <3>6
  <2>12. Cyclic(w)
    BY <2>11 DEF Cyclic
  <2> QED
    BY <2>3, <2>10, <2>12 DEF RingInv, w
<1> QED
  BY <1>3, <1>4
----------------------------------------------------------------------------
USE DevicesAssumption, StartAssumption
----------------------------------------------------------------------------
(* Division.                                                               *)
LEMMA DivMod ==
  ASSUME NEW a \in Nat, NEW b \in Nat \ {0}
  PROVE  /\ a \div b \in Nat
         /\ a % b \in 0..(b - 1)
         /\ a = b * (a \div b) + (a % b)
  OBVIOUS

LEMMA ProductNat ==
  ASSUME NEW a \in Nat, NEW b \in Nat
  PROVE  a * b \in Nat
  OBVIOUS

LEMMA BlockOfOffset ==
  ASSUME NEW off \in Nat
  PROVE  /\ BlockOf(off) \in Nat
         /\ off % BlockSize \in 0..(BlockSize - 1)
         /\ off = BlockSize * BlockOf(off) + (off % BlockSize)
  BY DivMod DEF BlockOf

LEMMA ShiftType ==
  ASSUME NEW d \in Devices, NEW b \in Nat
  PROVE  Shift(d, b) \in Nat /\ Shift(d, b) = b + Start[d]
  BY DEF Shift

(* The parts of a read: bytes before the first block boundary, whole       *)
(* blocks, bytes behind the last boundary.                                 *)
LEMMA Parts ==
  ASSUME NEW off \in Nat, NEW size \in Nat
  PROVE  /\ First(off, size) \in 0..size
         /\ Whole(off, size) \in Nat
         /\ Last(off, size) \in 0..(BlockSize - 1)
         /\ size = First(off, size) + BlockSize * Whole(off, size) + Last(off, size)
         /\ off % BlockSize = 0 => First(off, size) = 0
         /\ off % BlockSize # 0 => First(off, size) <= BlockSize - (off % BlockSize)
         /\ off % BlockSize # 0 /\ Whole(off, size) + Last(off, size) > 0
              => First(off, size) = BlockSize - (off % BlockSize)
<1>1. off % BlockSize \in 0..(BlockSize - 1)
  BY DivMod
<1>2. /\ First(off, size) \in 0..size
      /\ off % BlockSize = 0 => First(off, size) = 0
      /\ off % BlockSize # 0 => First(off, size) <= BlockSize - (off % BlockSize)
      /\ off % BlockSize # 0 /\ size # First(off, size)
           => First(off, size) = BlockSize - (off % BlockSize)
  BY <1>1 DEF First, Least
<1> DEFINE rest == size - First(off, size)
<1>3. rest \in Nat
  BY <1>2
<1>4. /\ rest \div BlockSize \in Nat
      /\ rest % BlockSize \in 0..(BlockSize - 1)
      /\ rest = BlockSize * (rest \div BlockSize) + (rest % BlockSize)
  <2> HIDE DEF rest
  <2> QED
    BY <1>3, DivMod
<1>5. Whole(off, size) = rest \div BlockSize /\ Last(off, size) = rest % BlockSize
  BY DEF Whole, Last
<1>6. rest = BlockSize * Whole(off, size) + Last(off, size)
  BY <1>4, <1>5
<1>7. Whole(off, size) \in Nat /\ Last(off, size) \in 0..(BlockSize - 1)
  BY <1>4, <1>5
<1>8. size = First(off, size) => Whole(off, size) = 0 /\ Last(off, size) = 0
  <2> SUFFICES ASSUME size = First(off, size)
               PROVE  Whole(off, size) = 0 /\ Last(off, size) = 0
    OBVIOUS
  <2>1. BlockSize * Whole(off, size) + Last(off, size) = 0
    BY <1>2, <1>6
  <2>2. BlockSize * Whole(off, size) \in Nat
    BY <1>7
  <2>3. BlockSize * Whole(off, size) = 0 /\ Last(off, size) = 0
    BY <2>1, <2>2, <1>7
  <2> QED
    BY <2>3, <1>7
<1>9. BlockSize * Whole(off, size) \in Nat
  BY <1>7
<1>10. size = First(off, size) + BlockSize * Whole(off, size) + Last(off, size)
  BY <1>2, <1>6, <1>7, <1>9
<1> QED
  BY <1>2, <1>7, <1>8, <1>10
----------------------------------------------------------------------------
(* Requests.                                                               *)
Request == [block : Nat, count : Nat \ {0}, area : {"scratch", "buf", "entry"}, at : Nat]

LEMMA RequestsType ==
  ASSUME NEW off \in Nat, NEW size \in Nat
  PROVE  Requests(off, size) \subseteq Request
<1>1. BlockOf(off) \in Nat
  BY BlockOfOffset
<1>2. Whole(off, size) \in Nat /\ First(off, size) \in 0..size
  BY Parts
<1>3. First(off, size) \in Nat
  BY <1>2
<1> QED
  BY <1>1, <1>2, <1>3 DEF Requests, Request

(* A request that readv does not refuse stays inside all partitions it     *)
(* goes through.                                                           *)
LEMMA InRangeInside ==
  ASSUME NEW d \in Devices, NEW r \in Request, InRange(d, r), NEW p \in Through[d]
  PROVE  Shift(d, r.block)..(Shift(d, r.block) + r.count - 1)
           \subseteq Start[p]..(Start[p] + Blocks[p] - 1)
<1>1. d # Disk /\ d \in Partitions
  BY DEF Partitions
<1>2. p \in Partitions /\ p \in Devices /\ Start[p] <= Start[d] /\ Start[p] \in Nat
  BY <1>1 DEF Partitions
<1>3. r.block \in Nat /\ r.count \in Nat
  BY DEF Request
<1>4. Shift(d, r.block) = r.block + Start[d] /\ Start[d] \in Nat
  BY <1>3, ShiftType
<1>5. Shift(d, r.block) + r.count - 1 - Start[p] < Blocks[p] /\ Blocks[p] \in Nat
  BY <1>2 DEF InRange
<1> QED
  BY <1>2, <1>3, <1>4, <1>5

LEMMA ReadVAnswers ==
  ASSUME NEW d \in Devices, NEW reqs, NEW o \in ReadV(d, reqs)
  PROVE  /\ o.error \in {"NONE", "IO", "RANGE"}
         /\ o.error # "RANGE" => \A r \in reqs : InRange(d, r)
         /\ o.error = "NONE" => o.arrived = reqs /\ \A r \in reqs : OnDisk(d, r)
  BY DEF ReadV

LEMMA SentInside ==
  ASSUME NEW d \in Devices, NEW reqs \in SUBSET Request, NEW o \in ReadV(d, reqs)
  PROVE  /\ Sent(d, reqs, o.error) \subseteq Nat
         /\ \A p \in Through[d] :
              Sent(d, reqs, o.error) \subseteq Start[p]..(Start[p] + Blocks[p] - 1)
<1>1. CASE o.error = "RANGE"
  BY <1>1 DEF Sent
<1>2. CASE o.error # "RANGE"
  <2>1. \A r \in reqs : InRange(d, r)
    BY <1>2, ReadVAnswers
  <2>2. Sent(d, reqs, o.error) =
          UNION {Shift(d, r.block)..(Shift(d, r.block) + r.count - 1) : r \in reqs}
    BY <1>2 DEF Sent
  <2>3. ASSUME NEW r \in reqs
        PROVE  Shift(d, r.block)..(Shift(d, r.block) + r.count - 1) \subseteq Nat
    <3>1. r.block \in Nat /\ r.count \in Nat
      BY DEF Request
    <3>2. Shift(d, r.block) \in Nat
      BY <3>1, ShiftType
    <3> QED
      BY <3>1, <3>2
  <2>4. ASSUME NEW p \in Through[d]
        PROVE  Sent(d, reqs, o.error) \subseteq Start[p]..(Start[p] + Blocks[p] - 1)
    <3>1. ASSUME NEW r \in reqs
          PROVE  Shift(d, r.block)..(Shift(d, r.block) + r.count - 1)
                   \subseteq Start[p]..(Start[p] + Blocks[p] - 1)
      BY <2>1, InRangeInside
    <3> QED
      BY <2>2, <3>1
  <2> QED
    BY <2>2, <2>3, <2>4
<1> QED
  BY <1>1, <1>2

(* A read the disk answers without error lies inside the device.           *)
LEMMA InsideDevice ==
  ASSUME NEW d \in Devices, NEW r \in Request, InRange(d, r), OnDisk(d, r)
  PROVE  r.block + r.count <= Blocks[d]
<1>1. r.block \in Nat /\ r.count \in Nat /\ Start[d] \in Nat /\ Blocks[d] \in Nat
  BY DEF Request
<1>2. CASE d = Disk
  BY <1>1, <1>2 DEF OnDisk, Shift
<1>3. CASE d # Disk
  <2>1. d \in Through[d]
    BY <1>3 DEF Partitions
  <2>2. Shift(d, r.block) + r.count - 1 - Start[d] < Blocks[d]
    BY <2>1 DEF InRange
  <2> QED
    BY <1>1, <2>2 DEF Shift
<1> QED
  BY <1>2, <1>3
----------------------------------------------------------------------------
(* The bytes of a read.                                                    *)

(* Content of a place that one request of a list covers alone.             *)
LEMMA ContentOf ==
  ASSUME NEW d, NEW reqs, NEW area, NEW k, NEW r \in reqs,
         Covers(r, area, k), \A q \in reqs : Covers(q, area, k) => q = r
  PROVE  Content(d, reqs, area, k) = Shift(d, r.block) * BlockSize + k - r.at
<1> DEFINE over == {q \in reqs : Covers(q, area, k)}
<1>1. over = {r}
  OBVIOUS
<1>2. (CHOOSE q \in over : TRUE) = r
  <2> HIDE DEF over
  <2> QED
    BY <1>1
<1>3. Content(d, reqs, area, k) =
        IF over = {} THEN Stale
        ELSE Shift(d, (CHOOSE q \in over : TRUE).block) * BlockSize + k
               - (CHOOSE q \in over : TRUE).at
  BY Zenon DEF Content
<1>4. over # {}
  BY <1>1
<1> QED
  <2> HIDE DEF over
  <2> QED
    BY <1>2, <1>3, <1>4

LEMMA BytesAreTheDevices ==
  ASSUME NEW d \in Devices, NEW off \in Nat, NEW size \in Nat, NEW i \in 0..(size - 1)
  PROVE  Bytes(d, Requests(off, size), off, size)[i] = Start[d] * BlockSize + off + i
<1> DEFINE F == First(off, size)
           W == Whole(off, size)
           L == Last(off, size)
           at == off % BlockSize
           block == BlockOf(off)
           next == block + (IF at = 0 THEN 0 ELSE 1)
           head == [block |-> block, count |-> 1, area |-> "scratch", at |-> 0]
           body == [block |-> next, count |-> W, area |-> "buf", at |-> F]
           tail == [block |-> next + W, count |-> 1, area |-> "scratch", at |-> BlockSize]
           reqs == Requests(off, size)
<1>1. /\ F \in 0..size /\ W \in Nat /\ L \in 0..(BlockSize - 1)
      /\ size = F + BlockSize * W + L
      /\ at = 0 => F = 0
      /\ at # 0 => F <= BlockSize - at
      /\ at # 0 /\ W + L > 0 => F = BlockSize - at
  BY Parts
<1>2. block \in Nat /\ at \in 0..(BlockSize - 1) /\ off = BlockSize * block + at
  BY BlockOfOffset
<1>3. reqs = (IF at = 0 THEN {} ELSE {head}) \cup (IF W = 0 THEN {} ELSE {body})
               \cup (IF L = 0 THEN {} ELSE {tail})
  BY DEF Requests
<1>4. Bytes(d, Requests(off, size), off, size)[i] =
        IF i < F THEN Content(d, reqs, "scratch", at + i)
        ELSE IF i >= size - L THEN Content(d, reqs, "scratch", BlockSize + i - (size - L))
        ELSE Content(d, reqs, "buf", i)
  BY DEF Bytes
<1>5. Start[d] \in Nat
  OBVIOUS
<1> HIDE DEF F, W, L, at, block, reqs
<1>6. CASE i < F
  <2>1. at # 0 /\ at + i \in 0..(BlockSize - 1)
    BY <1>1, <1>2, <1>6
  <2>2. head \in reqs
    BY <1>3, <2>1
  <2>3. Covers(head, "scratch", at + i)
    BY <2>1 DEF Covers
  <2>4. ASSUME NEW q \in reqs, Covers(q, "scratch", at + i)
        PROVE  q = head
    <3>1. q # body
      BY <2>4 DEF Covers
    <3>2. q # tail
      <4> SUFFICES ASSUME q = tail PROVE FALSE
        OBVIOUS
      <4>1. q.at = BlockSize /\ q.count = 1
        OBVIOUS
      <4> HIDE DEF tail
      <4>2. ~ ((at + i) - BlockSize >= 0)
        BY <1>2, <2>1
      <4>3. (at + i) - q.at \in 0..(q.count * BlockSize - 1)
        BY <2>4 DEF Covers
      <4>4. (at + i) - BlockSize \in 0..(1 * BlockSize - 1)
        BY <4>1, <4>3
      <4> QED
        BY <4>2, <4>4
    <3> QED
      BY <1>3, <3>1, <3>2
  <2>5. Content(d, reqs, "scratch", at + i) = Shift(d, block) * BlockSize + (at + i) - 0
    <3> HIDE DEF head
    <3>1. Content(d, reqs, "scratch", at + i)
            = Shift(d, head.block) * BlockSize + (at + i) - head.at
      <4>1. \A q \in reqs : Covers(q, "scratch", at + i) => q = head
        BY <2>4
      <4> QED
        BY <2>2, <2>3, <4>1, ContentOf
    <3> QED
      BY <3>1 DEF head
  <2>6. Shift(d, block) * BlockSize = Start[d] * BlockSize + BlockSize * block
    BY <1>2, <1>5 DEF Shift
  <2> QED
    BY <1>2, <1>4, <1>5, <1>6, <2>5, <2>6
<1>7. CASE i >= F /\ i >= size - L
  <2>1. L # 0 /\ i - (size - L) \in 0..(L - 1)
    BY <1>1, <1>7
  <2>2. tail \in reqs
    BY <1>3, <2>1
  <2> DEFINE k == BlockSize + i - (size - L)
  <2>3. Covers(tail, "scratch", k)
    BY <1>1, <2>1 DEF Covers
  <2>4. ASSUME NEW q \in reqs, Covers(q, "scratch", k)
        PROVE  q = tail
    <3>1. q # body
      BY <2>4 DEF Covers
    <3>2. q # head
      BY <2>1, <2>4 DEF Covers
    <3> QED
      BY <1>3, <3>1, <3>2
  <2>5. Content(d, reqs, "scratch", k) = Shift(d, next + W) * BlockSize + k - BlockSize
    <3> HIDE DEF tail, k
    <3>1. Content(d, reqs, "scratch", k) = Shift(d, tail.block) * BlockSize + k - tail.at
      <4>1. \A q \in reqs : Covers(q, "scratch", k) => q = tail
        BY <2>4
      <4> QED
        BY <2>2, <2>3, <4>1, ContentOf
    <3> QED
      BY <3>1 DEF tail
  <2>6. BlockSize * next = off + F
    <3>1. CASE at = 0
      BY <1>1, <1>2, <3>1
    <3>2. CASE at # 0
      <4>1. F = BlockSize - at
        BY <1>1, <2>1, <3>2
      <4>2. BlockSize * (block + 1) = BlockSize * block + BlockSize
        BY <1>2
      <4> QED
        BY <1>2, <3>2, <4>1, <4>2
    <3> QED
      BY <3>1, <3>2
  <2>7. Shift(d, next + W) * BlockSize
          = Start[d] * BlockSize + BlockSize * next + BlockSize * W
    <3>1. next \in Nat
      BY <1>2
    <3> HIDE DEF next
    <3> QED
      BY <3>1, <1>1, <1>5 DEF Shift
  <2> QED
    <3>1. Bytes(d, Requests(off, size), off, size)[i] = Content(d, reqs, "scratch", k)
      BY <1>1, <1>4, <1>7
    <3> HIDE DEF next
    <3>2. Start[d] * BlockSize \in Nat /\ BlockSize * W \in Nat
      <4>1. BlockSize \in Nat
        OBVIOUS
      <4> QED
        BY <1>1, <1>5, <4>1, ProductNat, Zenon
    <3> QED
      BY <1>1, <2>1, <2>5, <2>6, <2>7, <3>1, <3>2
<1>8. CASE i >= F /\ i < size - L
  <2>1. W # 0
    <3> SUFFICES ASSUME W = 0 PROVE FALSE
      OBVIOUS
    <3> QED
      BY <1>1, <1>8
  <2>2. body \in reqs
    BY <1>3, <2>1
  <2>3. Covers(body, "buf", i)
    BY <1>1, <1>8 DEF Covers
  <2>4. ASSUME NEW q \in reqs, Covers(q, "buf", i)
        PROVE  q = body
    <3>1. q # head /\ q # tail
      BY <2>4 DEF Covers
    <3> QED
      BY <1>3, <3>1
  <2>5. Content(d, reqs, "buf", i) = Shift(d, next) * BlockSize + i - F
    <3> HIDE DEF body
    <3>1. Content(d, reqs, "buf", i) = Shift(d, body.block) * BlockSize + i - body.at
      <4>1. \A q \in reqs : Covers(q, "buf", i) => q = body
        BY <2>4
      <4> QED
        BY <2>2, <2>3, <4>1, ContentOf
    <3> QED
      BY <3>1 DEF body
  <2>6. BlockSize * next = off + F
    <3>1. CASE at = 0
      BY <1>1, <1>2, <3>1
    <3>2. CASE at # 0
      <4>1. F = BlockSize - at
        BY <1>1, <2>1, <3>2
      <4>2. BlockSize * (block + 1) = BlockSize * block + BlockSize
        BY <1>2
      <4> QED
        BY <1>2, <3>2, <4>1, <4>2
    <3> QED
      BY <3>1, <3>2
  <2>7. Shift(d, next) * BlockSize = Start[d] * BlockSize + BlockSize * next
    <3>1. next \in Nat
      BY <1>2
    <3> HIDE DEF next
    <3> QED
      BY <3>1, <1>5 DEF Shift
  <2> QED
    <3>1. Bytes(d, Requests(off, size), off, size)[i] = Content(d, reqs, "buf", i)
      BY <1>1, <1>4, <1>8
    <3> HIDE DEF next
    <3>2. Start[d] * BlockSize \in Nat
      BY <1>5
    <3> QED
      BY <1>1, <2>5, <2>6, <2>7, <3>1, <3>2
<1> QED
  <2>1. i < F \/ (i >= F /\ i >= size - L) \/ (i >= F /\ i < size - L)
    BY <1>1
  <2> QED
    BY <1>6, <1>7, <1>8, <2>1 DEF reqs

(* The end of a read is inside the device when its last request is.        *)
LEMMA ReadInside ==
  ASSUME NEW d \in Devices, NEW off \in Nat, NEW size \in Nat \ {0},
         \A r \in Requests(off, size) : r.block + r.count <= Blocks[d]
  PROVE  off + size <= Blocks[d] * BlockSize
<1> DEFINE F == First(off, size)
           W == Whole(off, size)
           L == Last(off, size)
           at == off % BlockSize
           block == BlockOf(off)
           next == block + (IF at = 0 THEN 0 ELSE 1)
<1>1. /\ F \in 0..size /\ W \in Nat /\ L \in 0..(BlockSize - 1)
      /\ size = F + BlockSize * W + L
      /\ at = 0 => F = 0
      /\ at # 0 => F <= BlockSize - at
  BY Parts
<1>2. block \in Nat /\ at \in 0..(BlockSize - 1) /\ off = BlockSize * block + at
  BY BlockOfOffset
<1>3. /\ at # 0 => block + 1 <= Blocks[d]
      /\ W # 0 => next + W <= Blocks[d]
      /\ L # 0 => next + W + 1 <= Blocks[d]
  <2> DEFINE head == [block |-> block, count |-> 1, area |-> "scratch", at |-> 0]
             body == [block |-> next, count |-> W, area |-> "buf", at |-> F]
             tail == [block |-> next + W, count |-> 1, area |-> "scratch", at |-> BlockSize]
  <2>1. Requests(off, size) = (IF at = 0 THEN {} ELSE {head}) \cup (IF W = 0 THEN {} ELSE {body})
                                \cup (IF L = 0 THEN {} ELSE {tail})
    BY DEF Requests
  <2>2. /\ head.block = block /\ head.count = 1
        /\ body.block = next /\ body.count = W
        /\ tail.block = next + W /\ tail.count = 1
    OBVIOUS
  <2> HIDE DEF head, body, tail, next, F, W, L, at, block
  <2>3. /\ at # 0 => head \in Requests(off, size)
        /\ W # 0 => body \in Requests(off, size)
        /\ L # 0 => tail \in Requests(off, size)
    BY <2>1
  <2> QED
    BY <2>2, <2>3
<1>4. Blocks[d] \in Nat
  OBVIOUS
<1> HIDE DEF F, W, L, at, block
<1>5. next \in Nat /\ BlockSize * next = BlockSize * block + (IF at = 0 THEN 0 ELSE BlockSize)
  BY <1>2
<1>6. off + F <= BlockSize * next
  BY <1>1, <1>2, <1>5
<1> HIDE DEF next
<1>7. PICK n \in Nat : n <= Blocks[d] /\ off + size <= BlockSize * n
  <2>1. CASE L # 0
    <3>1. BlockSize * (next + W + 1) = BlockSize * next + BlockSize * W + BlockSize
      BY <1>1, <1>5
    <3>2. off + size <= BlockSize * (next + W + 1)
      BY <1>1, <1>5, <1>6, <3>1
    <3> QED
      BY <1>1, <1>3, <1>5, <2>1, <3>2
  <2>2. CASE L = 0 /\ W # 0
    <3>1. BlockSize * (next + W) = BlockSize * next + BlockSize * W
      BY <1>1, <1>5
    <3>2. off + size <= BlockSize * (next + W)
      BY <1>1, <1>5, <1>6, <2>2, <3>1
    <3> QED
      BY <1>1, <1>3, <1>5, <2>2, <3>2
  <2>3. CASE L = 0 /\ W = 0
    <3>1. size = F /\ at # 0
      BY <1>1, <2>3
    <3>2. next <= Blocks[d] /\ off + size <= BlockSize * next
      BY <1>3, <1>6, <3>1 DEF next
    <3> QED
      BY <1>5, <3>2
  <2> QED
    BY <2>1, <2>2, <2>3
<1>8. BlockSize * n <= BlockSize * Blocks[d]
  BY <1>4, <1>7
<1> QED
  BY <1>4, <1>7, <1>8

(* A read inside one block.                                                *)
LEMMA OneBlockPart ==
  ASSUME NEW off \in Nat, NEW size \in Nat, OneBlock(off, size),
         NEW b \in Nat, NEW i \in 0..(size - 1)
  PROVE  /\ off + size <= BlockSize * BlockOf(off) + BlockSize
         /\ Part(b, off, size)[i] = b * BlockSize + off - BlockSize * BlockOf(off) + i
<1> DEFINE at == off % BlockSize
           q == BlockOf(off)
           e == off + size - 1
<1>1. size > 0 /\ q = BlockOf(e)
  BY DEF OneBlock
<1>2. q \in Nat /\ at \in 0..(BlockSize - 1) /\ off = BlockSize * q + at
  BY BlockOfOffset
<1>3. e \in Nat
  BY <1>1
<1>4. e % BlockSize \in 0..(BlockSize - 1) /\ e = BlockSize * q + (e % BlockSize)
  <2> HIDE DEF e, q
  <2> QED
    BY <1>1, <1>3, BlockOfOffset
<1>5. off + size <= BlockSize * q + BlockSize
  <2> DEFINE rest == e % BlockSize
  <2>1. rest \in 0..(BlockSize - 1) /\ off + size - 1 = BlockSize * q + rest
    BY <1>4
  <2> HIDE DEF rest, q
  <2> QED
    BY <1>2, <2>1
<1>6. at + size <= BlockSize
  <2> HIDE DEF at, q
  <2> QED
    BY <1>2, <1>5
<1>7. Part(b, off, size)[i] = b * BlockSize + off - BlockSize * q + i
  <2>1. i < Least(BlockSize - at, size)
    BY <1>6 DEF Least
  <2>2. Part(b, off, size)[i] = b * BlockSize + at + i
    BY <2>1 DEF Part
  <2> HIDE DEF at, q
  <2> QED
    BY <1>2, <2>2
<1> QED
  BY <1>5, <1>7
----------------------------------------------------------------------------
(* The invariant: what last and the caches must be for reads to be right.  *)
Right(l) ==
  /\ l.via \in {"disk", "cache"} /\ l.dev \in Devices /\ l.off \in Nat /\ l.size \in Nat
  /\ l.error \in {"NONE", "IO", "RANGE"}
  /\ l.sent \subseteq Nat
  /\ \A p \in Through[l.dev] : l.sent \subseteq Start[p]..(Start[p] + Blocks[p] - 1)
  /\ l.error = "NONE" =>
       /\ l.size > 0 => l.off + l.size <= Blocks[l.dev] * BlockSize
       /\ \A i \in 0..(l.size - 1) : l.bytes[i] = Start[l.dev] * BlockSize + l.off + i

(* A cache of d: a ring whose entries hold the blocks they are found by,   *)
(* blocks of d, no block twice.                                            *)
Coherent(d, c) ==
  /\ RingInv(c)
  /\ \A e \in Entry : c.block[e] # Unset =>
       /\ c.data[e] = Start[d] + c.block[e]
       /\ c.block[e] + 1 <= Blocks[d]
       /\ \A f \in Entry : c.block[f] = c.block[e] => f = e

BlockInv ==
  /\ cache \in [Devices -> CacheType \cup {None}]
  /\ \A d \in Devices : cache[d] # None => Coherent(d, cache[d])
  /\ Right(last)

LEMMA BytesRight ==
  ASSUME NEW d \in Devices, NEW off \in Nat, NEW size \in Nat,
         NEW bytes, bytes = Bytes(d, Requests(off, size), off, size)
  PROVE  \A i \in 0..(size - 1) : bytes[i] = Start[d] * BlockSize + off + i
<1> SUFFICES ASSUME NEW i \in 0..(size - 1)
             PROVE  bytes[i] = Start[d] * BlockSize + off + i
  OBVIOUS
<1>1. Bytes(d, Requests(off, size), off, size)[i] = Start[d] * BlockSize + off + i
  BY BytesAreTheDevices
<1> QED
  BY <1>1

LEMMA ReadRight ==
  ASSUME NEW d \in Devices, NEW off \in Nat, NEW size \in Nat,
         NEW o \in ReadV(d, Requests(off, size))
  PROVE  Right(Answer("disk", d, off, size, o.error,
                      IF o.error = "NONE" THEN Bytes(d, o.arrived, off, size) ELSE <<>>,
                      Sent(d, Requests(off, size), o.error)))
<1> DEFINE reqs == Requests(off, size)
           bytes == IF o.error = "NONE" THEN Bytes(d, o.arrived, off, size) ELSE <<>>
           l == Answer("disk", d, off, size, o.error, bytes, Sent(d, reqs, o.error))
<1>1. /\ l.via = "disk" /\ l.dev = d /\ l.off = off /\ l.size = size
      /\ l.error = o.error /\ l.bytes = bytes /\ l.sent = Sent(d, reqs, o.error)
  BY DEF Answer
<1>2. reqs \subseteq Request
  BY RequestsType
<1>3. /\ o.error \in {"NONE", "IO", "RANGE"}
      /\ o.error # "RANGE" => \A r \in reqs : InRange(d, r)
      /\ o.error = "NONE" => o.arrived = reqs /\ \A r \in reqs : OnDisk(d, r)
  BY ReadVAnswers
<1>4. /\ Sent(d, reqs, o.error) \subseteq Nat
      /\ \A p \in Through[d] :
           Sent(d, reqs, o.error) \subseteq Start[p]..(Start[p] + Blocks[p] - 1)
  BY <1>2, SentInside
<1>5. ASSUME o.error = "NONE"
      PROVE  /\ size > 0 => off + size <= Blocks[d] * BlockSize
             /\ \A i \in 0..(size - 1) : bytes[i] = Start[d] * BlockSize + off + i
  <2>1. \A r \in reqs : r.block + r.count <= Blocks[d]
    BY <1>2, <1>3, <1>5, InsideDevice
  <2>2. ASSUME size > 0
        PROVE  off + size <= Blocks[d] * BlockSize
    <3>1. size \in Nat \ {0}
      BY <2>2
    <3> QED
      BY <2>1, <3>1, ReadInside, Zenon
  <2>3. bytes = Bytes(d, Requests(off, size), off, size)
    BY <1>3, <1>5
  <2> HIDE DEF bytes
  <2>4. \A i \in 0..(size - 1) : bytes[i] = Start[d] * BlockSize + off + i
    BY <2>3, BytesRight
  <2> QED
    BY <2>2, <2>4
<1> HIDE DEF l, bytes, reqs
<1>6. Right(l)
  BY <1>1, <1>3, <1>4, <1>5 DEF Right
<1> QED
  BY <1>6 DEF l, bytes, reqs

(* Copying out of an entry that holds the block of d the read begins in.  *)
LEMMA PartRight ==
  ASSUME NEW d \in Devices, NEW off \in Nat, NEW size \in Nat, OneBlock(off, size),
         BlockOf(off) + 1 <= Blocks[d], NEW i \in 0..(size - 1)
  PROVE  /\ off + size <= Blocks[d] * BlockSize
         /\ Part(Start[d] + BlockOf(off), off, size)[i] = Start[d] * BlockSize + off + i
<1> DEFINE q == BlockOf(off)
           b == Start[d] + q
           n == Blocks[d]
<1>1. q \in Nat /\ Start[d] \in Nat /\ n \in Nat /\ q + 1 <= n
  BY BlockOfOffset
<1> HIDE DEF q, n
<1>2. b \in Nat /\ b * BlockSize = Start[d] * BlockSize + BlockSize * q
  BY <1>1
<1> HIDE DEF b
<1>3. /\ off + size <= BlockSize * q + BlockSize
      /\ Part(b, off, size)[i] = b * BlockSize + off - BlockSize * q + i
  BY <1>2, OneBlockPart DEF q
<1>4. BlockSize * (q + 1) <= BlockSize * n
  BY <1>1
<1>5. BlockSize * (q + 1) = BlockSize * q + BlockSize
  BY <1>1
<1>6. off + size <= n * BlockSize
  BY <1>1, <1>3, <1>4, <1>5
<1>7. Part(b, off, size)[i] = Start[d] * BlockSize + off + i
  <2>1. Start[d] * BlockSize \in Nat /\ BlockSize * q \in Nat
    BY <1>1
  <2> QED
    BY <1>2, <1>3, <2>1
<1> QED
  BY <1>6, <1>7 DEF b, n, q

LEMMA CachedRight ==
  ASSUME NEW d \in Devices, NEW off \in Nat, NEW size \in Nat, OneBlock(off, size),
         BlockOf(off) + 1 <= Blocks[d], NEW sent \in SUBSET Nat,
         \A p \in Through[d] : sent \subseteq Start[p]..(Start[p] + Blocks[p] - 1)
  PROVE  Right(Answer("cache", d, off, size, "NONE",
                      Part(Start[d] + BlockOf(off), off, size), sent))
<1> DEFINE bytes == Part(Start[d] + BlockOf(off), off, size)
           l == Answer("cache", d, off, size, "NONE", bytes, sent)
<1>1. off + size <= Blocks[d] * BlockSize
  <2>1. 0 \in 0..(size - 1)
    BY DEF OneBlock
  <2> QED
    BY <2>1, PartRight
<1>2. ASSUME NEW i \in 0..(size - 1)
      PROVE  bytes[i] = Start[d] * BlockSize + off + i
  BY PartRight
<1>3. /\ l.via = "cache" /\ l.dev = d /\ l.off = off /\ l.size = size
      /\ l.error = "NONE" /\ l.bytes = bytes /\ l.sent = sent
  BY DEF Answer
<1> HIDE DEF l, bytes
<1>4. Right(l)
  BY <1>1, <1>2, <1>3 DEF Right
<1> QED
  BY <1>4 DEF l, bytes

(* The entries of a coherent cache can be looked up; what is found holds   *)
(* the block looked for.                                                   *)
LEMMA FoundHolds ==
  ASSUME NEW c, RingInv(c), NEW b, Hits(c, b) # {}
  PROVE  Found(c, b) \in Entry /\ c.block[Found(c, b)] = b
<1>1. Ring(c) \in [0..(Entries - 1) -> Entry]
  BY RingFollows DEF RingInv
<1>2. Hits(c, b) = {n \in 0..(Entries - 1) : c.block[Ring(c)[n]] = b}
  BY <1>1 DEF Hits
<1>3. Hits(c, b) \in SUBSET Nat
  BY <1>2, EntriesType
<1>4. \E m \in Hits(c, b) : \A k \in Hits(c, b) : m <= k
  BY <1>3, LeastElement
<1>5. Min(Hits(c, b)) \in Hits(c, b)
  BY <1>4 DEF Min
<1> QED
  BY <1>1, <1>2, <1>5 DEF Found

LEMMA NoHit ==
  ASSUME NEW c, RingInv(c), NEW b, Hits(c, b) = {}
  PROVE  \A e \in Entry : c.block[e] # b
<1>1. Ring(c) \in [0..(Entries - 1) -> Entry]
  BY RingFollows DEF RingInv
<1>2. {Ring(c)[n] : n \in 0..(Entries - 1)} = Entry
  BY RingCovers
<1>3. \A n \in 0..(Entries - 1) : c.block[Ring(c)[n]] # b
  BY <1>1 DEF Hits
<1> QED
  BY <1>2, <1>3

LEMMA TouchCoherent ==
  ASSUME NEW d \in Devices, NEW c, Coherent(d, c), NEW e \in Entry
  PROVE  Coherent(d, Touch(c, e))
<1>1. RingInv(c)
  BY DEF Coherent
<1>2. RingInv(Touch(c, e)) /\ Touch(c, e).block = c.block /\ Touch(c, e).data = c.data
  BY <1>1, TouchKeepsRing
<1> QED
  BY <1>2 DEF Coherent

LEMMA InitCoherent ==
  ASSUME NEW d \in Devices
  PROVE  Coherent(d, CacheInit)
<1>1. \A e \in Entry : CacheInit.block[e] = Unset
  BY DEF CacheInit
<1> QED
  BY <1>1, CacheInitRing DEF Coherent

(* Filling the oldest entry, or emptying it, leaves the ring as it was but *)
(* for where it begins.                                                    *)
LEMMA TurnKeepsRing ==
  ASSUME NEW c, RingInv(c), NEW w,
         w \in CacheType, w.next = c.next, w.prev = c.prev
  PROVE  RingInv(w)
  BY DEF RingInv, LinksAgree, Cyclic

LEMMA FillCoherent ==
  ASSUME NEW d \in Devices, NEW c, Coherent(d, c), NEW b \in Nat,
         Hits(c, b) = {}, b + 1 <= Blocks[d]
  PROVE  Coherent(d, Fill(c, b, Shift(d, b)))
<1> DEFINE lru == c.prev[c.mru]
           from == Shift(d, b)
           w == Fill(c, b, from)
<1>1. RingInv(c) /\ c \in CacheType
  BY DEF Coherent, RingInv
<1>2. lru \in Entry /\ from \in Nat /\ from = Start[d] + b
  <2>1. lru \in Entry
    BY <1>1 DEF CacheType
  <2>2. from \in Nat /\ from = b + Start[d]
    BY ShiftType
  <2>3. Start[d] \in Nat
    OBVIOUS
  <2> QED
    BY <2>1, <2>2, <2>3
<1> HIDE DEF from
<1>3. /\ w \in CacheType /\ w.next = c.next /\ w.prev = c.prev
      /\ w.block = [c.block EXCEPT ![lru] = b] /\ w.data = [c.data EXCEPT ![lru] = from]
  BY <1>1, <1>2 DEF Fill, CacheType
<1> HIDE DEF w, lru
<1>4. RingInv(w)
  BY <1>1, <1>3, TurnKeepsRing
<1>5. \A e \in Entry : c.block[e] # b
  BY <1>1, NoHit
<1>6. /\ c.block \in [Entry -> Nat \cup {Unset}] /\ c.data \in [Entry -> Nat \cup {Stale}]
  BY <1>1 DEF CacheType
<1>7. ASSUME NEW e \in Entry, w.block[e] # Unset
      PROVE  /\ w.data[e] = Start[d] + w.block[e]
             /\ w.block[e] + 1 <= Blocks[d]
             /\ \A f \in Entry : w.block[f] = w.block[e] => f = e
  <2>1. CASE e = lru
    BY <1>2, <1>3, <1>5, <1>6, <2>1
  <2>2. CASE e # lru
    <3>1. w.block[e] = c.block[e] /\ w.data[e] = c.data[e]
      BY <1>3, <1>6, <2>2
    <3>2. /\ c.data[e] = Start[d] + c.block[e]
          /\ c.block[e] + 1 <= Blocks[d]
          /\ \A f \in Entry : c.block[f] = c.block[e] => f = e
      BY <1>7, <3>1 DEF Coherent
    <3> QED
      BY <1>2, <1>3, <1>5, <1>6, <2>2, <3>1, <3>2
  <2> QED
    BY <2>1, <2>2
<1>8. Coherent(d, w)
  BY <1>4, <1>7 DEF Coherent
<1> QED
  BY <1>8 DEF w, from

LEMMA FailCoherent ==
  ASSUME NEW d \in Devices, NEW c, Coherent(d, c), NEW from \in Nat \cup {Stale}
  PROVE  Coherent(d, Fail(c, from))
<1> DEFINE lru == c.prev[c.mru]
           w == Fail(c, from)
<1>1. RingInv(c) /\ c \in CacheType
  BY DEF Coherent, RingInv
<1>2. lru \in Entry
  BY <1>1 DEF CacheType
<1>3. /\ w \in CacheType /\ w.next = c.next /\ w.prev = c.prev
      /\ w.block = [c.block EXCEPT ![lru] = Unset] /\ w.data = [c.data EXCEPT ![lru] = from]
  BY <1>1, <1>2 DEF Fail, CacheType
<1> HIDE DEF w, lru
<1>4. RingInv(w)
  BY <1>1, <1>3, TurnKeepsRing
<1>6. /\ c.block \in [Entry -> Nat \cup {Unset}] /\ c.data \in [Entry -> Nat \cup {Stale}]
  BY <1>1 DEF CacheType
<1>7. ASSUME NEW e \in Entry, w.block[e] # Unset
      PROVE  /\ w.data[e] = Start[d] + w.block[e]
             /\ w.block[e] + 1 <= Blocks[d]
             /\ \A f \in Entry : w.block[f] = w.block[e] => f = e
  <2>1. e # lru /\ w.block[e] = c.block[e] /\ w.data[e] = c.data[e]
    BY <1>2, <1>3, <1>6, <1>7
  <2>2. /\ c.data[e] = Start[d] + c.block[e]
        /\ c.block[e] + 1 <= Blocks[d]
        /\ \A f \in Entry : c.block[f] = c.block[e] => f = e
    BY <1>7, <2>1 DEF Coherent
  <2> QED
    BY <1>2, <1>3, <1>6, <1>7, <2>1, <2>2
<1>8. Coherent(d, w)
  BY <1>4, <1>7 DEF Coherent
<1> QED
  BY <1>8 DEF w
----------------------------------------------------------------------------
(* The steps.                                                              *)
LEMMA InitBlockInv == Init => BlockInv
<1> SUFFICES ASSUME Init PROVE BlockInv
  OBVIOUS
<1>1. cache \in [Devices -> CacheType \cup {None}] /\ \A d \in Devices : cache[d] = None
  BY DEF Init
<1>2. Right(last)
  <2>1. last = [via |-> "disk", dev |-> Disk, off |-> 0, size |-> 0,
                error |-> "NONE", bytes |-> <<>>, sent |-> {}]
    BY DEF Init, Answer
  <2>2. 0..(0 - 1) = {}
    OBVIOUS
  <2> QED
    BY <2>1, <2>2 DEF Right
<1> QED
  BY <1>1, <1>2 DEF BlockInv

LEMMA ReadKeeps ==
  ASSUME BlockInv, NEW d \in Devices, NEW off \in Nat, NEW size \in Nat, Read(d, off, size)
  PROVE  BlockInv'
<1>1. Right(last')
  BY ReadRight DEF Read
<1> QED
  BY <1>1 DEF BlockInv, Read, Right

(* What changes in one cache: the others stay as they are.                 *)
LEMMA OneCacheKeeps ==
  ASSUME BlockInv, NEW d \in Devices, NEW c, Coherent(d, c),
         cache' = [cache EXCEPT ![d] = c], Right(last')
  PROVE  BlockInv'
<1>1. c \in CacheType
  BY DEF Coherent, RingInv
<1>2. cache' \in [Devices -> CacheType \cup {None}]
  BY <1>1 DEF BlockInv
<1>3. ASSUME NEW e \in Devices, cache'[e] # None
      PROVE  Coherent(e, cache'[e])
  BY <1>3 DEF BlockInv
<1>4. \A e \in Devices : cache'[e] # None => Coherent(e, cache'[e])
  BY <1>3
<1> QED
  BY <1>2, <1>4 DEF BlockInv, Right, Coherent, RingInv, LinksAgree, Cyclic

LEMMA HitKeeps ==
  ASSUME BlockInv, NEW d \in Devices, NEW off \in Nat, NEW size \in Nat, ReadHit(d, off, size)
  PROVE  BlockInv'
<1> DEFINE b == BlockOf(off)
           c == cache[d]
           e == Found(c, b)
           bytes == Part(c.data[e], off, size)
<1>1. /\ c # None /\ OneBlock(off, size) /\ Hits(c, b) # {}
      /\ cache' = [cache EXCEPT ![d] = Touch(c, e)]
      /\ last' = Answer("cache", d, off, size, "NONE", bytes, {})
  BY DEF ReadHit, BlockInv
<1>2. Coherent(d, c) /\ RingInv(c)
  BY <1>1 DEF BlockInv, Coherent
<1>3. b \in Nat
  BY BlockOfOffset
<1> HIDE DEF b, c
<1>4. e \in Entry /\ c.block[e] = b
  BY <1>1, <1>2, FoundHolds
<1> HIDE DEF e
<1>5. Coherent(d, Touch(c, e))
  BY <1>2, <1>4, TouchCoherent
<1>6. c.data[e] = Start[d] + b /\ b + 1 <= Blocks[d]
  BY <1>2, <1>3, <1>4 DEF Coherent
<1>7. bytes = Part(Start[d] + b, off, size)
  BY <1>6
<1> HIDE DEF bytes
<1>8. Right(last')
  <2>1. b = BlockOf(off)
    BY DEF b
  <2>2. Right(Answer("cache", d, off, size, "NONE", Part(Start[d] + b, off, size), {}))
    BY <1>1, <1>6, <2>1, CachedRight
  <2> QED
    BY <1>1, <1>7, <2>2
<1> QED
  BY <1>1, <1>5, <1>8, OneCacheKeeps

LEMMA MissKeeps ==
  ASSUME BlockInv, NEW d \in Devices, NEW off \in Nat, NEW size \in Nat, ReadMiss(d, off, size)
  PROVE  BlockInv'
<1> DEFINE b == BlockOf(off)
           c == cache[d]
           r == [block |-> b, count |-> 1, area |-> "entry", at |-> 0]
           old == c.data[c.prev[c.mru]]
           from(o) == IF r \in o.arrived THEN Shift(d, b) ELSE old
           bytes(o) == IF o.error = "NONE" THEN Part(from(o), off, size) ELSE <<>>
<1>1. c # None /\ OneBlock(off, size) /\ Hits(c, b) = {}
  BY DEF ReadMiss
<1>2. PICK o \in ReadV(d, {r}) :
        /\ cache' = [cache EXCEPT ![d] = IF o.error = "NONE" THEN Fill(c, b, from(o))
                                                           ELSE Fail(c, from(o))]
        /\ last' = Answer("cache", d, off, size, o.error, bytes(o), Sent(d, {r}, o.error))
  BY DEF ReadMiss, BlockInv
<1>3. Coherent(d, c) /\ RingInv(c) /\ c \in CacheType
  BY <1>1 DEF BlockInv, Coherent, RingInv
<1>4. b \in Nat
  BY BlockOfOffset
<1>5. r \in Request /\ r.block = b /\ r.count = 1
  BY <1>4 DEF Request
<1>6. old \in Nat \cup {Stale}
  BY <1>3 DEF CacheType
<1>7. Shift(d, b) \in Nat /\ Shift(d, b) = Start[d] + b
  BY <1>4, ShiftType
<1> HIDE DEF b, c, r, old
<1>8. /\ o.error \in {"NONE", "IO", "RANGE"}
      /\ o.error # "RANGE" => InRange(d, r)
      /\ o.error = "NONE" => o.arrived = {r} /\ OnDisk(d, r)
  BY ReadVAnswers
<1>9. /\ Sent(d, {r}, o.error) \subseteq Nat
      /\ \A p \in Through[d] :
           Sent(d, {r}, o.error) \subseteq Start[p]..(Start[p] + Blocks[p] - 1)
  <2>1. {r} \in SUBSET Request
    BY <1>5
  <2> QED
    BY <2>1, SentInside, Zenon
<1>10. CASE o.error = "NONE"
  <2>1. b + 1 <= Blocks[d]
    BY <1>5, <1>8, <1>10, InsideDevice
  <2>2. from(o) = Shift(d, b)
    BY <1>8, <1>10
  <2>3. Coherent(d, Fill(c, b, Shift(d, b)))
    BY <1>1, <1>3, <1>4, <2>1, FillCoherent
  <2>4. bytes(o) = Part(Start[d] + b, off, size)
    BY <1>7, <1>10, <2>2
  <2>5. b = BlockOf(off)
    BY DEF b
  <2>6. last' = Answer("cache", d, off, size, "NONE", Part(Start[d] + b, off, size),
                       Sent(d, {r}, o.error))
    BY <1>2, <1>10, <2>4
  <2>7. cache' = [cache EXCEPT ![d] = Fill(c, b, Shift(d, b))]
    BY <1>2, <1>10, <2>2
  <2>8. Right(last')
    BY <1>1, <1>9, <2>1, <2>5, <2>6, CachedRight
  <2> QED
    BY <2>3, <2>7, <2>8, OneCacheKeeps
<1>11. CASE o.error # "NONE"
  <2>1. from(o) \in Nat \cup {Stale}
    BY <1>6, <1>7
  <2>2. Coherent(d, Fail(c, from(o)))
    BY <1>3, <2>1, FailCoherent
  <2>3. cache' = [cache EXCEPT ![d] = Fail(c, from(o))]
    BY <1>2, <1>11
  <2>4. last' = Answer("cache", d, off, size, o.error, <<>>, Sent(d, {r}, o.error))
    BY <1>2, <1>11
  <2>5. Right(last')
    BY <1>8, <1>9, <1>11, <2>4 DEF Answer, Right
  <2> QED
    BY <2>2, <2>3, <2>5, OneCacheKeeps
<1> QED
  BY <1>10, <1>11

LEMMA AttachKeeps ==
  ASSUME BlockInv, NEW d \in Devices, AttachCache(d)
  PROVE  BlockInv'
<1>1. cache' = [cache EXCEPT ![d] = CacheInit] /\ last' = last
  BY DEF AttachCache
<1>2. Right(last')
  BY <1>1 DEF BlockInv
<1> QED
  BY <1>1, <1>2, InitCoherent, OneCacheKeeps

LEMMA NextKeepsBlockInv == BlockInv /\ [Next]_vars => BlockInv'
<1> SUFFICES ASSUME BlockInv, [Next]_vars PROVE BlockInv'
  OBVIOUS
<1>1. CASE Next
  <2>1. PICK d \in Devices :
          \/ AttachCache(d)
          \/ \E off \in Offsets(d), size \in Sizes : Read(d, off, size) \/ CachedRead(d, off, size)
    BY <1>1 DEF Next
  <2>2. CASE AttachCache(d)
    BY <2>2, AttachKeeps
  <2>3. CASE \E off \in Offsets(d), size \in Sizes : Read(d, off, size) \/ CachedRead(d, off, size)
    <3>1. PICK off \in Offsets(d), size \in Sizes : Read(d, off, size) \/ CachedRead(d, off, size)
      BY <2>3
    <3>2. off \in Nat /\ size \in Nat
      <4> DEFINE end == (Blocks[d] + 1) * BlockSize
      <4>1. off \in 0..end
        BY DEF Offsets
      <4>2. size \in Nat
        OBVIOUS
      <4> HIDE DEF end
      <4>3. off \in Nat
        BY <4>1
      <4> QED
        BY <4>2, <4>3
    <3>3. CASE Read(d, off, size)
      BY <3>2, <3>3, ReadKeeps
    <3>4. CASE ReadPast(d, off, size)
      BY <3>2, <3>4, ReadKeeps DEF ReadPast
    <3>5. CASE ReadHit(d, off, size)
      BY <3>2, <3>5, HitKeeps
    <3>6. CASE ReadMiss(d, off, size)
      BY <3>2, <3>6, MissKeeps
    <3> QED
      BY <3>1, <3>3, <3>4, <3>5, <3>6 DEF CachedRead
  <2> QED
    BY <2>1, <2>2, <2>3
<1>2. CASE UNCHANGED vars
  BY <1>2 DEF vars, BlockInv, Right, Coherent, RingInv, LinksAgree, Cyclic
<1> QED
  BY <1>1, <1>2
----------------------------------------------------------------------------
(* What follows.                                                           *)

(* Whatever partitions there are and whatever is read, the caches and the  *)
(* last read are as the invariant says.                                    *)
THEOREM BlocksAreGood == Spec => []BlockInv
<1> QED
  BY InitBlockInv, NextKeepsBlockInv, PTL DEF Spec

(* The variables of block_dev.c keep their types.                          *)
THEOREM BlockDevTypeOK == Spec => []TypeOK
<1>1. BlockInv => TypeOK
  BY DEF BlockInv, Right, TypeOK
<1> QED
  BY <1>1, BlocksAreGood, PTL

(* loomBlockDevCachedRead never finds a block by a wrong number.           *)
THEOREM CachesCoherent == Spec => []CacheCoherent
<1>1. BlockInv => CacheCoherent
  BY DEF BlockInv, Coherent, CacheCoherent
<1> QED
  BY <1>1, BlocksAreGood, PTL

(* The links of a cache's entries stay one ring, both ways.                *)
THEOREM RingsWhole == Spec => []RingWhole
<1>1. ASSUME BlockInv PROVE RingWhole
  <2>1. ASSUME NEW d \in Devices, cache[d] # None
        PROVE  /\ {Ring(cache[d])[n] : n \in DOMAIN Ring(cache[d])} = Entry
               /\ LinksAgree(cache[d])
    <3>1. RingInv(cache[d])
      BY <1>1, <2>1 DEF BlockInv, Coherent
    <3>2. DOMAIN Ring(cache[d]) = 0..(Entries - 1)
      BY <3>1, RingFollows DEF RingInv
    <3> QED
      BY <3>1, <3>2, RingCovers DEF RingInv
  <2> QED
    BY <2>1 DEF RingWhole, LinksAgree
<1> QED
  BY <1>1, BlocksAreGood, PTL

(* A read without error returned the device's own bytes.                   *)
THEOREM ReadsAreTheDisks == Spec => []ReadsDisk
<1>1. BlockInv => ReadsDisk
  BY DEF BlockInv, Right, ReadsDisk
<1> QED
  BY <1>1, BlocksAreGood, PTL

(* loomPartitionRead lets no request leave its partition.                  *)
THEOREM PartitionsIsolated == Spec => []PartitionIsolated
<1>1. BlockInv => PartitionIsolated
  BY DEF BlockInv, Right, PartitionIsolated
<1> QED
  BY <1>1, BlocksAreGood, PTL

----------------------------------------------------------------------------
HIDE DevicesAssumption
HIDE StartAssumption
----------------------------------------------------------------------------
(* The caches in the order of use.                                         *)

(* The ring has every entry at one place, and closes where it began.       *)
LEMMA RingIs ==
  ASSUME NEW c, RingInv(c), NEW N, N = Entries - 1, NEW R, R = Ring(c)
  PROVE  /\ N \in Nat /\ N + 1 = Entries
         /\ R \in [0..N -> Entry] /\ R[0] = c.mru
         /\ \A n \in 1..N : R[n] = c.next[R[n - 1]] /\ c.prev[R[n]] = R[n - 1]
         /\ \A i, j \in 0..N : R[i] = R[j] => i = j
         /\ \A e \in Entry : \E n \in 0..N : R[n] = e
         /\ c.next[R[N]] = R[0] /\ c.prev[R[0]] = R[N]
<1>1. N \in Nat /\ N + 1 = Entries
  BY EntriesType
<1>2. /\ c.next \in [Entry -> Entry] /\ c.prev \in [Entry -> Entry]
      /\ \A x \in Entry : c.prev[c.next[x]] = x /\ c.next[c.prev[x]] = x
  BY DEF RingInv, LinksAgree, CacheType
<1>3. R \in [0..N -> Entry] /\ R[0] = c.mru /\ \A n \in 1..N : R[n] = c.next[R[n - 1]]
  BY RingFollows DEF RingInv
<1>4. {R[n] : n \in 0..N} = Entry
  BY RingCovers
<1>5. \A e \in Entry : \E n \in 0..N : R[n] = e
  BY <1>4
<1>6. \A i, j \in 0..N : R[i] = R[j] => i = j
  <2>1. IsFiniteSet(0..N) /\ Cardinality(0..N) = Entries
    <3>1. 0 \in Int /\ N \in Int /\ ~ (0 > N) /\ N - 0 + 1 = Entries
      BY <1>1
    <3> QED
      BY <3>1, FS_Interval
  <2>2. R \in Surjection(0..N, Entry)
    BY <1>3, <1>5 DEF Surjection
  <2>3. R \in Injection(0..N, Entry)
    BY <2>1, <2>2, EntryFinite, FS_SurjSameCardinalityImpliesInj
  <2> QED
    BY <2>3 DEF Injection, IsInjective
<1>7. \A n \in 1..N : c.prev[R[n]] = R[n - 1]
  <2> SUFFICES ASSUME NEW n \in 1..N PROVE c.prev[R[n]] = R[n - 1]
    OBVIOUS
  <2>1. n - 1 \in 0..N
    BY <1>1
  <2>2. R[n - 1] \in Entry
    BY <1>3, <2>1
  <2> QED
    BY <1>2, <1>3, <2>2
<1>8. c.next[R[N]] = R[0]
  <2>1. N \in 0..N
    BY <1>1
  <2>2. R[N] \in Entry
    BY <1>3, <2>1
  <2>3. PICK k \in 0..N : R[k] = c.next[R[N]]
    BY <1>2, <1>5, <2>2
  <2>4. CASE k \in 1..N
    <3>1. R[k - 1] = R[N]
      BY <1>2, <1>7, <2>2, <2>3, <2>4
    <3>2. k - 1 \in 0..N /\ k - 1 # N
      BY <1>1, <2>4
    <3> QED
      BY <1>6, <2>1, <3>1, <3>2
  <2>5. CASE k = 0
    BY <2>3, <2>5
  <2> QED
    BY <1>1, <2>4, <2>5
<1>9. c.prev[R[0]] = R[N]
  <2>1. N \in 0..N
    BY <1>1
  <2> QED
    BY <1>2, <1>3, <1>8, <2>1
<1> QED
  BY <1>1, <1>3, <1>5, <1>6, <1>7, <1>8, <1>9

(* Whatever begins at mru and follows next is the ring.                    *)
LEMMA RingOf ==
  ASSUME NEW c \in CacheType, NEW f, f[0] = c.mru,
         \A n \in 1..(Entries - 1) : f[n] = c.next[f[n - 1]]
  PROVE  \A n \in 0..(Entries - 1) : Ring(c)[n] = f[n]
<1> DEFINE N == Entries - 1
           R == Ring(c)
           B == {n \in 0..N : R[n] # f[n]}
<1>1. N \in Nat
  BY EntriesType
<1>2. R[0] = c.mru /\ \A n \in 1..N : R[n] = c.next[R[n - 1]]
  BY RingFollows
<1>3. f[0] = c.mru /\ \A n \in 1..N : f[n] = c.next[f[n - 1]]
  OBVIOUS
<1> HIDE DEF R, N
<1>4. B = {}
  <2> SUFFICES ASSUME B # {} PROVE FALSE
    OBVIOUS
  <2>1. PICK m \in B : \A k \in B : m <= k
    <3>1. B \in SUBSET Nat
      OBVIOUS
    <3> HIDE DEF B
    <3> QED
      BY <3>1, LeastElement
  <2>2. m \in 0..N /\ R[m] # f[m]
    BY <2>1
  <2>3. m \in 1..N
    BY <1>1, <1>2, <1>3, <2>2
  <2>4. m - 1 \in 0..N /\ ~ (m <= m - 1)
    BY <1>1, <2>3
  <2>5. m - 1 \notin B
    <3> HIDE DEF B
    <3> QED
      BY <2>1, <2>4
  <2>6. R[m - 1] = f[m - 1]
    BY <2>4, <2>5
  <2> QED
    BY <1>2, <1>3, <2>2, <2>3, <2>6
<1> QED
  BY <1>4 DEF R, N

(* The first m places of the ring have the entries in use.                 *)
Placed(c, m) ==
  /\ m \in 0..Entries
  /\ \A n \in 0..(Entries - 1) : c.block[Ring(c)[n]] # Unset <=> n < m

LEMMA RecentIs ==
  ASSUME NEW c \in CacheType, NEW m, Placed(c, m)
  PROVE  /\ Recent(c) \in Seq(Nat) /\ Len(Recent(c)) = m
         /\ \A i \in 1..m : Recent(c)[i] = c.block[Ring(c)[i - 1]]
<1>1. m \in 0..Entries /\ Entries \in Nat \ {0}
  BY EntriesType DEF Placed
<1>2. c # None
  BY NoneAssumption
<1>3. {n \in Entry : c.block[Ring(c)[n - 1]] # Unset} = 1..m
  <2>1. ASSUME NEW n \in Entry
        PROVE  c.block[Ring(c)[n - 1]] # Unset <=> n \in 1..m
    <3>1. n \in 1..Entries
      BY DEF Entry
    <3>2. n - 1 \in 0..(Entries - 1)
      BY <1>1, <3>1
    <3>3. c.block[Ring(c)[n - 1]] # Unset <=> n - 1 < m
      BY <3>2 DEF Placed
    <3> QED
      BY <1>1, <3>1, <3>3
  <2>2. 1..m \subseteq Entry
    BY <1>1 DEF Entry
  <2> QED
    BY <2>1, <2>2
<1>4. Recent(c) = [n \in 1..m |-> c.block[Ring(c)[n - 1]]]
  BY <1>2, <1>3 DEF Recent
<1>5. ASSUME NEW i \in 1..m PROVE c.block[Ring(c)[i - 1]] \in Nat
  <2>1. i - 1 \in 0..(Entries - 1) /\ i - 1 < m
    BY <1>1
  <2>2. Ring(c)[i - 1] \in Entry
    BY <2>1, RingFollows
  <2>3. c.block \in [Entry -> Nat \cup {Unset}]
    BY DEF CacheType
  <2> QED
    BY <2>1, <2>2, <2>3 DEF Placed
<1>6. Recent(c) \in [1..m -> Nat]
  BY <1>4, <1>5
<1> HIDE DEF Recent
<1>7. Recent(c) \in Seq(Nat) /\ Len(Recent(c)) = m
  BY <1>1, <1>6
<1> QED
  BY <1>4, <1>7

(* An element moved, or put, to the front of a sequence.                   *)
LEMMA ToFront ==
  ASSUME NEW s \in Seq(Nat), NEW i \in 1..Len(s), NEW r \in Seq(Nat), Len(r) = Len(s),
         NEW b \in Nat, r[1] = b,
         \A j \in 2..i : r[j] = s[j - 1],
         \A j \in (i + 1)..Len(s) : r[j] = s[j]
  PROVE  r = <<b>> \o (SubSeq(s, 1, i - 1) \o SubSeq(s, i + 1, Len(s)))
<1> DEFINE u == SubSeq(s, 1, i - 1)
           v == SubSeq(s, i + 1, Len(s))
           t == u \o v
           z == <<b>> \o t
<1>1. Len(s) \in Nat /\ i \in Nat /\ i >= 1 /\ i <= Len(s)
  BY LenProperties
<1>2. \A j \in 1..Len(s) : s[j] \in Nat
  BY ElementOfSeq
<1>3. u \in Seq(Nat) /\ Len(u) = i - 1 /\ \A j \in 1..(i - 1) : u[j] = s[j]
  <2>1. 1 \in Int /\ i - 1 \in Int /\ \A j \in 1..(i - 1) : s[j] \in Nat
    BY <1>1, <1>2
  <2>2. u \in Seq(Nat) /\ Len(u) = (IF 1 <= i - 1 THEN (i - 1) - 1 + 1 ELSE 0)
    BY <2>1, SubSeqProperties
  <2>3. \A j \in 1..((i - 1) - 1 + 1) : u[j] = s[1 + j - 1]
    BY <2>1, SubSeqProperties
  <2> HIDE DEF u
  <2>4. Len(u) = i - 1
    BY <1>1, <2>2
  <2>5. ASSUME NEW j \in 1..(i - 1) PROVE u[j] = s[j]
    <3>1. j \in 1..((i - 1) - 1 + 1) /\ (1 + j - 1) = j
      BY <1>1
    <3> QED
      BY <2>3, <3>1
  <2> QED
    BY <2>2, <2>4, <2>5
<1>4. v \in Seq(Nat) /\ Len(v) = Len(s) - i /\ \A j \in 1..(Len(s) - i) : v[j] = s[i + j]
  <2>1. i + 1 \in Int /\ Len(s) \in Int /\ \A j \in (i + 1)..Len(s) : s[j] \in Nat
    BY <1>1, <1>2
  <2>2. v \in Seq(Nat) /\ Len(v) = (IF i + 1 <= Len(s) THEN Len(s) - (i + 1) + 1 ELSE 0)
    BY <2>1, SubSeqProperties
  <2>3. \A j \in 1..(Len(s) - (i + 1) + 1) : v[j] = s[(i + 1) + j - 1]
    BY <2>1, SubSeqProperties
  <2> HIDE DEF v
  <2>4. Len(v) = Len(s) - i
    BY <1>1, <2>2
  <2>5. ASSUME NEW j \in 1..(Len(s) - i) PROVE v[j] = s[i + j]
    <3>1. j \in 1..(Len(s) - (i + 1) + 1) /\ ((i + 1) + j - 1) = i + j
      BY <1>1
    <3> QED
      BY <2>3, <3>1
  <2> QED
    BY <2>2, <2>4, <2>5
<1> HIDE DEF u, v
<1>5. /\ t \in Seq(Nat) /\ Len(t) = Len(s) - 1
      /\ \A j \in 1..(Len(s) - 1) : t[j] = IF j <= i - 1 THEN s[j] ELSE s[j + 1]
  <2>1. /\ t \in Seq(Nat) /\ Len(t) = Len(u) + Len(v)
        /\ \A j \in 1..(Len(u) + Len(v)) : t[j] = IF j <= Len(u) THEN u[j] ELSE v[j - Len(u)]
    <3>1. u \in Seq(Nat) /\ v \in Seq(Nat)
      BY <1>3, <1>4
    <3> QED
      BY <3>1, ConcatProperties
  <2> HIDE DEF t
  <2>2. Len(u) + Len(v) = Len(s) - 1
    BY <1>1, <1>3, <1>4
  <2>3. ASSUME NEW j \in 1..(Len(s) - 1)
        PROVE  t[j] = IF j <= i - 1 THEN s[j] ELSE s[j + 1]
    <3>1. CASE j <= i - 1
      <4>1. j \in 1..(i - 1) /\ j <= Len(u) /\ j \in 1..(Len(u) + Len(v))
        BY <1>1, <1>3, <2>2, <3>1
      <4>2. t[j] = u[j]
        BY <2>1, <4>1
      <4>3. u[j] = s[j]
        BY <1>3, <4>1
      <4> QED
        BY <3>1, <4>2, <4>3
    <3>2. CASE ~ (j <= i - 1)
      <4>1. j - (i - 1) \in 1..(Len(s) - i) /\ i + (j - (i - 1)) = j + 1
        BY <1>1, <3>2
      <4>2. ~ (j <= Len(u)) /\ j \in 1..(Len(u) + Len(v)) /\ Len(u) = i - 1
        BY <1>1, <1>3, <2>2, <3>2
      <4>3. t[j] = v[j - (i - 1)]
        BY <2>1, <4>2
      <4>4. v[j - (i - 1)] = s[j + 1]
        BY <1>4, <4>1
      <4> QED
        BY <3>2, <4>3, <4>4
    <3> QED
      BY <3>1, <3>2
  <2> QED
    BY <2>1, <2>2, <2>3
<1> HIDE DEF t
<1>6. <<b>> \in Seq(Nat) /\ Len(<<b>>) = 1 /\ <<b>>[1] = b
  OBVIOUS
<1>7. /\ z \in Seq(Nat) /\ Len(z) = 1 + Len(t)
      /\ \A j \in 1..(1 + Len(t)) : z[j] = IF j <= 1 THEN <<b>>[j] ELSE t[j - 1]
  <2>1. t \in Seq(Nat) /\ <<b>> \in Seq(Nat) /\ Len(<<b>>) = 1
    BY <1>5, <1>6
  <2> QED
    BY <2>1, ConcatProperties
<1>8. Len(z) = Len(s)
  BY <1>1, <1>5, <1>7
<1> HIDE DEF z
<1>9. ASSUME NEW j \in 1..Len(s) PROVE r[j] = z[j]
  <2>1. j \in 1..(1 + Len(t))
    BY <1>1, <1>5
  <2>2. CASE j = 1
    BY <1>6, <1>7, <2>1, <2>2
  <2>3. CASE j # 1
    <3>1. j - 1 \in 1..(Len(s) - 1) /\ (j - 1) + 1 = j /\ ~ (j <= 1)
      BY <1>1, <2>3
    <3>2. z[j] = IF j - 1 <= i - 1 THEN s[j - 1] ELSE s[j]
      BY <1>5, <1>7, <2>1, <3>1
    <3>3. CASE j <= i
      <4>1. j \in 2..i /\ j - 1 <= i - 1
        BY <1>1, <2>3, <3>3
      <4> QED
        BY <3>2, <4>1
    <3>4. CASE ~ (j <= i)
      <4>1. j \in (i + 1)..Len(s) /\ ~ (j - 1 <= i - 1)
        BY <1>1, <3>4
      <4> QED
        BY <3>2, <4>1
    <3> QED
      BY <3>3, <3>4
  <2> QED
    BY <2>2, <2>3
<1>10. r = [j \in 1..Len(s) |-> r[j]] /\ z = [j \in 1..Len(s) |-> z[j]]
  <2>1. r \in [1..Len(r) -> Nat] /\ z \in [1..Len(z) -> Nat]
    BY <1>7, LenProperties
  <2> QED
    BY <1>8, <2>1
<1>11. r = z
  BY <1>9, <1>10
<1> QED
  BY <1>11 DEF z, t, u, v

LEMMA NewFront ==
  ASSUME NEW s \in Seq(Nat), NEW r \in Seq(Nat), NEW b \in Nat, r[1] = b,
         Len(r) = Len(s) + 1, \A j \in 1..Len(s) : r[j + 1] = s[j]
  PROVE  r = <<b>> \o s
<1> DEFINE z == <<b>> \o s
<1>1. Len(s) \in Nat
  BY LenProperties
<1>2. <<b>> \in Seq(Nat) /\ Len(<<b>>) = 1 /\ <<b>>[1] = b
  OBVIOUS
<1>3. /\ z \in Seq(Nat) /\ Len(z) = 1 + Len(s)
      /\ \A j \in 1..(1 + Len(s)) : z[j] = IF j <= 1 THEN <<b>>[j] ELSE s[j - 1]
  BY <1>2, ConcatProperties
<1> HIDE DEF z
<1>4. ASSUME NEW j \in 1..(1 + Len(s)) PROVE r[j] = z[j]
  <2>1. CASE j = 1
    BY <1>2, <1>3, <2>1
  <2>2. CASE j # 1
    <3>1. j - 1 \in 1..Len(s) /\ (j - 1) + 1 = j /\ ~ (j <= 1)
      BY <1>1, <2>2
    <3>2. r[j] = s[j - 1]
      BY <3>1
    <3> QED
      BY <1>3, <3>1, <3>2
  <2> QED
    BY <2>1, <2>2
<1>5. r = [j \in 1..(1 + Len(s)) |-> r[j]] /\ z = [j \in 1..(1 + Len(s)) |-> z[j]]
  <2>1. r \in [1..Len(r) -> Nat] /\ z \in [1..Len(z) -> Nat]
    BY <1>3, LenProperties
  <2>2. Len(r) = 1 + Len(s)
    BY <1>1
  <2> QED
    BY <1>3, <2>1, <2>2
<1>6. r = z
  BY <1>4, <1>5
<1> QED
  BY <1>6 DEF z

(* The ring after an entry was moved to its head.                          *)
LEMMA TouchRing ==
  ASSUME NEW c, RingInv(c), NEW R, R = Ring(c), NEW k \in 0..(Entries - 1),
         NEW w, w = Touch(c, R[k])
  PROVE  /\ Ring(w)[0] = R[k]
         /\ \A n \in 1..k : Ring(w)[n] = R[n - 1]
         /\ \A n \in (k + 1)..(Entries - 1) : Ring(w)[n] = R[n]
<1> DEFINE N == Entries - 1
<1>1. /\ N \in Nat /\ N + 1 = Entries
      /\ R \in [0..N -> Entry] /\ R[0] = c.mru
      /\ \A n \in 1..N : R[n] = c.next[R[n - 1]] /\ c.prev[R[n]] = R[n - 1]
      /\ \A i, j \in 0..N : R[i] = R[j] => i = j
      /\ c.next[R[N]] = R[0] /\ c.prev[R[0]] = R[N]
  BY RingIs
<1>2. k \in 0..N
  OBVIOUS
<1>3. w = Touch(c, R[k])
  OBVIOUS
<1> HIDE DEF N
<1>4. CASE k = 0
  <2>1. w = c
    BY <1>1, <1>4 DEF Touch
  <2> QED
    BY <1>4, <2>1
<1>5. CASE k # 0
  <2> DEFINE e == R[k]
             f == [n \in 0..N |-> IF n = 0 THEN R[k] ELSE IF n <= k THEN R[n - 1] ELSE R[n]]
  <2>1. k \in 1..N /\ k - 1 \in 0..N /\ 0 \in 0..N /\ N \in 0..N
    BY <1>1, <1>2, <1>5
  <2>2. e \in Entry /\ e # c.mru
    BY <1>1, <1>2, <1>5, <2>1
  <2>3. PICK m : m = c.mru
    OBVIOUS
  <2>4. PICK p : p = c.prev[e]
    OBVIOUS
  <2>5. PICK q : q = c.next[e]
    OBVIOUS
  <2>6. PICK t : t = (IF m = q THEN p ELSE c.prev[m])
    OBVIOUS
  <2>7. /\ w \in CacheType /\ w.mru = e
        /\ p # e /\ q # e /\ t # e
        /\ w.next[e] = m /\ w.next[t] = e
        /\ p # t => w.next[p] = q
        /\ \A x \in Entry \ {e, t, p} : w.next[x] = c.next[x]
    BY <1>3, <2>2, <2>3, <2>4, <2>5, <2>6, TouchLinks
  <2>8. m = R[0] /\ p = R[k - 1]
    BY <1>1, <2>1, <2>3, <2>4
  <2>9. k # N => q = R[k + 1] /\ q # m
    <3> SUFFICES ASSUME k # N PROVE q = R[k + 1] /\ q # m
      OBVIOUS
    <3>1. k + 1 \in 1..N /\ (k + 1) - 1 = k /\ k + 1 \in 0..N /\ k + 1 # 0
      BY <1>1, <2>1
    <3>2. q = R[k + 1]
      BY <1>1, <2>5, <3>1
    <3>3. R[k + 1] # R[0]
      BY <1>1, <2>1, <3>1
    <3> QED
      BY <2>8, <3>2, <3>3
  <2>10. k = N => q = m /\ t = R[N - 1]
    BY <1>1, <2>5, <2>6, <2>8
  <2>11. k # N => t = R[N]
    BY <1>1, <2>6, <2>8, <2>9
  <2>12. f[0] = w.mru
    BY <2>1, <2>7
  <2> HIDE DEF e
  <2>13. ASSUME NEW n \in 1..N PROVE f[n] = w.next[f[n - 1]]
    <3>0. n \in 0..N /\ n - 1 \in 0..N /\ n # 0 /\ n \in Int
      BY <1>1
    <3>1. CASE n = 1
      <4>1. f[n - 1] = e
        BY <3>0, <3>1 DEF e
      <4>2. f[n] = R[0]
        BY <2>1, <3>0, <3>1
      <4> QED
        BY <2>7, <2>8, <4>1, <4>2
    <3>2. CASE n # 1 /\ n <= k
      <4>1. n - 2 \in 0..N /\ n - 1 <= k /\ n - 1 # 0 /\ (n - 1) - 1 = n - 2 /\ n - 1 \in 1..N
        BY <1>1, <2>1, <3>0, <3>2
      <4>2. f[n - 1] = R[n - 2] /\ f[n] = R[n - 1]
        BY <3>0, <3>2, <4>1
      <4>3. c.next[R[n - 2]] = R[n - 1]
        BY <1>1, <4>1
      <4>4. R[n - 2] \in Entry /\ R[n - 2] # e /\ R[n - 2] # p
        <5>1. n - 2 # k /\ n - 2 # k - 1
          BY <2>1, <3>0, <3>2
        <5> QED
          BY <1>1, <1>2, <2>1, <2>8, <4>1, <5>1 DEF e
      <4>5. R[n - 2] # t
        <5>1. n - 2 # N /\ (k = N => n - 2 # N - 1) /\ (k = N => N - 1 \in 0..N)
          BY <1>1, <2>1, <3>0, <3>2
        <5> QED
          BY <1>1, <2>1, <2>10, <2>11, <4>1, <5>1
      <4> QED
        BY <2>7, <4>2, <4>3, <4>4, <4>5
    <3>3. CASE n = k + 1
      <4>1. k # N /\ ~ (n <= k) /\ n - 1 = k
        BY <1>1, <2>1, <3>0, <3>3
      <4>2. f[n - 1] = R[k - 1]
        BY <2>1, <3>0, <4>1
      <4>3. f[n] = R[k + 1]
        BY <3>0, <3>3, <4>1
      <4>4. p # t
        <5>1. k - 1 # N
          BY <1>1, <2>1
        <5> QED
          BY <1>1, <2>1, <2>8, <2>11, <4>1, <5>1
      <4> QED
        BY <2>7, <2>8, <2>9, <4>1, <4>2, <4>3, <4>4
    <3>4. CASE n # k + 1 /\ ~ (n <= k)
      <4>1. k # N /\ ~ (n - 1 <= k) /\ n - 1 # 0
        BY <1>1, <2>1, <3>0, <3>4
      <4>2. f[n - 1] = R[n - 1] /\ f[n] = R[n]
        BY <3>0, <3>4, <4>1
      <4>3. R[n - 1] \in Entry /\ R[n - 1] # e /\ R[n - 1] # p /\ R[n - 1] # t
        <5>1. n - 1 # k /\ n - 1 # k - 1 /\ n - 1 # N
          BY <1>1, <2>1, <3>0, <3>4
        <5> QED
          BY <1>1, <1>2, <2>1, <2>8, <2>11, <3>0, <4>1, <5>1 DEF e
      <4> QED
        BY <1>1, <2>7, <3>0, <4>2, <4>3
    <3> QED
      BY <3>0, <3>1, <3>2, <3>3, <3>4, <2>1
  <2>14. \A n \in 0..N : Ring(w)[n] = f[n]
    <3> HIDE DEF f
    <3> QED
      BY <2>7, <2>12, <2>13, RingOf DEF N
  <2>15. Ring(w)[0] = R[k]
    BY <2>1, <2>14
  <2>16. ASSUME NEW n \in 1..k PROVE Ring(w)[n] = R[n - 1]
    <3>1. n \in 0..N /\ n # 0 /\ n <= k
      BY <2>1
    <3> QED
      BY <2>14, <3>1
  <2>17. ASSUME NEW n \in (k + 1)..N PROVE Ring(w)[n] = R[n]
    <3>1. n \in 0..N /\ n # 0 /\ ~ (n <= k)
      BY <1>1, <2>1
    <3> QED
      BY <2>14, <3>1
  <2> QED
    BY <2>15, <2>16, <2>17 DEF N
<1> QED
  BY <1>4, <1>5

(* r is s with b moved to the front.                                       *)
Moved(s, r, b) ==
  \E i \in 1..Len(s) :
    /\ s[i] = b
    /\ r = <<b>> \o (SubSeq(s, 1, i - 1) \o SubSeq(s, i + 1, Len(s)))

(* A hit moves the block to the front.                                     *)
LEMMA TouchRecent ==
  ASSUME NEW d \in Devices, NEW c, Coherent(d, c), NEW m, Placed(c, m), NEW b \in Nat,
         Hits(c, b) # {}, NEW w, w = Touch(c, Found(c, b))
  PROVE  Placed(w, m) /\ Moved(Recent(c), Recent(w), b)
<1> DEFINE N == Entries - 1
           R == Ring(c)
           k == Min(Hits(c, b))
           s == Recent(c)
           r == Recent(w)
<1>1. RingInv(c) /\ c \in CacheType
  BY DEF Coherent, RingInv
<1>2. N \in Nat /\ N + 1 = Entries /\ R \in [0..N -> Entry]
  BY <1>1, RingIs
<1>3. k \in 0..N /\ c.block[R[k]] = b /\ Found(c, b) = R[k]
  <2>1. Hits(c, b) = {n \in 0..N : c.block[R[n]] = b}
    BY <1>2 DEF Hits
  <2>2. Hits(c, b) \in SUBSET Nat
    BY <2>1
  <2>3. \E x \in Hits(c, b) : \A y \in Hits(c, b) : x <= y
    BY <2>2, LeastElement
  <2>4. k \in Hits(c, b)
    BY <2>3 DEF Min
  <2> QED
    BY <2>1, <2>4 DEF Found
<1>4. w = Touch(c, R[k]) /\ R[k] \in Entry
  BY <1>2, <1>3
<1>5. RingInv(w) /\ w \in CacheType /\ w.block = c.block
  <2>1. RingInv(w) /\ w.block = c.block
    BY <1>1, <1>4, TouchKeepsRing
  <2> QED
    BY <2>1 DEF RingInv
<1>6. m \in 0..Entries /\ \A n \in 0..N : c.block[R[n]] # Unset <=> n < m
  BY DEF Placed
<1>7. b # Unset /\ k < m
  <2>1. b # Unset
    BY DevicesAssumption
  <2> QED
    BY <1>3, <1>6, <2>1
<1> HIDE DEF k
<1>8. /\ Ring(w)[0] = R[k]
      /\ \A n \in 1..k : Ring(w)[n] = R[n - 1]
      /\ \A n \in (k + 1)..N : Ring(w)[n] = R[n]
  BY <1>1, <1>3, <1>4, TouchRing
<1> HIDE DEF N, R
<1>9. ASSUME NEW n \in 0..N PROVE w.block[Ring(w)[n]] # Unset <=> n < m
  <2>1. CASE n = 0
    BY <1>3, <1>5, <1>6, <1>7, <1>8, <2>1
  <2>2. CASE n \in 1..k
    <3>1. n - 1 \in 0..N /\ n - 1 < m /\ n < m
      BY <1>2, <1>3, <1>6, <1>7, <2>2
    <3> QED
      BY <1>5, <1>6, <1>8, <2>2, <3>1
  <2>3. CASE n \in (k + 1)..N
    BY <1>5, <1>6, <1>8, <2>3
  <2> QED
    BY <1>2, <1>3, <2>1, <2>2, <2>3
<1>10. Placed(w, m)
  BY <1>2, <1>6, <1>9 DEF Placed, N
<1>11. /\ s \in Seq(Nat) /\ Len(s) = m
       /\ \A i \in 1..m : s[i] = c.block[R[i - 1]]
  BY <1>1, RecentIs DEF R
<1>12. /\ r \in Seq(Nat) /\ Len(r) = m
       /\ \A i \in 1..m : r[i] = w.block[Ring(w)[i - 1]]
  BY <1>5, <1>10, RecentIs
<1> HIDE DEF s, r
<1>13. k + 1 \in 1..m /\ (k + 1) - 1 = k /\ 1 \in 1..m /\ 1 - 1 = 0
  BY <1>3, <1>6, <1>7
<1>14. s[k + 1] = b
  BY <1>3, <1>11, <1>13
<1>15. r[1] = b
  BY <1>3, <1>5, <1>8, <1>12, <1>13
<1>16. ASSUME NEW j \in 2..(k + 1) PROVE r[j] = s[j - 1]
  <2>1. j \in 1..m /\ j - 1 \in 1..m /\ j - 1 \in 1..k
    BY <1>3, <1>6, <1>7
  <2>2. r[j] = c.block[Ring(w)[j - 1]]
    BY <1>5, <1>12, <2>1
  <2>3. Ring(w)[j - 1] = R[(j - 1) - 1]
    BY <1>8, <2>1
  <2>4. s[j - 1] = c.block[R[(j - 1) - 1]]
    BY <1>11, <2>1
  <2> QED
    BY <2>2, <2>3, <2>4
<1>17. ASSUME NEW j \in ((k + 1) + 1)..Len(s) PROVE r[j] = s[j]
  <2>1. j \in 1..m /\ j - 1 \in (k + 1)..N
    BY <1>2, <1>3, <1>6, <1>7, <1>11
  <2>2. r[j] = c.block[Ring(w)[j - 1]]
    BY <1>5, <1>12, <2>1
  <2>3. Ring(w)[j - 1] = R[j - 1]
    BY <1>8, <2>1
  <2>4. s[j] = c.block[R[j - 1]]
    BY <1>11, <2>1
  <2> QED
    BY <2>2, <2>3, <2>4
<1>18. k + 1 \in 1..Len(s) /\ Len(r) = Len(s)
  BY <1>11, <1>12, <1>13
<1>19. r = <<b>> \o (SubSeq(s, 1, (k + 1) - 1) \o SubSeq(s, (k + 1) + 1, Len(s)))
  BY <1>11, <1>12, <1>15, <1>16, <1>17, <1>18, ToFront
<1> QED
  BY <1>10, <1>14, <1>18, <1>19 DEF s, r, Moved

(* A miss puts the block at the front, and the oldest out if all entries   *)
(* are in use.                                                             *)
LEMMA FillRecent ==
  ASSUME NEW d \in Devices, NEW c, Coherent(d, c), NEW m, Placed(c, m), NEW b \in Nat,
         NEW from, NEW w, w = Fill(c, b, from), w \in CacheType
  PROVE  /\ Placed(w, IF m = Entries THEN m ELSE m + 1)
         /\ Recent(w) = <<b>> \o (IF Len(Recent(c)) = Entries
                                  THEN SubSeq(Recent(c), 1, Len(Recent(c)) - 1)
                                  ELSE Recent(c))
<1> DEFINE N == Entries - 1
           R == Ring(c)
           q == IF m = Entries THEN m ELSE m + 1
           s == Recent(c)
           r == Recent(w)
           f == [n \in 0..N |-> IF n = 0 THEN R[N] ELSE R[n - 1]]
<1>1. RingInv(c) /\ c \in CacheType
  BY DEF Coherent, RingInv
<1>2. /\ N \in Nat /\ N + 1 = Entries
      /\ R \in [0..N -> Entry] /\ R[0] = c.mru
      /\ \A n \in 1..N : R[n] = c.next[R[n - 1]]
      /\ \A i, j \in 0..N : R[i] = R[j] => i = j
      /\ c.next[R[N]] = R[0] /\ c.prev[R[0]] = R[N]
  BY <1>1, RingIs
<1>3. /\ w.mru = R[N] /\ w.next = c.next
      /\ w.block = [c.block EXCEPT ![R[N]] = b]
  BY <1>1, <1>2 DEF Fill, CacheType
<1>4. c.block \in [Entry -> Nat \cup {Unset}]
  BY <1>1 DEF CacheType
<1>5. m \in 0..Entries /\ \A n \in 0..N : c.block[R[n]] # Unset <=> n < m
  BY DEF Placed
<1> HIDE DEF N, R
<1>6. N \in 0..N /\ 0 \in 0..N
  BY <1>2
<1>7. \A n \in 0..N : Ring(w)[n] = f[n]
  <2>1. f[0] = w.mru
    BY <1>3, <1>6
  <2>2. ASSUME NEW n \in 1..N PROVE f[n] = w.next[f[n - 1]]
    <3>1. n \in 0..N /\ n # 0 /\ n - 1 \in 0..N
      BY <1>2
    <3>2. f[n] = R[n - 1]
      BY <3>1
    <3>3. CASE n = 1
      BY <1>2, <1>3, <1>6, <3>2, <3>3
    <3>4. CASE n # 1
      <4>1. n - 1 # 0 /\ n - 1 \in 1..N
        BY <1>2, <3>4
      <4>2. f[n - 1] = R[(n - 1) - 1]
        BY <3>1, <4>1
      <4>3. R[n - 1] = c.next[R[(n - 1) - 1]]
        BY <1>2, <4>1
      <4> QED
        BY <1>3, <3>2, <4>2, <4>3
    <3> QED
      BY <3>3, <3>4
  <2> HIDE DEF f
  <2> QED
    BY <2>1, <2>2, RingOf DEF N
<1>8. w.block[Ring(w)[0]] = b
  BY <1>2, <1>3, <1>4, <1>6, <1>7
<1>9. ASSUME NEW n \in 1..N PROVE w.block[Ring(w)[n]] = c.block[R[n - 1]]
  <2>1. n \in 0..N /\ n # 0 /\ n - 1 \in 0..N /\ n - 1 # N
    BY <1>2
  <2>2. Ring(w)[n] = R[n - 1]
    BY <1>7, <2>1
  <2>3. R[n - 1] \in Entry /\ R[n - 1] # R[N]
    BY <1>2, <1>6, <2>1
  <2> QED
    BY <1>3, <1>4, <2>2, <2>3
<1> HIDE DEF f
<1>10. b # Unset
  BY DevicesAssumption
<1>11. q \in 0..Entries /\ 1 <= q /\ q <= m + 1
  BY <1>2, <1>5
<1>12. ASSUME NEW n \in 0..N PROVE w.block[Ring(w)[n]] # Unset <=> n < q
  <2>1. CASE n = 0
    BY <1>8, <1>10, <1>11, <2>1
  <2>2. CASE n # 0
    <3>1. n \in 1..N /\ n - 1 \in 0..N
      BY <1>2, <2>2
    <3>2. n - 1 < m <=> n < q
      BY <1>2, <1>5, <3>1
    <3> QED
      BY <1>5, <1>9, <3>1, <3>2
  <2> QED
    BY <2>1, <2>2
<1>13. Placed(w, q)
  BY <1>2, <1>11, <1>12 DEF Placed, N
<1>14. /\ s \in Seq(Nat) /\ Len(s) = m
       /\ \A i \in 1..m : s[i] = c.block[R[i - 1]]
  BY <1>1, RecentIs DEF R
<1>15. /\ r \in Seq(Nat) /\ Len(r) = q
       /\ \A i \in 1..q : r[i] = w.block[Ring(w)[i - 1]]
  BY <1>13, RecentIs
<1> HIDE DEF s, r
<1>16. r[1] = b
  <2>1. 1 \in 1..q /\ 1 - 1 = 0
    BY <1>5, <1>11
  <2> QED
    BY <1>8, <1>15, <2>1
<1>17. ASSUME NEW j \in 1..(q - 1) PROVE r[j + 1] = s[j]
  <2>1. j + 1 \in 1..q /\ (j + 1) - 1 = j /\ j \in 1..m /\ j \in 1..N
    BY <1>2, <1>5, <1>11
  <2>2. r[j + 1] = w.block[Ring(w)[j]]
    BY <1>15, <2>1
  <2>3. s[j] = c.block[R[j - 1]]
    BY <1>14, <2>1
  <2> QED
    BY <1>9, <2>1, <2>2, <2>3
<1>18. r = <<b>> \o (IF Len(s) = Entries THEN SubSeq(s, 1, Len(s) - 1) ELSE s)
  <2>1. CASE m = Entries
    <3> DEFINE u == SubSeq(s, 1, m - 1)
    <3>1. 1 \in Int /\ m - 1 \in Int /\ \A j \in 1..(m - 1) : s[j] \in Nat
      <4>1. s \in Seq(Nat) /\ Len(s) = m /\ m \in Nat
        BY <1>2, <1>5, <1>14
      <4>2. \A j \in 1..(m - 1) : j \in 1..Len(s)
        BY <4>1
      <4> QED
        BY <4>1, <4>2, ElementOfSeq
    <3>2. /\ u \in Seq(Nat) /\ Len(u) = (IF 1 <= m - 1 THEN (m - 1) - 1 + 1 ELSE 0)
          /\ \A j \in 1..((m - 1) - 1 + 1) : u[j] = s[1 + j - 1]
      BY <3>1, SubSeqProperties
    <3> HIDE DEF u
    <3>3. Len(u) = m - 1 /\ q = m
      BY <1>2, <1>5, <2>1, <3>2
    <3>4. ASSUME NEW j \in 1..Len(u) PROVE r[j + 1] = u[j]
      <4>1. j \in 1..(q - 1) /\ j \in 1..((m - 1) - 1 + 1) /\ 1 + j - 1 = j
        BY <1>2, <1>5, <3>3
      <4> QED
        BY <1>17, <3>2, <4>1
    <3>5. Len(r) = Len(u) + 1
      BY <1>2, <1>5, <1>15, <3>3
    <3>6. r = <<b>> \o u
      BY <1>15, <1>16, <3>2, <3>4, <3>5, NewFront
    <3> QED
      BY <1>14, <2>1, <3>6 DEF u
  <2>2. CASE m # Entries
    <3>1. q = m + 1 /\ q - 1 = Len(s) /\ Len(r) = Len(s) + 1
      BY <1>5, <1>14, <1>15, <2>2
    <3>2. r = <<b>> \o s
      BY <1>14, <1>15, <1>16, <1>17, <3>1, NewFront
    <3> QED
      BY <1>14, <2>2, <3>2
  <2> QED
    BY <2>1, <2>2
<1> QED
  BY <1>13, <1>18 DEF s, r, q

(* A read that fails puts out the oldest, if all entries are in use.       *)
LEMMA FailRecent ==
  ASSUME NEW d \in Devices, NEW c, Coherent(d, c), NEW m, Placed(c, m),
         NEW from, NEW w, w = Fail(c, from), w \in CacheType
  PROVE  /\ Placed(w, IF m = Entries THEN m - 1 ELSE m)
         /\ Recent(w) = IF Len(Recent(c)) = Entries
                        THEN SubSeq(Recent(c), 1, Len(Recent(c)) - 1)
                        ELSE Recent(c)
<1> DEFINE N == Entries - 1
           R == Ring(c)
           q == IF m = Entries THEN m - 1 ELSE m
           s == Recent(c)
           r == Recent(w)
<1>1. RingInv(c) /\ c \in CacheType
  BY DEF Coherent, RingInv
<1>2. /\ N \in Nat /\ N + 1 = Entries
      /\ R \in [0..N -> Entry] /\ R[0] = c.mru
      /\ \A i, j \in 0..N : R[i] = R[j] => i = j
      /\ c.prev[R[0]] = R[N]
  BY <1>1, RingIs
<1>3. /\ w.mru = c.mru /\ w.next = c.next
      /\ w.block = [c.block EXCEPT ![R[N]] = Unset]
  BY <1>1, <1>2 DEF Fail, CacheType
<1>4. c.block \in [Entry -> Nat \cup {Unset}]
  BY <1>1 DEF CacheType
<1>5. m \in 0..Entries /\ \A n \in 0..N : c.block[R[n]] # Unset <=> n < m
  BY DEF Placed
<1>6. Ring(w) = R
  BY <1>3 DEF Ring
<1> HIDE DEF N, R
<1>7. N \in 0..N
  BY <1>2
<1>8. q \in 0..Entries /\ q <= m /\ q <= N
  BY <1>2, <1>5
<1>9. ASSUME NEW n \in 0..N PROVE w.block[Ring(w)[n]] # Unset <=> n < q
  <2>1. CASE n = N
    <3>1. w.block[Ring(w)[n]] = Unset
      BY <1>2, <1>3, <1>4, <1>6, <2>1
    <3>2. ~ (n < q)
      BY <1>2, <1>8, <2>1
    <3> QED
      BY <3>1, <3>2
  <2>2. CASE n # N
    <3>1. w.block[Ring(w)[n]] = c.block[R[n]]
      BY <1>2, <1>3, <1>4, <1>6, <1>7, <2>2
    <3>2. n < m <=> n < q
      BY <1>2, <1>5, <2>2
    <3> QED
      BY <1>5, <3>1, <3>2
  <2> QED
    BY <2>1, <2>2
<1>10. Placed(w, q)
  BY <1>2, <1>8, <1>9 DEF Placed, N
<1>11. /\ s \in Seq(Nat) /\ Len(s) = m
       /\ \A i \in 1..m : s[i] = c.block[R[i - 1]]
  BY <1>1, RecentIs DEF R
<1>12. /\ r \in Seq(Nat) /\ Len(r) = q
       /\ \A i \in 1..q : r[i] = w.block[R[i - 1]]
  BY <1>6, <1>10, RecentIs
<1> HIDE DEF s, r
<1>13. ASSUME NEW j \in 1..q PROVE r[j] = s[j]
  <2>1. j - 1 \in 0..N /\ j - 1 # N /\ j \in 1..m
    BY <1>2, <1>5, <1>8
  <2>2. R[j - 1] \in Entry /\ R[j - 1] # R[N]
    BY <1>2, <1>7, <2>1
  <2>3. w.block[R[j - 1]] = c.block[R[j - 1]]
    BY <1>3, <1>4, <2>2
  <2> QED
    BY <1>11, <1>12, <2>1, <2>3
<1>14. r = [j \in 1..q |-> r[j]]
  BY <1>12, LenProperties
<1>15. r = IF Len(s) = Entries THEN SubSeq(s, 1, Len(s) - 1) ELSE s
  <2>1. CASE m = Entries
    <3> DEFINE u == SubSeq(s, 1, m - 1)
    <3>1. 1 \in Int /\ m - 1 \in Int /\ \A j \in 1..(m - 1) : s[j] \in Nat
      <4>1. s \in Seq(Nat) /\ Len(s) = m /\ m \in Nat
        BY <1>2, <1>5, <1>11
      <4>2. \A j \in 1..(m - 1) : j \in 1..Len(s)
        BY <4>1
      <4> QED
        BY <4>1, <4>2, ElementOfSeq
    <3>2. /\ u \in Seq(Nat) /\ Len(u) = (IF 1 <= m - 1 THEN (m - 1) - 1 + 1 ELSE 0)
          /\ \A j \in 1..((m - 1) - 1 + 1) : u[j] = s[1 + j - 1]
      BY <3>1, SubSeqProperties
    <3> HIDE DEF u
    <3>3. Len(u) = q
      BY <1>2, <1>5, <2>1, <3>2
    <3>4. ASSUME NEW j \in 1..q PROVE r[j] = u[j]
      <4>1. j \in 1..((m - 1) - 1 + 1) /\ 1 + j - 1 = j
        BY <1>2, <1>5, <2>1
      <4> QED
        BY <1>13, <3>2, <4>1
    <3>5. u = [j \in 1..q |-> u[j]]
      BY <3>2, <3>3, LenProperties
    <3>6. r = u
      BY <1>14, <3>4, <3>5
    <3> QED
      BY <1>11, <2>1, <3>6 DEF u
  <2>2. CASE m # Entries
    <3>1. s = [j \in 1..q |-> s[j]]
      BY <1>11, <2>2, LenProperties
    <3>2. r = s
      BY <1>13, <1>14, <3>1
    <3> QED
      BY <1>11, <2>2, <3>2
  <2> QED
    BY <2>1, <2>2
<1> QED
  BY <1>10, <1>15 DEF s, r, q

(* What ImplementsLru needs of the caches besides BlockInv.                *)
LruInv == \A d \in Devices : cache[d] # None => \E m \in 0..Entries : Placed(cache[d], m)

(* The refinement mapping of what is remembered.                           *)
RecentOf == [d \in Devices |-> Recent(cache[d])]

(* What changes in one cache is what changes in the order it remembers.    *)
LEMMA OneRecent ==
  ASSUME BlockInv, LruInv, NEW d \in Devices, NEW w, NEW m, Placed(w, m),
         cache' = [cache EXCEPT ![d] = w]
  PROVE  LruInv' /\ RecentOf' = [RecentOf EXCEPT ![d] = Recent(w)]
<1>1. cache' \in [Devices -> CacheType \cup {None, w}] /\ cache'[d] = w
      /\ \A e \in Devices : e # d => cache'[e] = cache[e]
  BY DEF BlockInv
<1>2. LruInv'
  <2>1. m \in 0..Entries
    BY DEF Placed
  <2>2. ASSUME NEW e \in Devices, cache'[e] # None
        PROVE  \E n \in 0..Entries : Placed(cache'[e], n)
    BY <1>1, <2>1, <2>2 DEF LruInv
  <2>3. \A e \in Devices : cache'[e] # None => \E n \in 0..Entries : Placed(cache'[e], n)
    BY <2>2
  <2> QED
    BY <2>3 DEF LruInv, Placed
<1>3. RecentOf' = [e \in Devices |-> Recent(cache'[e])]
  BY DEF RecentOf, Recent
<1>4. [RecentOf EXCEPT ![d] = Recent(w)] = [e \in Devices |-> Recent(cache'[e])]
  <2>1. RecentOf = [e \in Devices |-> Recent(cache[e])]
    BY DEF RecentOf
  <2> HIDE DEF RecentOf, Recent
  <2> QED
    BY <1>1, <2>1
<1> QED
  BY <1>2, <1>3, <1>4

LEMMA CachePlaced ==
  ASSUME BlockInv, LruInv, NEW d \in Devices, NEW c, c = cache[d], c # None
  PROVE  /\ Coherent(d, c) /\ c \in CacheType /\ \E m \in 0..Entries : Placed(c, m)
         /\ RecentOf[d] = Recent(c)
<1>1. Coherent(d, c) /\ \E m \in 0..Entries : Placed(c, m)
  BY DEF BlockInv, LruInv
<1>2. c \in CacheType
  BY <1>1 DEF Coherent, RingInv
<1>3. RecentOf[d] = Recent(c)
  BY DEF RecentOf
<1> QED
  BY <1>1, <1>2, <1>3

(* A block inside a device is a key.                                       *)
LEMMA InsideKey ==
  ASSUME NEW d \in Devices, NEW b \in Nat, b + 1 <= Blocks[d]
  PROVE  b \in UNION {0..Blocks[e] : e \in Devices}
<1>1. Blocks[d] \in Nat
  BY DevicesAssumption
<1>2. b \in 0..Blocks[d]
  BY <1>1
<1> QED
  BY <1>2

LEMMA HitIsFind ==
  ASSUME BlockInv, LruInv, NEW d \in Devices, NEW off \in Nat, NEW size \in Nat,
         ReadHit(d, off, size)
  PROVE  LruInv' /\ Lru!Next
<1> DEFINE b == BlockOf(off)
           c == cache[d]
           w == Touch(c, Found(c, b))
           Keys == UNION {0..Blocks[e] : e \in Devices}
<1>1. /\ c # None /\ Hits(c, b) # {}
      /\ cache' = [cache EXCEPT ![d] = w]
      /\ last'.via = "cache" /\ last'.error = "NONE" /\ last'.dev = d /\ last'.off = off
  BY DEF ReadHit, BlockInv, Answer
<1>2. Coherent(d, c) /\ RingInv(c) /\ c \in CacheType /\ \E m \in 0..Entries : Placed(c, m)
      /\ RecentOf[d] = Recent(c)
  BY <1>1, CachePlaced DEF Coherent
<1>3. b \in Nat
  BY BlockOfOffset
<1>4. b \in Keys
  <2>1. Found(c, b) \in Entry /\ c.block[Found(c, b)] = b
    BY <1>1, <1>2, FoundHolds
  <2>2. b + 1 <= Blocks[d]
    <3>1. b # Unset
      BY <1>3, DevicesAssumption
    <3> HIDE DEF b, c
    <3> QED
      BY <1>2, <2>1, <3>1 DEF Coherent
  <2> QED
    BY <1>3, <2>2, InsideKey
<1>5. PICK m \in 0..Entries : Placed(c, m)
  BY <1>2
<1>6. w = Touch(c, Found(c, b))
  OBVIOUS
<1>7. b = BlockOf(off)
  OBVIOUS
<1> HIDE DEF b, c, w, Keys
<1>8. Placed(w, m) /\ Moved(Recent(c), Recent(w), b)
  BY <1>1, <1>2, <1>3, <1>5, <1>6, TouchRecent
<1>9. PICK i \in 1..Len(Recent(c)) :
        /\ Recent(c)[i] = b
        /\ Recent(w) = <<b>> \o (SubSeq(Recent(c), 1, i - 1)
                                   \o SubSeq(Recent(c), i + 1, Len(Recent(c))))
  BY <1>8 DEF Moved
<1>10. LruInv' /\ RecentOf' = [RecentOf EXCEPT ![d] = Recent(w)]
  BY <1>1, <1>8, OneRecent
<1>11. i \in DOMAIN Recent(c)
  BY <1>2, <1>5, <1>9, RecentIs, LenProperties
<1>12. Lru!Find(d, b)
  <2>1. /\ i \in DOMAIN RecentOf[d] /\ RecentOf[d][i] = b
        /\ RecentOf' = [RecentOf EXCEPT ![d] = <<b>> \o Lru!RemoveAt(RecentOf[d], i)]
    BY <1>2, <1>9, <1>10, <1>11 DEF Lru!RemoveAt
  <2>2. (IF last.via = "cache" /\ last.error = "NONE"
          THEN <<last.dev, BlockOf(last.off)>> ELSE None)' = <<d, b>>
    BY <1>1, <1>7
  <2> QED
    BY <2>1, <2>2 DEF Lru!Find, RecentOf
<1> QED
  BY <1>4, <1>10, <1>12 DEF Lru!Next, Keys

LEMMA MissIsRemember ==
  ASSUME BlockInv, LruInv, NEW d \in Devices, NEW off \in Nat, NEW size \in Nat,
         ReadMiss(d, off, size)
  PROVE  LruInv' /\ Lru!Next
<1> DEFINE b == BlockOf(off)
           c == cache[d]
           r == [block |-> b, count |-> 1, area |-> "entry", at |-> 0]
           from(o) == IF r \in o.arrived THEN Shift(d, b) ELSE c.data[c.prev[c.mru]]
           bytes(o) == IF o.error = "NONE" THEN Part(from(o), off, size) ELSE <<>>
           Keys == UNION {0..Blocks[e] : e \in Devices}
<1>1. c # None /\ Hits(c, b) = {}
  BY DEF ReadMiss
<1>2. PICK o \in ReadV(d, {r}) :
        /\ cache' = [cache EXCEPT ![d] = IF o.error = "NONE" THEN Fill(c, b, from(o))
                                                           ELSE Fail(c, from(o))]
        /\ last' = Answer("cache", d, off, size, o.error, bytes(o), Sent(d, {r}, o.error))
  BY DEF ReadMiss, BlockInv
<1>3. last'.via = "cache" /\ last'.error = o.error /\ last'.dev = d /\ last'.off = off
  BY <1>2 DEF Answer
<1>4. Coherent(d, c) /\ RingInv(c) /\ c \in CacheType /\ \E m \in 0..Entries : Placed(c, m)
      /\ RecentOf[d] = Recent(c)
  BY <1>1, CachePlaced DEF Coherent
<1>5. b \in Nat
  BY BlockOfOffset
<1>6. r \in Request /\ r.block = b /\ r.count = 1
  BY <1>5 DEF Request
<1>7. PICK m \in 0..Entries : Placed(c, m)
  BY <1>4
<1>8. /\ o.error = "NONE" => o.arrived = {r} /\ OnDisk(d, r) /\ InRange(d, r)
      /\ Shift(d, b) \in Nat
  <2>1. r \in Request
    BY <1>6
  <2> HIDE DEF r
  <2> QED
    BY <1>5, <2>1, ReadVAnswers, ShiftType
<1>9. c.data[c.prev[c.mru]] \in Nat \cup {Stale}
  BY <1>4 DEF CacheType
<1>10. from(o) \in Nat \cup {Stale}
  BY <1>8, <1>9
<1>11. Recent(c) \in Seq(Nat) /\ Len(Recent(c)) = m
       /\ \A i \in 1..m : Recent(c)[i] = c.block[Ring(c)[i - 1]]
  BY <1>4, <1>7, RecentIs
<1>12. b = BlockOf(off)
  OBVIOUS
<1>13. CASE o.error = "NONE"
  <2> DEFINE w == Fill(c, b, Shift(d, b))
             q == IF m = Entries THEN m ELSE m + 1
  <2>1. b + 1 <= Blocks[d]
    <3> HIDE DEF b, r
    <3> QED
      BY <1>6, <1>8, <1>13, InsideDevice
  <2>2. from(o) = Shift(d, b)
    BY <1>8, <1>13
  <2>3. Coherent(d, w)
    BY <1>1, <1>4, <1>5, <2>1, FillCoherent
  <2>4. w \in CacheType /\ w = Fill(c, b, Shift(d, b))
    BY <2>3 DEF Coherent, RingInv
  <2>5. cache' = [cache EXCEPT ![d] = w]
    BY <1>2, <1>13, <2>2
  <2>6. b \in Keys
    BY <1>5, <2>1, InsideKey
  <2>7. \A i \in DOMAIN Recent(c) : Recent(c)[i] # b
    <3>1. \A e \in Entry : c.block[e] # b
      BY <1>1, <1>4, NoHit
    <3>2. ASSUME NEW i \in DOMAIN Recent(c) PROVE Recent(c)[i] # b
      <4>1. i \in 1..m
        BY <1>11, LenProperties
      <4>2. i - 1 \in 0..(Entries - 1)
        BY <1>7, <4>1, EntriesType
      <4>3. Ring(c)[i - 1] \in Entry
        BY <1>4, <4>2, RingFollows
      <4> QED
        BY <1>11, <3>1, <4>1, <4>3
    <3> QED
      BY <3>2
  <2> HIDE DEF b, c, w, Keys
  <2>8. /\ Placed(w, q)
        /\ Recent(w) = <<b>> \o (IF Len(Recent(c)) = Entries
                                 THEN SubSeq(Recent(c), 1, Len(Recent(c)) - 1)
                                 ELSE Recent(c))
    BY <1>4, <1>5, <1>7, <2>4, FillRecent
  <2>9. LruInv' /\ RecentOf' = [RecentOf EXCEPT ![d] = Recent(w)]
    BY <2>5, <2>8, OneRecent
  <2>10. Lru!Remember(d, b)
    <3>1. /\ \A i \in DOMAIN RecentOf[d] : RecentOf[d][i] # b
          /\ RecentOf' = [RecentOf EXCEPT ![d] =
                            <<b>> \o (IF Len(RecentOf[d]) = Entries
                                      THEN Lru!Front(RecentOf[d]) ELSE RecentOf[d])]
      BY <1>4, <2>7, <2>8, <2>9 DEF Lru!Front
    <3>2. (IF last.via = "cache" /\ last.error = "NONE"
            THEN <<last.dev, BlockOf(last.off)>> ELSE None)' = <<d, b>>
      BY <1>12, <1>13, <1>3
    <3> QED
      BY <3>1, <3>2 DEF Lru!Remember, RecentOf
  <2> QED
    BY <2>6, <2>9, <2>10 DEF Lru!Next, Keys
<1>14. CASE o.error # "NONE"
  <2> DEFINE w == Fail(c, from(o))
             q == IF m = Entries THEN m - 1 ELSE m
  <2>1. Coherent(d, w)
    BY <1>4, <1>10, FailCoherent
  <2>2. w \in CacheType /\ w = Fail(c, from(o))
    BY <2>1 DEF Coherent, RingInv
  <2>3. cache' = [cache EXCEPT ![d] = w]
    BY <1>2, <1>14
  <2> HIDE DEF b, c, w, from
  <2>4. /\ Placed(w, q)
        /\ Recent(w) = IF Len(Recent(c)) = Entries
                       THEN SubSeq(Recent(c), 1, Len(Recent(c)) - 1)
                       ELSE Recent(c)
    BY <1>4, <1>7, <2>2, FailRecent
  <2>5. LruInv' /\ RecentOf' = [RecentOf EXCEPT ![d] = Recent(w)]
    BY <2>3, <2>4, OneRecent
  <2>6. (IF last.via = "cache" /\ last.error = "NONE"
          THEN <<last.dev, BlockOf(last.off)>> ELSE None)' = None
    BY <1>14, <1>3
  <2>7. CASE Len(Recent(c)) = Entries
    <3>1. /\ Len(RecentOf[d]) = Entries
          /\ RecentOf' = [RecentOf EXCEPT ![d] = Lru!Front(RecentOf[d])]
      BY <1>4, <2>4, <2>5, <2>7 DEF Lru!Front
    <3>2. Lru!Forget(d)
      BY <2>6, <3>1 DEF Lru!Forget, RecentOf
    <3> QED
      BY <2>5, <3>2 DEF Lru!Next
  <2>8. CASE Len(Recent(c)) # Entries
    <3>1. RecentOf' = [RecentOf EXCEPT ![d] = RecentOf[d]]
      BY <1>4, <2>4, <2>5, <2>8
    <3>2. RecentOf' = RecentOf
      BY <3>1 DEF RecentOf
    <3>3. Lru!Other
      BY <2>6, <3>2 DEF Lru!Other, RecentOf
    <3> QED
      BY <2>5, <3>3 DEF Lru!Next
  <2> QED
    BY <2>7, <2>8
<1> QED
  BY <1>13, <1>14

LEMMA ReadIsOther ==
  ASSUME LruInv, NEW d \in Devices, NEW off \in Nat, NEW size \in Nat, Read(d, off, size)
  PROVE  LruInv' /\ Lru!Next
<1>1. cache' = cache /\ last'.via = "disk"
  BY DEF Read, Answer
<1>2. LruInv'
  BY <1>1 DEF LruInv, Placed
<1>3. RecentOf' = RecentOf
  BY <1>1 DEF RecentOf, Recent
<1>4. (IF last.via = "cache" /\ last.error = "NONE"
        THEN <<last.dev, BlockOf(last.off)>> ELSE None)' = None
  BY <1>1
<1>5. Lru!Other
  BY <1>3, <1>4 DEF Lru!Other, RecentOf
<1> QED
  BY <1>2, <1>5 DEF Lru!Next

(* A new cache remembers nothing, as none.                                 *)
LEMMA AttachIsStutter ==
  ASSUME BlockInv, LruInv, NEW d \in Devices, AttachCache(d)
  PROVE  LruInv' /\ UNCHANGED Lru!vars
<1>1. cache' = [cache EXCEPT ![d] = CacheInit] /\ last' = last /\ cache[d] = None
  BY DEF AttachCache
<1>2. RingInv(CacheInit) /\ CacheInit \in CacheType
  BY CacheInitRing DEF RingInv
<1>3. Placed(CacheInit, 0)
  <2>1. ASSUME NEW n \in 0..(Entries - 1)
        PROVE  CacheInit.block[Ring(CacheInit)[n]] = Unset
    <3>1. Ring(CacheInit)[n] \in Entry
      BY <1>2, RingFollows
    <3>2. CacheInit.block = [e \in Entry |-> Unset]
      BY DEF CacheInit
    <3> QED
      BY <3>1, <3>2
  <2> QED
    BY <2>1, EntriesType DEF Placed
<1>4. LruInv' /\ RecentOf' = [RecentOf EXCEPT ![d] = Recent(CacheInit)]
  BY <1>1, <1>3, OneRecent
<1>5. Recent(CacheInit) = <<>>
  <2>1. Recent(CacheInit) \in Seq(Nat) /\ Len(Recent(CacheInit)) = 0
    BY <1>2, <1>3, RecentIs
  <2> QED
    BY <2>1, EmptySeq
<1>6. RecentOf[d] = <<>>
  BY <1>1 DEF RecentOf, Recent
<1>7. RecentOf' = RecentOf
  <2>1. RecentOf' = [RecentOf EXCEPT ![d] = RecentOf[d]]
    BY <1>4, <1>5, <1>6
  <2> QED
    BY <2>1 DEF RecentOf
<1> QED
  BY <1>1, <1>4, <1>7 DEF Lru!vars, RecentOf

LEMMA NextIsLru ==
  BlockInv /\ LruInv /\ [Next]_vars => LruInv' /\ [Lru!Next]_(Lru!vars)
<1> SUFFICES ASSUME BlockInv, LruInv, [Next]_vars PROVE LruInv' /\ [Lru!Next]_(Lru!vars)
  OBVIOUS
<1>1. CASE Next
  <2>1. PICK d \in Devices :
          \/ AttachCache(d)
          \/ \E off \in Offsets(d), size \in Sizes : Read(d, off, size) \/ CachedRead(d, off, size)
    BY <1>1 DEF Next
  <2>2. CASE AttachCache(d)
    BY <2>2, AttachIsStutter
  <2>3. CASE \E off \in Offsets(d), size \in Sizes : Read(d, off, size) \/ CachedRead(d, off, size)
    <3>1. PICK off \in Offsets(d), size \in Sizes : Read(d, off, size) \/ CachedRead(d, off, size)
      BY <2>3
    <3>2. off \in Nat
      BY DevicesAssumption DEF Offsets
    <3>3. size \in Nat
      BY DevicesAssumption
    <3>4. CASE Read(d, off, size)
      BY <3>2, <3>3, <3>4, ReadIsOther
    <3>5. CASE ReadPast(d, off, size)
      BY <3>2, <3>3, <3>5, ReadIsOther DEF ReadPast
    <3>6. CASE ReadHit(d, off, size)
      BY <3>2, <3>3, <3>6, HitIsFind
    <3>7. CASE ReadMiss(d, off, size)
      BY <3>2, <3>3, <3>7, MissIsRemember
    <3> QED
      BY <3>1, <3>4, <3>5, <3>6, <3>7 DEF CachedRead
  <2> QED
    BY <2>1, <2>2, <2>3
<1>2. CASE UNCHANGED vars
  <2>1. cache' = cache /\ last' = last
    BY <1>2 DEF vars
  <2>2. LruInv'
    BY <2>1 DEF LruInv, Placed
  <2>3. UNCHANGED Lru!vars
    BY <2>1 DEF Lru!vars, Recent
  <2> QED
    BY <2>2, <2>3
<1> QED
  BY <1>1, <1>2

(* The caches of block_dev.c remember the blocks used last, and forget the *)
(* oldest first.                                                           *)
THEOREM CachesAreLru == Spec => ImplementsLru
<1>1. Init => LruInv /\ Lru!Init
  <2> SUFFICES ASSUME Init PROVE LruInv /\ Lru!Init
    OBVIOUS
  <2>1. cache = [d \in Devices |-> None] /\ last.via = "disk"
    BY DEF Init, Answer
  <2>2. LruInv
    BY <2>1 DEF LruInv
  <2>3. [d \in Devices |-> Recent(cache[d])] = [d \in Devices |-> <<>>]
    BY <2>1 DEF Recent
  <2> QED
    BY <2>1, <2>2, <2>3 DEF Lru!Init
<1> QED
  BY <1>1, NextIsLru, BlocksAreGood, PTL DEF Spec, ImplementsLru, Lru!Spec
=============================================================================
