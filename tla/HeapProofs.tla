----------------------------- MODULE HeapProofs -----------------------------
(***************************************************************************)
(* The heap keeps its invariants for every set of arenas and every set of  *)
(* requests of one byte or more.                                           *)
(*                                                                         *)
(* First the operations on one arena keep ArenaInv.  The free list and the *)
(* headers are treated apart: the lemmas on lists speak of any set D of    *)
(* linked chunks, those on tilings of any headers.                         *)
(*                                                                         *)
(* Then the heap: a step carves a block out of one free chunk, gives one   *)
(* back, or both; the lemmas on one arena say what that does to it, and    *)
(* the other arenas and the callers' view follow.                          *)
(***************************************************************************)
EXTENDS Heap, WellFoundedInduction, FiniteSetTheorems, SequenceTheorems, TLAPS

(* The least element of a set of numbers: induction without an operator.   *)
LEMMA LeastElement ==
  ASSUME NEW T \in SUBSET Nat, T # {}
  PROVE  \E m \in T : \A k \in T : m <= k
<1> DEFINE R == {ss \in Nat \X Nat : ss[1] < ss[2]}
<1>1. IsWellFoundedOn(R, Nat)
  BY NatLessThanWellFounded, Zenon DEF OpToRel
<1>2. PICK x \in T : \A y \in T : ~ (<<y, x>> \in R)
  BY <1>1, WFMin
<1>3. ASSUME NEW y \in T PROVE x <= y
  <2>1. ~ (y < x)
    BY <1>2
  <2> QED
    BY <2>1
<1> QED
  BY <1>3

(* h follows g from a, n times.                                            *)
Follows(h, n, a, g) == \A k \in 0..n : h[k] = IF k = 0 THEN a ELSE g[h[k - 1]]

(* Following a function from a is defined as far as one likes.             *)
LEMMA FollowingExists ==
  ASSUME NEW S, NEW a \in S, NEW g \in [S -> S], NEW N \in Nat
  PROVE  \E h \in [0..N -> S] : Follows(h, N, a, g)
<1> DEFINE T == {n \in Nat : ~ \E h \in [0..n -> S] : Follows(h, n, a, g)}
<1>1. T = {}
  <2> SUFFICES ASSUME T # {} PROVE FALSE
    OBVIOUS
  <2>1. PICK m \in T : \A k \in T : m <= k
    <3>1. T \in SUBSET Nat
      OBVIOUS
    <3> HIDE DEF T
    <3> QED
      BY <3>1, LeastElement
  <2>2. m # 0
    <3> DEFINE z == [k \in 0..0 |-> a]
    <3>1. Follows(z, 0, a, g) /\ z \in [0..0 -> S]
      BY DEF Follows
    <3> QED
      BY <2>1, <3>1
  <2>3. m - 1 \in Nat /\ m - 1 \notin T
    <3>1. m \in Nat /\ m - 1 \in Nat
      BY <2>1, <2>2
    <3>2. ~ (m <= m - 1)
      BY <3>1
    <3> HIDE DEF T
    <3> QED
      BY <2>1, <3>1, <3>2
  <2>4. PICK h \in [0..(m - 1) -> S] : Follows(h, m - 1, a, g)
    BY <2>3
  <2> DEFINE hh == [k \in 0..m |-> IF k = m THEN g[h[m - 1]] ELSE h[k]]
  <2>5. hh \in [0..m -> S]
    <3>1. ASSUME NEW k \in 0..m PROVE (IF k = m THEN g[h[m - 1]] ELSE h[k]) \in S
      BY <2>2, <2>3, <2>4
    <3> QED
      BY <3>1
  <2>6. ASSUME NEW k \in 0..m PROVE hh[k] = IF k = 0 THEN a ELSE g[hh[k - 1]]
    <3>1. CASE k = m
      BY <3>1, <2>2, <2>3
    <3>2. CASE k # m
      <4>1. k \in 0..(m - 1)
        BY <3>2, <2>3
      <4>2. h[k] = IF k = 0 THEN a ELSE g[h[k - 1]]
        BY <2>4, <4>1 DEF Follows
      <4> QED
        BY <4>1, <4>2, <3>2
    <3> QED
      BY <3>1, <3>2
  <2>7. m \in Nat /\ ~ \E f \in [0..m -> S] : Follows(f, m, a, g)
    BY <2>1
  <2> HIDE DEF hh
  <2> QED
    BY <2>5, <2>6, <2>7 DEF Follows
<1> QED
  BY <1>1

(* An arena record.                                                        *)
IsArena(h) ==
  h = [size |-> h.size, use |-> h.use, psize |-> h.psize, puse |-> h.puse,
       prev |-> h.prev, next |-> h.next, head |-> h.head, status |-> h.status]

(* A doubly linked list over the chunks of D.                              *)
IsList(D, prev, next, head) ==
  /\ Null \notin D
  /\ prev \in [D -> D \cup {Null}]
  /\ next \in [D -> D \cup {Null}]
  /\ head \in D \cup {Null}
  /\ head # Null => prev[head] = Null
  /\ \A x \in D : prev[x] = Null => head = x
  /\ \A x \in D : prev[x] # Null => next[prev[x]] = x
  /\ \A x \in D : next[x] # Null => prev[next[x]] = x
  /\ Rooted(D, prev)

(* Boundary-tagged chunks with headers at D that tile lo..hi-1.            *)
IsTiling(lo, hi, D, size, use, psize, puse) ==
  /\ lo \in D
  /\ D \subseteq lo..(hi - 1)
  /\ size \in [D -> Nat] /\ use \in [D -> {0, 1}]
  /\ psize \in [D -> Nat] /\ puse \in [D -> {0, 1}]
  /\ \A c \in D : size[c] >= 2
  /\ \A c, d \in D : c < d => c + size[c] <= d
  /\ \A c \in D : \/ c + size[c] = hi
                  \/ /\ c + size[c] \in D
                     /\ psize[c + size[c]] = size[c]
                     /\ puse[c + size[c]] = use[c]
  /\ psize[lo] = 0 /\ puse[lo] = 1
  /\ \A c \in D \ {lo} : /\ c - psize[c] \in D
                         /\ c - psize[c] + size[c - psize[c]] = c
  /\ \A c \in D : use[c] = 0 => puse[c] = 1

SameHeaders(g, h) ==
  g.size = h.size /\ g.use = h.use /\ g.psize = h.psize /\ g.puse = h.puse

SameList(g, h) == g.prev = h.prev /\ g.next = h.next /\ g.head = h.head

(* ArenaInv is a record whose headers tile and whose free chunks form a    *)
(* list.                                                                   *)
LEMMA InvParts ==
  ASSUME NEW lo \in Nat, NEW hi \in Nat, lo > 0, NEW h
  PROVE  ArenaInv(lo, hi, h) <=>
           /\ IsArena(h) /\ h.status = "ok"
           /\ IsTiling(lo, hi, Chunks(h), h.size, h.use, h.psize, h.puse)
           /\ IsList(Free(h), h.prev, h.next, h.head)
<1> USE DEF FREE, INUSE, MIN_ALLOC
<1>1. ASSUME ArenaInv(lo, hi, h)
      PROVE  /\ IsArena(h) /\ h.status = "ok"
             /\ IsTiling(lo, hi, Chunks(h), h.size, h.use, h.psize, h.puse)
             /\ IsList(Free(h), h.prev, h.next, h.head)
  <2>1. IsArena(h) /\ h.status = "ok"
    BY <1>1 DEF ArenaInv, ArenaType, IsArena
  <2>2. IsTiling(lo, hi, Chunks(h), h.size, h.use, h.psize, h.puse)
    BY <1>1 DEF ArenaInv, ArenaType, Tiled, TiledBack, Coalesced, IsTiling,
                Remembered, EndOf, Free
  <2>3. Null \notin Free(h)
    BY <2>2 DEF IsTiling, Free, Null
  <2>4. IsList(Free(h), h.prev, h.next, h.head)
    BY <1>1, <2>3 DEF ArenaInv, ArenaType, Linked, IsList
  <2> QED
    BY <2>1, <2>2, <2>4
<1>2. ASSUME IsArena(h), h.status = "ok",
             IsTiling(lo, hi, Chunks(h), h.size, h.use, h.psize, h.puse),
             IsList(Free(h), h.prev, h.next, h.head)
      PROVE  ArenaInv(lo, hi, h)
  <2>1. ArenaType(lo, hi, h)
    BY <1>2 DEF ArenaType, IsArena, IsTiling, IsList
  <2>2. Tiled(lo, hi, h) /\ TiledBack(lo, h) /\ Coalesced(h)
    BY <1>2 DEF IsTiling, Tiled, TiledBack, Coalesced, Remembered, EndOf, Free
  <2>3. Linked(h) /\ Rooted(Free(h), h.prev)
    BY <1>2 DEF Linked, IsList
  <2> QED
    BY <1>2, <2>1, <2>2, <2>3 DEF ArenaInv
<1> QED
  BY <1>1, <1>2

----------------------------------------------------------------------------
(* Pushing a chunk that has no links yet never panics.                     *)
LEMMA LinkKeeps ==
  ASSUME NEW h, IsArena(h), NEW D, IsList(D, h.prev, h.next, h.head),
         NEW c, c \notin D, c # Null
  PROVE  /\ IsArena(Link(h, c)) /\ SameHeaders(Link(h, c), h)
         /\ Link(h, c).status = h.status
         /\ IsList(D \cup {c}, Link(h, c).prev, Link(h, c).next, Link(h, c).head)
<1> DEFINE p == [x \in D \cup {c} |-> IF x = c THEN Null
                                      ELSE IF x = h.head THEN c ELSE h.prev[x]]
           n == [x \in D \cup {c} |-> IF x = c THEN h.head ELSE h.next[x]]
           g == [size |-> h.size, use |-> h.use, psize |-> h.psize, puse |-> h.puse,
                 prev |-> p, next |-> n, head |-> c, status |-> h.status]
<1>1. Link(h, c) = [h EXCEPT !.prev = p, !.next = n, !.head = c]
  BY DEF Link, IsList, Put
<1>2. Link(h, c) = g
  BY <1>1 DEF IsArena
<1>3. IsArena(g) /\ SameHeaders(g, h) /\ g.status = h.status
  BY DEF IsArena, SameHeaders
<1>4. Rooted(D \cup {c}, p)
  <2> SUFFICES ASSUME NEW S \in SUBSET (D \cup {c}), S # {}
               PROVE  \E x \in S : p[x] \notin S
    BY DEF Rooted
  <2>1. CASE c \in S
    BY <2>1 DEF IsList
  <2>2. CASE c \notin S
    <3>1. PICK x \in S : h.prev[x] \notin S
      BY <2>2 DEF IsList, Rooted
    <3> QED
      BY <2>2, <3>1
  <2> QED
    BY <2>1, <2>2
<1>5. IsList(D \cup {c}, p, n, c)
  BY <1>4 DEF IsList
<1> QED
  BY <1>2, <1>3, <1>5

(* Taking any linked chunk out never panics.                               *)
LEMMA UnlinkKeeps ==
  ASSUME NEW h, IsArena(h), NEW D, IsList(D, h.prev, h.next, h.head), NEW c \in D
  PROVE  /\ IsArena(Unlink(h, c)) /\ SameHeaders(Unlink(h, c), h)
         /\ Unlink(h, c).status = h.status
         /\ IsList(D \ {c}, Unlink(h, c).prev, Unlink(h, c).next, Unlink(h, c).head)
<1> DEFINE p == [x \in D \ {c} |-> IF x = h.next[c] THEN h.prev[c] ELSE h.prev[x]]
           n == [x \in D \ {c} |-> IF x = h.prev[c] THEN h.next[c] ELSE h.next[x]]
           d == IF h.prev[c] = Null THEN h.next[c] ELSE h.head
           g == [size |-> h.size, use |-> h.use, psize |-> h.psize, puse |-> h.puse,
                 prev |-> p, next |-> n, head |-> d, status |-> h.status]
<1>1. Unlink(h, c) = [h EXCEPT !.prev = p, !.next = n, !.head = d]
  BY DEF Unlink, IsList
<1>2. Unlink(h, c) = g
  BY <1>1 DEF IsArena
<1>3. IsArena(g) /\ SameHeaders(g, h) /\ g.status = h.status
  BY DEF IsArena, SameHeaders
<1>4. Rooted(D \ {c}, p)
  <2> SUFFICES ASSUME NEW S \in SUBSET (D \ {c}), S # {}
               PROVE  \E x \in S : p[x] \notin S
    BY DEF Rooted
  <2>1. CASE h.next[c] \in S
    <3>1. PICK x \in S \cup {c} : h.prev[x] \notin S \cup {c}
      <4>1. S \cup {c} \in SUBSET D /\ S \cup {c} # {}
        OBVIOUS
      <4> QED
        BY <4>1 DEF IsList, Rooted
    <3> QED
      BY <2>1, <3>1 DEF IsList
  <2>2. CASE h.next[c] \notin S
    <3>1. PICK x \in S : h.prev[x] \notin S
      BY DEF IsList, Rooted
    <3> QED
      BY <2>2, <3>1
  <2> QED
    BY <2>1, <2>2
<1>5. IsList(D \ {c}, p, n, d)
  BY <1>4 DEF IsList
<1> QED
  BY <1>2, <1>3, <1>5

(* The walk from the head follows the links, and stays at Null.            *)
LEMMA WalkFollows ==
  ASSUME NEW h, NEW D, IsFiniteSet(D), IsList(D, h.prev, h.next, h.head)
  PROVE  /\ DOMAIN h.next = D /\ Cardinality(D) \in Nat
         /\ Nth(h) \in [0..Cardinality(D) -> D \cup {Null}]
         /\ Nth(h)[0] = h.head
         /\ \A k \in 1..Cardinality(D) :
              Nth(h)[k - 1] # Null => Nth(h)[k] = h.next[Nth(h)[k - 1]]
         /\ \A k \in 1..Cardinality(D) : Nth(h)[k - 1] = Null => Nth(h)[k] = Null
<1> DEFINE N == Cardinality(D)
           S == D \cup {Null}
           a == h.head
           g == [x \in S |-> IF x = Null THEN Null ELSE h.next[x]]
           nth[k \in 0..N] == IF k = 0 THEN a
                              ELSE IF nth[k - 1] = Null THEN Null
                              ELSE h.next[nth[k - 1]]
<1>1. DOMAIN h.next = D /\ N \in Nat
  BY FS_CardinalityType DEF IsList
<1>2. Nth(h) = nth
  BY <1>1 DEF Nth, Steps
<1>3. a \in S /\ g \in [S -> S]
  BY DEF IsList
<1>4. PICK f \in [0..N -> S] : Follows(f, N, a, g)
  <2> HIDE DEF N, S, a, g
  <2> QED
    BY <1>1, <1>3, FollowingExists
<1>5. \A k \in 0..N : f[k] = IF k = 0 THEN a
                            ELSE IF f[k - 1] = Null THEN Null ELSE h.next[f[k - 1]]
  <2> SUFFICES ASSUME NEW k \in 0..N, k # 0
               PROVE  f[k] = IF f[k - 1] = Null THEN Null ELSE h.next[f[k - 1]]
    BY <1>4 DEF Follows
  <2>1. k - 1 \in 0..N
    BY <1>1
  <2> HIDE DEF N
  <2>2. f[k] = g[f[k - 1]] /\ f[k - 1] \in S
    BY <1>4, <2>1 DEF Follows
  <2> QED
    BY <2>2
<1>6. f = [k \in 0..N |-> IF k = 0 THEN a
                          ELSE IF f[k - 1] = Null THEN Null ELSE h.next[f[k - 1]]]
  BY <1>4, <1>5
<1>7. nth = [k \in 0..N |-> IF k = 0 THEN a
                            ELSE IF nth[k - 1] = Null THEN Null
                            ELSE h.next[nth[k - 1]]]
  <2> HIDE DEF N, S, a, g
  <2> QED
    BY <1>6
<1> HIDE DEF nth
<1>8. ASSUME NEW k \in 1..N
      PROVE  /\ k \in 0..N /\ k - 1 \in 0..N /\ k # 0
             /\ nth[k - 1] # Null => nth[k] = h.next[nth[k - 1]]
             /\ nth[k - 1] = Null => nth[k] = Null
  <2>1. k \in 0..N /\ k - 1 \in 0..N /\ k # 0
    BY <1>1
  <2> HIDE DEF N
  <2> QED
    BY <2>1, <1>7
<1>9. nth[0] = a
  BY <1>1, <1>7
<1>10. \A k \in 0..N : nth[k] \in S
  <2> DEFINE B == {k \in 0..N : nth[k] \notin S}
  <2> SUFFICES ASSUME B # {} PROVE FALSE
    OBVIOUS
  <2>1. B \in SUBSET Nat
    OBVIOUS
  <2>2. PICK m \in B : \A k \in B : m <= k
    <3> HIDE DEF B
    <3> QED
      BY LeastElement, <2>1
  <2>3. m \in 0..N /\ nth[m] \notin S
    BY <2>2
  <2>4. m # 0
    BY <2>3, <1>3, <1>9
  <2>5. m \in 1..N /\ m - 1 \in 0..N /\ ~ (m <= m - 1)
    BY <1>1, <2>3, <2>4
  <2>6. m - 1 \notin B
    <3> HIDE DEF B
    <3> QED
      BY <2>2, <2>5
  <2>7. nth[m - 1] \in S
    BY <2>5, <2>6
  <2>8. nth[m] = g[nth[m - 1]]
    BY <1>8, <2>5, <2>7
  <2> HIDE DEF g, S
  <2> QED
    BY <1>3, <2>3, <2>7, <2>8
<1>11. nth \in [0..N -> S]
  BY <1>7, <1>10
<1> QED
  BY <1>1, <1>2, <1>8, <1>9, <1>11

(* The walk meets every linked chunk: within its steps it runs off the end *)
(* or comes to a chunk twice, and what it met before leaves no chunk that  *)
(* the back links could lead to the head from.                             *)
LEMMA ListedAll ==
  ASSUME NEW h, NEW D, IsFiniteSet(D), IsList(D, h.prev, h.next, h.head)
  PROVE  Listed(h) = D
<1> DEFINE N == Cardinality(D)
           R == Nth(h)
           V == {R[k] : k \in 0..N}
<1>1. /\ N \in Nat /\ DOMAIN h.next = D
      /\ R \in [0..N -> D \cup {Null}] /\ R[0] = h.head
      /\ \A k \in 1..N : R[k - 1] # Null => R[k] = h.next[R[k - 1]]
      /\ \A k \in 1..N : R[k - 1] = Null => R[k] = Null
  BY WalkFollows
<1>2. Listed(h) = V \ {Null}
  BY <1>1 DEF Listed, Steps
<1>3. Null \notin D
  BY DEF IsList
<1> HIDE DEF R, N
<1>4. \A j \in 1..N : \A i \in 0..(j - 1) : R[i] = R[j] => D \subseteq V
  <2> SUFFICES ASSUME NEW j \in 1..N, NEW i \in 0..(j - 1), R[i] = R[j]
               PROVE  D \subseteq V
    OBVIOUS
  <2> DEFINE W == {R[k] : k \in 0..(j - 1)}
             S == D \ W
  <2>1. W \subseteq V
    BY <1>1
  <2>2. ASSUME NEW k \in 0..(j - 1), R[k] # Null PROVE h.next[R[k]] \in W
    <3>1. k + 1 \in 1..N /\ (k + 1) - 1 = k
      BY <1>1
    <3>2. h.next[R[k]] = R[k + 1]
      BY <1>1, <3>1, <2>2
    <3>3. CASE k + 1 = j
      BY <3>2, <3>3
    <3>4. CASE k + 1 # j
      <4>1. k + 1 \in 0..(j - 1)
        BY <1>1, <3>4
      <4> QED
        BY <3>2, <4>1
    <3> QED
      BY <3>3, <3>4
  <2>3. h.head \in W
    <3>1. 0 \in 0..(j - 1)
      BY <1>1
    <3> QED
      BY <1>1, <3>1
  <2>4. \A x \in W : x # Null => h.next[x] \in W
    BY <2>2
  <2> HIDE DEF W
  <2>5. S = {}
    <3> SUFFICES ASSUME S # {} PROVE FALSE
      OBVIOUS
    <3>1. PICK x \in S : h.prev[x] \notin S
      <4>1. S \in SUBSET D
        OBVIOUS
      <4> QED
        BY <4>1 DEF IsList, Rooted
    <3>2. CASE h.prev[x] = Null
      BY <3>2, <2>3 DEF IsList
    <3>3. CASE h.prev[x] # Null
      BY <3>1, <3>3, <2>4 DEF IsList
    <3> QED
      BY <3>2, <3>3
  <2> QED
    BY <2>1, <2>5
<1>5. ASSUME ~ (D \subseteq V) PROVE FALSE
  <2>1. PICK x \in D : x \notin V
    BY <1>5
  <2> DEFINE U == (D \ {x}) \cup {Null}
  <2>2. IsFiniteSet(U) /\ Cardinality(U) = N
    <3>1. IsFiniteSet(D \ {x}) /\ Cardinality(D \ {x}) = N - 1
      BY FS_RemoveElement DEF N
    <3>2. Null \notin D \ {x}
      BY <1>3
    <3>3. IsFiniteSet(U) /\ Cardinality(U) = Cardinality(D \ {x}) + 1
      <4> DEFINE E == D \ {x}
      <4> HIDE DEF E
      <4>1. IsFiniteSet(E \cup {Null}) /\ Cardinality(E \cup {Null}) = Cardinality(E) + 1
        BY <3>1, <3>2, FS_AddElement DEF E
      <4> QED
        BY <4>1 DEF E
    <3> QED
      BY <1>1, <3>1, <3>3
  <2>3. IsFiniteSet(0..N) /\ Cardinality(0..N) = N + 1
    <3>1. 0 \in Int /\ N \in Int /\ ~ (0 > N) /\ N - 0 + 1 = N + 1
      BY <1>1
    <3> QED
      BY <3>1, FS_Interval
  <2>4. R \in [0..N -> U]
    BY <1>1, <2>1
  <2>5. \E y, z \in 0..N : y # z /\ R[y] = R[z]
    <3> DEFINE J == 0..N
    <3> HIDE DEF U
    <3>1. Cardinality(U) < Cardinality(J)
      BY <1>1, <2>2, <2>3
    <3>2. IsFiniteSet(U) /\ IsFiniteSet(J) /\ R \in [J -> U]
      BY <2>2, <2>3, <2>4
    <3> HIDE DEF J, R
    <3>3. \E y, z \in J : y # z /\ R[y] = R[z]
      BY <3>1, <3>2, FS_PigeonHole, Zenon
    <3> QED
      BY <3>3 DEF J
  <2>6. PICK y \in 0..N : \E z \in 0..N : y # z /\ R[y] = R[z]
    BY <2>5
  <2>7. PICK z \in 0..N : y # z /\ R[y] = R[z]
    BY <2>6
  <2> HIDE DEF V
  <2>8. CASE y < z
    <3>1. z \in 1..N /\ y \in 0..(z - 1)
      BY <1>1, <2>8
    <3> QED
      BY <1>4, <1>5, <2>7, <3>1
  <2>9. CASE z < y
    <3>1. y \in 1..N /\ z \in 0..(y - 1)
      BY <1>1, <2>9
    <3> QED
      BY <1>4, <1>5, <2>7, <3>1
  <2> QED
    BY <1>1, <2>7, <2>8, <2>9
<1>6. V \subseteq D \cup {Null}
  BY <1>1
<1> QED
  BY <1>2, <1>3, <1>5, <1>6

(* The words of the header at e after chunkUpdateNext, hi being the end.   *)
Written(f, e, hi, v) == IF e = hi THEN f ELSE [f EXCEPT ![e] = v]

(* chunkUpdateNext writes one header and does not panic when the next      *)
(* chunk is there and its flag is the expected one.                        *)
Updated(g, h, hi, c) ==
  /\ IsArena(g) /\ g.status = "ok" /\ SameList(g, h)
  /\ g.size = h.size /\ g.use = h.use
  /\ g.psize = Written(h.psize, EndOf(h, c), hi, h.size[c])
  /\ g.puse = Written(h.puse, EndOf(h, c), hi, h.use[c])

LEMMA UpdateNextSame ==
  ASSUME NEW h, IsArena(h), h.status = "ok", NEW hi \in Nat, NEW c \in Int,
         h.size[c] \in Nat,
         \/ EndOf(h, c) = hi
         \/ EndOf(h, c) <= hi - 2 /\ h.use[c] = h.puse[EndOf(h, c)]
  PROVE  Updated(UpdateNext(h, hi, c, FALSE), h, hi, c)
<1> DEFINE e == EndOf(h, c)
           g == UpdateNext(h, hi, c, FALSE)
           ps == [h.psize EXCEPT ![e] = h.size[c]]
           pu == [h.puse EXCEPT ![e] = h.use[c]]
           r == [size |-> h.size, use |-> h.use, psize |-> ps, puse |-> pu,
                 prev |-> h.prev, next |-> h.next, head |-> h.head, status |-> h.status]
<1>1. e \in Int
  BY DEF EndOf
<1>2. CASE e = hi
  BY <1>2 DEF UpdateNext, SameList, Written, Updated
<1>3. CASE e # hi
  <2>1. g = [h EXCEPT !.psize[e] = h.size[c], !.puse[e] = h.use[c]]
    BY <1>1, <1>3 DEF UpdateNext, MIN_ALLOC
  <2>2. g = r
    BY <2>1 DEF IsArena
  <2>3. IsArena(r) /\ SameList(r, h) /\ r.status = "ok" /\ r.size = h.size
        /\ r.use = h.use /\ r.psize = ps /\ r.puse = pu
    BY DEF IsArena, SameList
  <2> HIDE DEF r, g
  <2> QED
    BY <2>2, <2>3, <1>3 DEF Written, Updated, g
<1> QED
  BY <1>2, <1>3

LEMMA UpdateNextDiffers ==
  ASSUME NEW h, IsArena(h), h.status = "ok", NEW hi \in Nat, NEW c \in Int,
         h.size[c] \in Nat,
         \/ EndOf(h, c) = hi
         \/ EndOf(h, c) <= hi - 2 /\ h.use[c] # h.puse[EndOf(h, c)]
  PROVE  Updated(UpdateNext(h, hi, c, TRUE), h, hi, c)
<1> DEFINE e == EndOf(h, c)
           g == UpdateNext(h, hi, c, TRUE)
           ps == [h.psize EXCEPT ![e] = h.size[c]]
           pu == [h.puse EXCEPT ![e] = h.use[c]]
           r == [size |-> h.size, use |-> h.use, psize |-> ps, puse |-> pu,
                 prev |-> h.prev, next |-> h.next, head |-> h.head, status |-> h.status]
<1>1. e \in Int
  BY DEF EndOf
<1>2. CASE e = hi
  BY <1>2 DEF UpdateNext, SameList, Written, Updated
<1>3. CASE e # hi
  <2>1. g = [h EXCEPT !.psize[e] = h.size[c], !.puse[e] = h.use[c]]
    BY <1>1, <1>3 DEF UpdateNext, MIN_ALLOC
  <2>2. g = r
    BY <2>1 DEF IsArena
  <2>3. IsArena(r) /\ SameList(r, h) /\ r.status = "ok" /\ r.size = h.size
        /\ r.use = h.use /\ r.psize = ps /\ r.puse = pu
    BY DEF IsArena, SameList
  <2> HIDE DEF r, g
  <2> QED
    BY <2>2, <2>3, <1>3 DEF Written, Updated, g
<1> QED
  BY <1>2, <1>3

----------------------------------------------------------------------------
(* The headers after an allocation of n granules at offset off of the free *)
(* chunk c, with a free chunk above it (Parts) or none (Whole), and after  *)
(* a chunk was freed that leaves b reaching to e2.                         *)
PartsSize(D, size, c, off, n) ==
  [x \in D \cup {c + off, c + off + n} |->
     IF x = c + off + n THEN size[c] - off - n
     ELSE IF x = c + off THEN n
     ELSE IF x = c THEN off ELSE size[x]]

PartsUse(D, use, c, off, n) ==
  [x \in D \cup {c + off, c + off + n} |->
     IF x = c + off + n THEN 0 ELSE IF x = c + off THEN 1 ELSE use[x]]

PartsPSize(D, size, psize, c, off, n) ==
  [x \in D \cup {c + off, c + off + n} |->
     IF x = c + off + n THEN n
     ELSE IF x = c + off THEN (IF off = 0 THEN psize[c] ELSE off)
     ELSE IF x = c + size[c] THEN size[c] - off - n ELSE psize[x]]

PartsPUse(D, size, puse, c, off, n) ==
  [x \in D \cup {c + off, c + off + n} |->
     IF x = c + off + n THEN 1
     ELSE IF x = c + off THEN (IF off = 0 THEN puse[c] ELSE 0)
     ELSE IF x = c + size[c] THEN 0 ELSE puse[x]]

WholeSize(D, size, c, off) ==
  [x \in D \cup {c + off} |->
     IF x = c + off THEN size[c] - off ELSE IF x = c THEN off ELSE size[x]]

WholeUse(D, use, c, off) ==
  [x \in D \cup {c + off} |-> IF x = c + off THEN 1 ELSE use[x]]

WholePSize(D, size, psize, c, off) ==
  [x \in D \cup {c + off} |->
     IF x = c + off THEN (IF off = 0 THEN psize[c] ELSE off)
     ELSE IF x = c + size[c] THEN size[c] - off ELSE psize[x]]

WholePUse(D, size, puse, c, off) ==
  [x \in D \cup {c + off} |->
     IF x = c + off THEN (IF off = 0 THEN puse[c] ELSE 0)
     ELSE IF x = c + size[c] THEN 1 ELSE puse[x]]

Outside(D, b, e2) == {x \in D : x <= b \/ x >= e2}
FreedSize(D, size, b, e2) ==
  [x \in Outside(D, b, e2) |-> IF x = b THEN e2 - b ELSE size[x]]
FreedUse(D, use, b, e2) ==
  [x \in Outside(D, b, e2) |-> IF x = b THEN 0 ELSE use[x]]
FreedPSize(D, psize, b, e2) ==
  [x \in Outside(D, b, e2) |-> IF x = e2 THEN e2 - b ELSE psize[x]]
FreedPUse(D, puse, b, e2) ==
  [x \in Outside(D, b, e2) |-> IF x = e2 THEN 0 ELSE puse[x]]

(* Carving an allocation out of a free chunk leaves a tiling: with a free  *)
(* chunk above it, or with the slack inside it.                            *)
LEMMA CarveParts ==
  ASSUME NEW lo \in Nat, NEW hi \in Nat,
         NEW D, NEW size, NEW use, NEW psize, NEW puse,
         IsTiling(lo, hi, D, size, use, psize, puse),
         NEW c \in D, use[c] = 0, NEW n \in Nat, NEW off \in Nat,
         n >= 2, off = 0 \/ off >= 2, size[c] - off - n >= 2
  PROVE  IsTiling(lo, hi, D \cup {c + off, c + off + n},
                  PartsSize(D, size, c, off, n), PartsUse(D, use, c, off, n),
                  PartsPSize(D, size, psize, c, off, n), PartsPUse(D, size, puse, c, off, n))
<1> DEFINE new == c + off
           rem == c + off + n
           e == c + size[c]
           E == D \cup {new, rem}
           size1 == PartsSize(D, size, c, off, n)
           use1 == PartsUse(D, use, c, off, n)
           psize1 == PartsPSize(D, size, psize, c, off, n)
           puse1 == PartsPUse(D, size, puse, c, off, n)
<1> USE DEF PartsSize, PartsUse, PartsPSize, PartsPUse
<1>1. /\ D \subseteq Int /\ c \in Int /\ new \in Int /\ rem \in Int /\ e \in Int
      /\ new < rem /\ rem < e /\ c <= new
      /\ e <= hi /\ size[c] \in Nat
  BY DEF IsTiling
<1>2. \A x \in D : x # c => x < c \/ x >= e
  BY DEF IsTiling
<1>3. /\ size1[rem] = e - rem /\ size1[new] = n
      /\ off # 0 => size1[c] = off
      /\ \A x \in D : x # c => size1[x] = size[x]
  BY <1>1, <1>2
<1>4. /\ use1[rem] = 0 /\ use1[new] = 1
      /\ off # 0 => use1[c] = use[c]
      /\ \A x \in D : x # c => use1[x] = use[x]
  BY <1>1, <1>2
<1>5. /\ psize1[rem] = n /\ psize1[new] = IF off = 0 THEN psize[c] ELSE off
      /\ off # 0 => psize1[c] = psize[c]
      /\ \A x \in D : x # c => psize1[x] = IF x = e THEN e - rem ELSE psize[x]
  BY <1>1, <1>2
<1>6. /\ puse1[rem] = 1 /\ puse1[new] = IF off = 0 THEN puse[c] ELSE 0
      /\ off # 0 => puse1[c] = puse[c]
      /\ \A x \in D : x # c => puse1[x] = IF x = e THEN 0 ELSE puse[x]
  BY <1>1, <1>2
<1>7. lo \in E /\ E \subseteq lo..(hi - 1)
  BY <1>1 DEF IsTiling
<1>8. size1 \in [E -> Nat] /\ psize1 \in [E -> Nat]
  <2>1. size1 \in [E -> Nat]
    BY <1>1 DEF IsTiling
  <2>2. psize1 \in [E -> Nat]
    BY <1>1 DEF IsTiling
  <2> QED
    BY <2>1, <2>2
<1>9. use1 \in [E -> {0, 1}] /\ puse1 \in [E -> {0, 1}]
  <2>1. use1 \in [E -> {0, 1}]
    BY <1>1 DEF IsTiling
  <2>2. puse1 \in [E -> {0, 1}]
    BY <1>1 DEF IsTiling
  <2> QED
    BY <2>1, <2>2
<1>10. \A x \in E : size1[x] >= 2
  BY <1>1, <1>3 DEF IsTiling
<1>11. \A x, y \in E : x < y => x + size1[x] <= y
  BY <1>1, <1>2, <1>3 DEF IsTiling
<1>12. \A x \in E : \/ x + size1[x] = hi
                   \/ /\ x + size1[x] \in E
                      /\ psize1[x + size1[x]] = size1[x]
                      /\ puse1[x + size1[x]] = use1[x]
  <2> SUFFICES ASSUME NEW x \in E, x + size1[x] # hi
               PROVE  /\ x + size1[x] \in E
                      /\ psize1[x + size1[x]] = size1[x]
                      /\ puse1[x + size1[x]] = use1[x]
    OBVIOUS
  <2>1. CASE x \in D /\ x # c
    <3>1. size1[x] = size[x] /\ use1[x] = use[x]
      BY <2>1, <1>3, <1>4
    <3>2. /\ x + size[x] \in D /\ x + size[x] # e
          /\ psize[x + size[x]] = size[x] /\ puse[x + size[x]] = use[x]
      BY <2>1, <3>1, <1>1, <1>2 DEF IsTiling
    <3> QED
      BY <3>1, <3>2, <1>1, <1>5, <1>6
  <2>2. CASE x = c /\ off # 0
    BY <2>2, <1>1, <1>3, <1>4, <1>5, <1>6
  <2>3. CASE x = new
    BY <2>3, <1>1, <1>3, <1>4, <1>5, <1>6
  <2>4. CASE x = rem
    BY <2>4, <1>1, <1>3, <1>4, <1>5, <1>6 DEF IsTiling
  <2> QED
    BY <2>1, <2>2, <2>3, <2>4, <1>1
<1>13. psize1[lo] = 0 /\ puse1[lo] = 1
  BY <1>1, <1>2, <1>5, <1>6 DEF IsTiling
<1>14. \A x \in E \ {lo} : /\ x - psize1[x] \in E
                          /\ x - psize1[x] + size1[x - psize1[x]] = x
  BY <1>1, <1>2, <1>3, <1>5 DEF IsTiling
<1>15. \A x \in E : use1[x] = 0 => puse1[x] = 1
  BY <1>1, <1>2, <1>4, <1>6 DEF IsTiling
<1> HIDE DEF PartsSize, PartsUse, PartsPSize, PartsPUse
<1> QED
  BY <1>7, <1>8, <1>9, <1>10, <1>11, <1>12, <1>13, <1>14, <1>15 DEF IsTiling

LEMMA CarveWhole ==
  ASSUME NEW lo \in Nat, NEW hi \in Nat,
         NEW D, NEW size, NEW use, NEW psize, NEW puse,
         IsTiling(lo, hi, D, size, use, psize, puse),
         NEW c \in D, use[c] = 0, NEW off \in Nat,
         off = 0 \/ off >= 2, size[c] - off >= 2
  PROVE  IsTiling(lo, hi, D \cup {c + off},
                  WholeSize(D, size, c, off), WholeUse(D, use, c, off),
                  WholePSize(D, size, psize, c, off), WholePUse(D, size, puse, c, off))
<1> DEFINE new == c + off
           e == c + size[c]
           E == D \cup {new}
           size1 == WholeSize(D, size, c, off)
           use1 == WholeUse(D, use, c, off)
           psize1 == WholePSize(D, size, psize, c, off)
           puse1 == WholePUse(D, size, puse, c, off)
<1> USE DEF WholeSize, WholeUse, WholePSize, WholePUse
<1>1. /\ D \subseteq Int /\ c \in Int /\ new \in Int /\ e \in Int
      /\ new < e /\ c <= new
      /\ e <= hi /\ size[c] \in Nat
  BY DEF IsTiling
<1>2. \A x \in D : x # c => x < c \/ x >= e
  BY DEF IsTiling
<1>3. /\ size1[new] = e - new
      /\ off # 0 => size1[c] = off
      /\ \A x \in D : x # c => size1[x] = size[x]
  BY <1>1, <1>2
<1>4. /\ use1[new] = 1
      /\ off # 0 => use1[c] = use[c]
      /\ \A x \in D : x # c => use1[x] = use[x]
  BY <1>1, <1>2
<1>5. /\ psize1[new] = IF off = 0 THEN psize[c] ELSE off
      /\ off # 0 => psize1[c] = psize[c]
      /\ \A x \in D : x # c => psize1[x] = IF x = e THEN e - new ELSE psize[x]
  BY <1>1, <1>2
<1>6. /\ puse1[new] = IF off = 0 THEN puse[c] ELSE 0
      /\ off # 0 => puse1[c] = puse[c]
      /\ \A x \in D : x # c => puse1[x] = IF x = e THEN 1 ELSE puse[x]
  BY <1>1, <1>2
<1>7. lo \in E /\ E \subseteq lo..(hi - 1)
  BY <1>1 DEF IsTiling
<1>8. size1 \in [E -> Nat] /\ psize1 \in [E -> Nat]
  <2>1. size1 \in [E -> Nat]
    BY <1>1 DEF IsTiling
  <2>2. psize1 \in [E -> Nat]
    BY <1>1 DEF IsTiling
  <2> QED
    BY <2>1, <2>2
<1>9. use1 \in [E -> {0, 1}] /\ puse1 \in [E -> {0, 1}]
  <2>1. use1 \in [E -> {0, 1}]
    BY <1>1 DEF IsTiling
  <2>2. puse1 \in [E -> {0, 1}]
    BY <1>1 DEF IsTiling
  <2> QED
    BY <2>1, <2>2
<1>10. \A x \in E : size1[x] >= 2
  BY <1>1, <1>3 DEF IsTiling
<1>11. \A x, y \in E : x < y => x + size1[x] <= y
  BY <1>1, <1>2, <1>3 DEF IsTiling
<1>12. \A x \in E : \/ x + size1[x] = hi
                   \/ /\ x + size1[x] \in E
                      /\ psize1[x + size1[x]] = size1[x]
                      /\ puse1[x + size1[x]] = use1[x]
  <2> SUFFICES ASSUME NEW x \in E, x + size1[x] # hi
               PROVE  /\ x + size1[x] \in E
                      /\ psize1[x + size1[x]] = size1[x]
                      /\ puse1[x + size1[x]] = use1[x]
    OBVIOUS
  <2>1. CASE x \in D /\ x # c
    <3>1. size1[x] = size[x] /\ use1[x] = use[x]
      BY <2>1, <1>3, <1>4
    <3>2. /\ x + size[x] \in D /\ x + size[x] # e
          /\ psize[x + size[x]] = size[x] /\ puse[x + size[x]] = use[x]
      BY <2>1, <3>1, <1>1, <1>2 DEF IsTiling
    <3> QED
      BY <3>1, <3>2, <1>1, <1>5, <1>6
  <2>2. CASE x = c /\ off # 0
    BY <2>2, <1>1, <1>3, <1>4, <1>5, <1>6
  <2>3. CASE x = new
    BY <2>3, <1>1, <1>3, <1>4, <1>5, <1>6 DEF IsTiling
  <2> QED
    BY <2>1, <2>2, <2>3, <1>1
<1>13. psize1[lo] = 0 /\ puse1[lo] = 1
  BY <1>1, <1>2, <1>5, <1>6 DEF IsTiling
<1>14. \A x \in E \ {lo} : /\ x - psize1[x] \in E
                          /\ x - psize1[x] + size1[x - psize1[x]] = x
  BY <1>1, <1>2, <1>3, <1>5 DEF IsTiling
<1>15. \A x \in E : use1[x] = 0 => puse1[x] = 1
  BY <1>1, <1>2, <1>4, <1>6 DEF IsTiling
<1> HIDE DEF WholeSize, WholeUse, WholePSize, WholePUse
<1> QED
  BY <1>7, <1>8, <1>9, <1>10, <1>11, <1>12, <1>13, <1>14, <1>15 DEF IsTiling

(* Freeing a chunk c in use, b being itself or the free chunk before it,   *)
(* and e2 its end or the end of the free chunk after it, leaves a tiling   *)
(* where b reaches to e2.                                                  *)
LEMMA FreeTiling ==
  ASSUME NEW lo \in Nat, NEW hi \in Nat,
         NEW D, NEW size, NEW use, NEW psize, NEW puse,
         IsTiling(lo, hi, D, size, use, psize, puse),
         NEW c \in D, use[c] = 1, NEW b \in D, NEW e2 \in Int,
         (b = c /\ puse[c] = 1) \/ (b + size[b] = c /\ use[b] = 0),
         \/ e2 = c + size[c] /\ (e2 = hi \/ use[e2] = 1)
         \/ c + size[c] # hi /\ use[c + size[c]] = 0
              /\ e2 = c + size[c] + size[c + size[c]]
  PROVE  IsTiling(lo, hi, Outside(D, b, e2),
                  FreedSize(D, size, b, e2), FreedUse(D, use, b, e2),
                  FreedPSize(D, psize, b, e2), FreedPUse(D, puse, b, e2))
<1> DEFINE E == Outside(D, b, e2)
           size1 == FreedSize(D, size, b, e2)
           use1 == FreedUse(D, use, b, e2)
           psize1 == FreedPSize(D, psize, b, e2)
           puse1 == FreedPUse(D, puse, b, e2)
<1> USE DEF Outside, FreedSize, FreedUse, FreedPSize, FreedPUse
<1>1. /\ D \subseteq Int /\ c \in Int /\ b \in Int /\ size \in [D -> Nat]
      /\ b <= c /\ c + size[c] <= e2 /\ b + 2 <= e2 /\ e2 <= hi
      /\ \A x \in D : b < x /\ x < e2 => x = c \/ x = c + size[c]
  BY DEF IsTiling
<1>2. e2 = hi \/ (e2 \in D /\ use[e2] = 1)
  BY DEF IsTiling
<1>3. b \in E /\ E \subseteq D
  BY <1>1
<1>4. puse[b] = 1
  BY DEF IsTiling
<1>5. \A x \in E : x # b => x + size[x] <= b \/ x >= e2
  BY <1>1 DEF IsTiling
<1>6. lo \in E /\ E \subseteq lo..(hi - 1)
  <2>1. lo <= b /\ D \subseteq lo..(hi - 1) /\ lo \in D
    BY DEF IsTiling
  <2> QED
    BY <2>1, <1>1, <1>3
<1>7. size1 \in [E -> Nat] /\ psize1 \in [E -> Nat]
  <2>1. e2 - b \in Nat /\ size \in [D -> Nat] /\ psize \in [D -> Nat]
    BY <1>1 DEF IsTiling
  <2>2. size1 \in [E -> Nat]
    BY <1>3, <2>1
  <2>3. psize1 \in [E -> Nat]
    BY <1>3, <2>1
  <2> QED
    BY <2>2, <2>3
<1>8. use1 \in [E -> {0, 1}] /\ puse1 \in [E -> {0, 1}]
  <2>1. use1 \in [E -> {0, 1}]
    BY <1>1, <1>3 DEF IsTiling
  <2>2. puse1 \in [E -> {0, 1}]
    BY <1>1, <1>3 DEF IsTiling
  <2> QED
    BY <2>1, <2>2
<1>9. \A x \in E : size1[x] >= 2
  BY <1>1, <1>3 DEF IsTiling
<1>10. \A x, y \in E : x < y => x + size1[x] <= y
  BY <1>1, <1>3 DEF IsTiling
<1>11. \A x \in E : \/ x + size1[x] = hi
                   \/ /\ x + size1[x] \in E
                      /\ psize1[x + size1[x]] = size1[x]
                      /\ puse1[x + size1[x]] = use1[x]
  <2> SUFFICES ASSUME NEW x \in E, x + size1[x] # hi
               PROVE  /\ x + size1[x] \in E
                      /\ psize1[x + size1[x]] = size1[x]
                      /\ puse1[x + size1[x]] = use1[x]
    OBVIOUS
  <2>1. CASE x = b
    <3>1. size1[x] = e2 - b /\ use1[x] = 0 /\ x + size1[x] = e2
      BY <2>1, <1>1, <1>3
    <3>2. e2 \in E
      BY <3>1, <1>1, <1>2
    <3> QED
      BY <3>1, <3>2
  <2>2. CASE x # b
    <3>1. size1[x] = size[x] /\ use1[x] = use[x] /\ x \in D
      BY <2>2, <1>3
    <3> DEFINE y == x + size[x]
    <3>2. y \in D /\ psize[y] = size[x] /\ puse[y] = use[x] /\ y \in Int
      BY <3>1, <1>1 DEF IsTiling
    <3>3. y # e2
      BY <2>2, <3>1, <1>1, <1>2, <1>5 DEF IsTiling
    <3>4. y <= b \/ y >= e2
      BY <2>2, <3>1, <1>1, <1>5 DEF IsTiling
    <3> QED
      BY <3>1, <3>2, <3>3, <3>4
  <2> QED
    BY <2>1, <2>2
<1>12. psize1[lo] = 0 /\ puse1[lo] = 1
  BY <1>1, <1>6 DEF IsTiling
<1>13. \A x \in E \ {lo} : /\ x - psize1[x] \in E
                          /\ x - psize1[x] + size1[x - psize1[x]] = x
  <2> SUFFICES ASSUME NEW x \in E \ {lo}
               PROVE  /\ x - psize1[x] \in E
                      /\ x - psize1[x] + size1[x - psize1[x]] = x
    OBVIOUS
  <2>1. CASE x = e2
    BY <2>1, <1>1, <1>3
  <2>2. CASE x # e2
    <3>1. psize1[x] = psize[x] /\ x \in D
      BY <2>2, <1>3
    <3> DEFINE y == x - psize[x]
    <3>2. y \in D /\ y + size[y] = x
      BY <3>1 DEF IsTiling
    <3>3. y \in Int /\ size[y] >= 2 /\ y < x
      BY <3>2, <1>1 DEF IsTiling
    <3>4. y # b
      BY <3>2, <2>2, <1>1 DEF IsTiling
    <3>5. y <= b \/ y >= e2
      BY <3>2, <3>3, <2>2, <1>1 DEF IsTiling
    <3>6. y \in E /\ size1[y] = size[y]
      BY <3>2, <3>4, <3>5
    <3> QED
      BY <3>1, <3>2, <3>6
  <2> QED
    BY <2>1, <2>2
<1>14. \A x \in E : use1[x] = 0 => puse1[x] = 1
  BY <1>1, <1>2, <1>3, <1>4 DEF IsTiling
<1> HIDE DEF Outside, FreedSize, FreedUse, FreedPSize, FreedPUse
<1> QED
  BY <1>6, <1>7, <1>8, <1>9, <1>10, <1>11, <1>12, <1>13, <1>14 DEF IsTiling
----------------------------------------------------------------------------
(* Writing a header touches neither the list nor the status.               *)
LEMMA SetHeaderWrites ==
  ASSUME NEW h, IsArena(h), NEW c, NEW ps, NEW pu, NEW s, NEW u,
         NEW g, g = SetHeader(h, c, ps, pu, s, u)
  PROVE  /\ IsArena(g) /\ g.status = h.status /\ SameList(g, h)
         /\ g.size = Put(h.size, c, s) /\ g.use = Put(h.use, c, u)
         /\ g.psize = Put(h.psize, c, ps) /\ g.puse = Put(h.puse, c, pu)
<1>1. g = [size |-> Put(h.size, c, s), use |-> Put(h.use, c, u),
           psize |-> Put(h.psize, c, ps), puse |-> Put(h.puse, c, pu),
           prev |-> h.prev, next |-> h.next, head |-> h.head, status |-> h.status]
  BY DEF SetHeader, IsArena
<1> QED
  BY <1>1 DEF IsArena, SameList

(* freeChunkSplit of a free chunk that is large enough keeps the arena     *)
(* well formed: one more chunk in use, the others as they were.            *)
LEMMA SplitKeeps ==
  ASSUME NEW lo \in Nat, NEW hi \in Nat, lo > 0, NEW h, ArenaInv(lo, hi, h),
         NEW c \in Free(h), NEW off \in Nat, NEW n \in Nat,
         n >= 2, off = 0 \/ off >= 2, off + n <= h.size[c]
  PROVE  LET g == Split(h, hi, c, off, n)
             new == c + off
         IN /\ ArenaInv(lo, hi, g)
            /\ new \notin Chunks(h) \ Free(h)
            /\ Chunks(g) \ Free(g) = (Chunks(h) \ Free(h)) \cup {new}
            /\ g.size[new] \in {n, n + 1}
            /\ \A x \in Chunks(h) \ Free(h) : g.size[x] = h.size[x]
<1> DEFINE D == Chunks(h)
           new == c + off
           rem == c + off + n
           e == c + h.size[c]
           room == h.size[c] - off
           base == IF off = 0 THEN Unlink(h, c) ELSE [h EXCEPT !.size[c] = off]
           F0 == IF off = 0 THEN Free(h) \ {c} ELSE Free(h)
           ps == IF off = 0 THEN h.psize[c] ELSE off
           pu == IF off = 0 THEN h.puse[c] ELSE FREE
           g == Split(h, hi, c, off, n)
<1> USE DEF FREE, INUSE, MIN_ALLOC
<1>1. /\ IsArena(h) /\ h.status = "ok"
      /\ IsTiling(lo, hi, D, h.size, h.use, h.psize, h.puse)
      /\ IsList(Free(h), h.prev, h.next, h.head)
  BY InvParts
<1>2. /\ c \in D /\ h.use[c] = 0 /\ c \in Int /\ h.size[c] \in Nat
      /\ D \subseteq Int /\ new \in Int /\ rem \in Int /\ e \in Int /\ room \in Nat
      /\ e <= hi /\ new > 0 /\ rem > 0 /\ c <= new /\ new < rem /\ rem <= e
      /\ D = DOMAIN h.size /\ D = DOMAIN h.use /\ D = DOMAIN h.psize /\ D = DOMAIN h.puse
  BY <1>1 DEF IsTiling, Free, Chunks
<1>3. \A x \in D : x # c => x < c \/ x >= e
  BY <1>1, <1>2 DEF IsTiling
<1>4. e = hi \/ (e \in D /\ e <= hi - 2 /\ h.puse[e] = 0 /\ h.use[e] = 1)
  BY <1>1, <1>2 DEF IsTiling
<1>5. /\ IsArena(base) /\ base.status = "ok"
      /\ IsList(F0, base.prev, base.next, base.head)
      /\ base.size = IF off = 0 THEN h.size ELSE [h.size EXCEPT ![c] = off]
      /\ base.use = h.use /\ base.psize = h.psize /\ base.puse = h.puse
  <2>1. CASE off = 0
    BY <2>1, <1>1, UnlinkKeeps DEF SameHeaders
  <2>2. CASE off # 0
    <3>1. base = [size |-> [h.size EXCEPT ![c] = off], use |-> h.use,
                  psize |-> h.psize, puse |-> h.puse, prev |-> h.prev,
                  next |-> h.next, head |-> h.head, status |-> h.status]
      BY <2>2, <1>1 DEF IsArena
    <3> QED
      BY <3>1, <2>2, <1>1 DEF IsArena
  <2> QED
    BY <2>1, <2>2
<1>6. CanSplit(h, c, off, n)
  BY <1>2 DEF CanSplit
<1> HIDE DEF base
<1>9. /\ base.size = [x \in D |-> base.size[x]]
      /\ \A x \in D : x # new => base.size[x] = IF x = c THEN off ELSE h.size[x]
  <2>1. h.size = [x \in D |-> h.size[x]]
    BY <1>1 DEF IsTiling
  <2>2. CASE off = 0
    <3>1. base.size = h.size /\ new = c
      BY <2>2, <1>2, <1>5
    <3> QED
      BY <2>1, <3>1
  <2>3. CASE off # 0
    BY <2>1, <2>3, <1>2, <1>5
  <2> QED
    BY <2>2, <2>3
<1>7. CASE room - n >= 2
  <2> DEFINE one == SetHeader(base, new, ps, pu, n, 1)
             parts == SetHeader(one, rem, n, 1, room - n, 0)
             k == Link(parts, rem)
             E == D \cup {new, rem}
             F == F0 \cup {rem}
  <2>1. g = UpdateNext(k, hi, rem, FALSE)
    BY <1>5, <1>6, <1>7 DEF Split, base
  <2> HIDE DEF g
  <2>2. /\ IsArena(one) /\ one.status = base.status /\ SameList(one, base)
        /\ one.size = Put(base.size, new, n) /\ one.use = Put(base.use, new, 1)
        /\ one.psize = Put(base.psize, new, ps) /\ one.puse = Put(base.puse, new, pu)
    BY <1>5, SetHeaderWrites
  <2> HIDE DEF one
  <2>3. /\ IsArena(parts) /\ parts.status = one.status /\ SameList(parts, one)
        /\ parts.size = Put(one.size, rem, room - n) /\ parts.use = Put(one.use, rem, 0)
        /\ parts.psize = Put(one.psize, rem, n) /\ parts.puse = Put(one.puse, rem, 1)
    BY <2>2, SetHeaderWrites
  <2> HIDE DEF parts
  <2>4. rem \notin D /\ rem \notin F0 /\ rem # Null
    BY <1>2, <1>3, <1>7 DEF Free, Null
  <2>5. /\ IsArena(k) /\ SameHeaders(k, parts) /\ k.status = "ok"
        /\ IsList(F, k.prev, k.next, k.head)
    BY <2>2, <2>3, <2>4, <1>5, LinkKeeps DEF SameList
  <2> HIDE DEF k
  <2>6. /\ k.size = PartsSize(D, h.size, c, off, n)
        /\ k.use = PartsUse(D, h.use, c, off, n)
    <3>1. k.size = Put(Put(base.size, new, n), rem, room - n)
          /\ k.use = Put(Put(h.use, new, 1), rem, 0)
      BY <2>2, <2>3, <2>5, <1>5 DEF SameHeaders
    <3>2. k.size = PartsSize(D, h.size, c, off, n)
      BY <3>1, <1>2, <1>9 DEF Put, PartsSize
    <3>3. k.use = PartsUse(D, h.use, c, off, n)
      BY <3>1, <1>2 DEF Put, PartsUse
    <3> QED
      BY <3>2, <3>3
  <2>7. /\ k.psize = [x \in E |-> IF x = rem THEN n ELSE IF x = new THEN ps ELSE h.psize[x]]
        /\ k.puse = [x \in E |-> IF x = rem THEN 1 ELSE IF x = new THEN pu ELSE h.puse[x]]
    <3>1. k.psize = Put(Put(h.psize, new, ps), rem, n)
          /\ k.puse = Put(Put(h.puse, new, pu), rem, 1)
      BY <2>2, <2>3, <2>5, <1>5 DEF SameHeaders
    <3> QED
      BY <3>1, <1>2 DEF Put
  <2>8. /\ e = EndOf(k, rem) /\ k.size[rem] = room - n /\ k.use[rem] = 0
        /\ e # hi => k.puse[e] = 0
    BY <2>6, <2>7, <1>2, <1>4, <1>7 DEF EndOf, PartsSize, PartsUse
  <2>9. /\ IsArena(g) /\ g.status = "ok" /\ SameList(g, k)
        /\ g.size = k.size /\ g.use = k.use
        /\ g.psize = Written(k.psize, e, hi, k.size[rem])
        /\ g.puse = Written(k.puse, e, hi, k.use[rem])
    <3>1. k.size[rem] \in Nat
      BY <2>8, <1>2, <1>7
    <3>2. e = hi \/ (e <= hi - 2 /\ k.use[rem] = k.puse[e])
      BY <2>8, <1>4
    <3>3. rem \in Int /\ e = EndOf(k, rem)
      BY <1>2, <2>8
    <3> HIDE DEF e, rem
    <3>4. Updated(UpdateNext(k, hi, rem, FALSE), k, hi, rem)
      BY <2>5, <3>1, <3>2, <3>3, UpdateNextSame
    <3> QED
      BY <2>1, <3>3, <3>4 DEF Updated
  <2>10. /\ g.psize = PartsPSize(D, h.size, h.psize, c, off, n)
         /\ g.puse = PartsPUse(D, h.size, h.puse, c, off, n)
    <3>1. e = hi => e \notin E
      BY <1>1, <1>2, <1>7 DEF IsTiling
    <3>2. e # new /\ e # rem
      BY <1>2, <1>7
    <3>3. g.psize = PartsPSize(D, h.size, h.psize, c, off, n)
      <4>1. CASE e = hi
        BY <4>1, <2>7, <2>8, <2>9, <3>1, <3>2, <1>2 DEF PartsPSize, Written
      <4>2. CASE e # hi
        <5>1. g.psize = [x \in E |-> IF x = e THEN room - n ELSE k.psize[x]]
          BY <4>2, <2>7, <2>8, <2>9 DEF Written
        <5>2. \A x \in E : (IF x = e THEN room - n ELSE k.psize[x]) =
                IF x = rem THEN n ELSE IF x = new THEN ps
                ELSE IF x = e THEN room - n ELSE h.psize[x]
          BY <3>2, <2>7
        <5> HIDE DEF k
        <5> QED
          BY <5>1, <5>2 DEF PartsPSize
      <4> QED
        BY <4>1, <4>2
    <3>4. g.puse = PartsPUse(D, h.size, h.puse, c, off, n)
      <4>1. CASE e = hi
        BY <4>1, <2>7, <2>8, <2>9, <3>1, <3>2, <1>2 DEF PartsPUse, Written
      <4>2. CASE e # hi
        <5>1. g.puse = [x \in E |-> IF x = e THEN 0 ELSE k.puse[x]]
          BY <4>2, <2>7, <2>8, <2>9 DEF Written
        <5>2. \A x \in E : (IF x = e THEN 0 ELSE k.puse[x]) =
                IF x = rem THEN 1 ELSE IF x = new THEN pu ELSE IF x = e THEN 0 ELSE h.puse[x]
          BY <3>2, <2>7
        <5> HIDE DEF k
        <5> QED
          BY <5>1, <5>2 DEF PartsPUse
      <4> QED
        BY <4>1, <4>2
    <3> QED
      BY <3>3, <3>4
  <2>11. IsTiling(lo, hi, E, g.size, g.use, g.psize, g.puse)
    BY <1>1, <1>2, <1>7, <2>6, <2>9, <2>10, CarveParts
  <2>12. Chunks(g) = E /\ Free(g) = F
    <3>1. Chunks(g) = E
      BY <2>6, <2>9 DEF Chunks, PartsSize
    <3>2. \A x \in E : g.use[x] = 0 <=> x \in F
      BY <2>6, <2>9, <1>2, <1>3, <1>7, <2>4 DEF Free, PartsUse
    <3>3. F \subseteq E
      BY DEF Free
    <3> QED
      BY <3>1, <3>2, <3>3 DEF Free
  <2>13. ArenaInv(lo, hi, g)
    BY <2>5, <2>9, <2>11, <2>12, InvParts DEF SameList
  <2>14. new \notin D \ Free(h)
    BY <1>2, <1>3, <1>7
  <2>15. E \ F = (D \ Free(h)) \cup {new}
    <3>1. CASE off = 0
      BY <3>1, <1>2, <2>4, <2>14 DEF Free
    <3>2. CASE off # 0
      <4>1. new \notin D /\ F0 = Free(h) /\ rem # new
        BY <3>2, <1>2, <1>3, <1>7
      <4>2. E \ F = (D \cup {new}) \ Free(h)
        BY <4>1, <2>4
      <4> QED
        BY <4>1, <4>2 DEF Free
    <3> QED
      BY <3>1, <3>2
  <2>16. g.size[new] = n
    BY <2>6, <2>9, <1>2 DEF PartsSize
  <2>17. \A x \in D \ Free(h) : g.size[x] = h.size[x]
    BY <2>6, <2>9, <2>14, <2>4, <1>2 DEF PartsSize, Free
  <2> QED
    BY <2>12, <2>13, <2>14, <2>15, <2>16, <2>17 DEF g
<1>8. CASE ~(room - n >= 2)
  <2> DEFINE whole == SetHeader(base, new, ps, pu, room, 1)
             E == D \cup {new}
  <2>1. g = UpdateNext(whole, hi, new, TRUE)
    BY <1>5, <1>6, <1>8 DEF Split, base
  <2> HIDE DEF g
  <2>2. /\ IsArena(whole) /\ whole.status = "ok" /\ SameList(whole, base)
        /\ whole.size = Put(base.size, new, room) /\ whole.use = Put(base.use, new, 1)
        /\ whole.psize = Put(base.psize, new, ps) /\ whole.puse = Put(base.puse, new, pu)
    BY <1>5, SetHeaderWrites
  <2> HIDE DEF whole
  <2>3. new \notin F0
    BY <1>2, <1>3 DEF Free
  <2>4. /\ whole.size = WholeSize(D, h.size, c, off)
        /\ whole.use = WholeUse(D, h.use, c, off)
        /\ whole.psize = [x \in E |-> IF x = new THEN ps ELSE h.psize[x]]
        /\ whole.puse = [x \in E |-> IF x = new THEN pu ELSE h.puse[x]]
    <3>1. whole.size = WholeSize(D, h.size, c, off)
      BY <2>2, <1>2, <1>9 DEF Put, WholeSize
    <3>2. whole.use = WholeUse(D, h.use, c, off)
      BY <2>2, <1>2, <1>5, ZenonT(40) DEF Put, WholeUse
    <3>3. whole.psize = [x \in E |-> IF x = new THEN ps ELSE h.psize[x]]
      BY <2>2, <1>2, <1>5, ZenonT(40) DEF Put
    <3>4. whole.puse = [x \in E |-> IF x = new THEN pu ELSE h.puse[x]]
      BY <2>2, <1>2, <1>5 DEF Put
    <3> QED
      BY <3>1, <3>2, <3>3, <3>4
  <2>5. /\ e = EndOf(whole, new) /\ whole.size[new] = room /\ whole.use[new] = 1
        /\ e # hi => whole.puse[e] = 0
    BY <2>4, <1>2, <1>4 DEF EndOf, WholeSize, WholeUse
  <2>6. /\ IsArena(g) /\ g.status = "ok" /\ SameList(g, whole)
        /\ g.size = whole.size /\ g.use = whole.use
        /\ g.psize = Written(whole.psize, e, hi, whole.size[new])
        /\ g.puse = Written(whole.puse, e, hi, whole.use[new])
    <3>1. whole.size[new] \in Nat
      BY <2>5, <1>2
    <3>2. e = hi \/ (e <= hi - 2 /\ whole.use[new] # whole.puse[e])
      BY <2>5, <1>4
    <3>3. new \in Int /\ e = EndOf(whole, new)
      BY <1>2, <2>5
    <3> HIDE DEF e, new
    <3>4. Updated(UpdateNext(whole, hi, new, TRUE), whole, hi, new)
      BY <2>2, <3>1, <3>2, <3>3, UpdateNextDiffers
    <3> QED
      BY <2>1, <3>3, <3>4 DEF Updated
  <2>7. /\ g.psize = WholePSize(D, h.size, h.psize, c, off)
        /\ g.puse = WholePUse(D, h.size, h.puse, c, off)
    <3>1. e = hi => e \notin E
      BY <1>1, <1>2 DEF IsTiling
    <3>2. e # new
      BY <1>2
    <3>3. g.psize = WholePSize(D, h.size, h.psize, c, off)
      <4>1. CASE e = hi
        BY <4>1, <2>4, <2>5, <2>6, <3>1, <3>2, <1>2 DEF WholePSize, Written
      <4>2. CASE e # hi
        <5>1. g.psize = [x \in E |-> IF x = e THEN room ELSE whole.psize[x]]
          BY <4>2, <2>4, <2>5, <2>6 DEF Written
        <5>2. \A x \in E : (IF x = e THEN room ELSE whole.psize[x]) =
                IF x = new THEN ps ELSE IF x = e THEN room ELSE h.psize[x]
          BY <3>2, <2>4
        <5> QED
          BY <5>1, <5>2 DEF WholePSize
      <4> QED
        BY <4>1, <4>2
    <3>4. g.puse = WholePUse(D, h.size, h.puse, c, off)
      <4>1. CASE e = hi
        BY <4>1, <2>4, <2>5, <2>6, <3>1, <3>2, <1>2 DEF WholePUse, Written
      <4>2. CASE e # hi
        <5>1. g.puse = [x \in E |-> IF x = e THEN 1 ELSE whole.puse[x]]
          BY <4>2, <2>4, <2>5, <2>6 DEF Written
        <5>2. \A x \in E : (IF x = e THEN 1 ELSE whole.puse[x]) =
                IF x = new THEN pu ELSE IF x = e THEN 1 ELSE h.puse[x]
          BY <3>2, <2>4
        <5> QED
          BY <5>1, <5>2 DEF WholePUse
      <4> QED
        BY <4>1, <4>2
    <3> QED
      BY <3>3, <3>4
  <2>8. IsTiling(lo, hi, E, g.size, g.use, g.psize, g.puse)
    BY <1>1, <1>2, <2>4, <2>6, <2>7, CarveWhole
  <2>9. Chunks(g) = E /\ Free(g) = F0
    <3>1. Chunks(g) = E
      BY <2>4, <2>6 DEF Chunks, WholeSize
    <3>2. \A x \in E : g.use[x] = 0 <=> x \in F0
      BY <2>4, <2>6, <1>2, <1>3, <2>3 DEF Free, WholeUse
    <3>3. F0 \subseteq E
      BY DEF Free
    <3> QED
      BY <3>1, <3>2, <3>3 DEF Free
  <2>10. ArenaInv(lo, hi, g)
    BY <1>5, <2>2, <2>6, <2>8, <2>9, InvParts DEF SameList
  <2>11. new \notin D \ Free(h)
    BY <1>2, <1>3
  <2>12. E \ F0 = (D \ Free(h)) \cup {new}
    BY <1>2, <1>3, <2>3, <2>11
  <2>13. g.size[new] \in {n, n + 1}
    <3>1. g.size[new] = room
      BY <2>4, <2>6 DEF WholeSize
    <3> QED
      BY <3>1, <1>2, <1>8
  <2>14. \A x \in D \ Free(h) : g.size[x] = h.size[x]
    BY <2>4, <2>6, <2>11, <1>2 DEF WholeSize, Free
  <2> QED
    BY <2>9, <2>10, <2>11, <2>12, <2>13, <2>14 DEF g
<1> QED
  BY <1>7, <1>8
----------------------------------------------------------------------------
(* loomFree.  Merged: m is h after the chunks from b up to e2 became one   *)
(* free chunk, F being linked, and before the header at e2 is told.        *)
Kept(f, E) == [x \in E |-> f[x]]

Merged(m, h, b, e2, F) ==
  /\ IsArena(m) /\ m.status = "ok"
  /\ IsList(F, m.prev, m.next, m.head)
  /\ m.size = FreedSize(Chunks(h), h.size, b, e2)
  /\ m.use = FreedUse(Chunks(h), h.use, b, e2)
  /\ m.psize = Kept(h.psize, Outside(Chunks(h), b, e2))
  /\ m.puse = Kept(h.puse, Outside(Chunks(h), b, e2))

Joined(size, b, c) ==
  [x \in DOMAIN size \ {c} |-> IF x = b THEN size[b] + size[c] ELSE size[x]]

LEMMA AbsorbShape ==
  ASSUME NEW h, IsArena(h), NEW b, NEW c
  PROVE  LET g == Absorb(h, b, c)
         IN /\ IsArena(g) /\ g.status = h.status /\ SameList(g, h)
            /\ g.size = Joined(h.size, b, c) /\ g.use = Drop(h.use, c)
            /\ g.psize = Drop(h.psize, c) /\ g.puse = Drop(h.puse, c)
<1> DEFINE j == Joined(h.size, b, c)
           r == [size |-> j, use |-> Drop(h.use, c),
                 psize |-> Drop(h.psize, c), puse |-> Drop(h.puse, c),
                 prev |-> h.prev, next |-> h.next, head |-> h.head, status |-> h.status]
<1>1. Absorb(h, b, c) = [h EXCEPT !.psize = Drop(h.psize, c), !.puse = Drop(h.puse, c),
                                  !.use = Drop(h.use, c), !.size = j]
  BY DEF Absorb, Joined
<1> HIDE DEF j
<1>2. Absorb(h, b, c) = r
  BY <1>1 DEF IsArena
<1>3. IsArena(r) /\ r.status = h.status /\ SameList(r, h)
  BY DEF IsArena, SameList
<1> QED
  BY <1>2, <1>3 DEF j

(* The chunk is linked and joins the free chunk before it, if there is one.*)
LEMMA BackKeeps ==
  ASSUME NEW lo \in Nat, NEW hi \in Nat, lo > 0, NEW h, ArenaInv(lo, hi, h),
         NEW c \in Chunks(h), h.use[c] = 1
  PROVE  LET linked == Link([h EXCEPT !.use[c] = FREE], c)
             b == IF h.puse[c] = INUSE THEN c ELSE c - h.psize[c]
             back == IF h.puse[c] = INUSE THEN linked ELSE MergeBack(linked, lo, c)
         IN /\ linked.status = "ok"
            /\ Merged(back, h, b, c + h.size[c], Free(h) \cup {b})
<1> DEFINE D == Chunks(h)
           e == c + h.size[c]
           marked == [h EXCEPT !.use[c] = FREE]
           linked == Link(marked, c)
<1> USE DEF FREE, INUSE, MIN_ALLOC
<1>1. /\ IsArena(h) /\ h.status = "ok"
      /\ IsTiling(lo, hi, D, h.size, h.use, h.psize, h.puse)
      /\ IsList(Free(h), h.prev, h.next, h.head)
  BY InvParts
<1>2. /\ D \subseteq Int /\ c \in Int /\ c # Null /\ c \notin Free(h) /\ h.size[c] >= 2
      /\ h.size \in [D -> Nat] /\ h.use \in [D -> {0, 1}]
      /\ h.psize \in [D -> Nat] /\ h.puse \in [D -> {0, 1}]
  BY <1>1 DEF IsTiling, Free, Null
<1>3. /\ IsArena(marked) /\ marked.status = "ok" /\ SameList(marked, h)
      /\ marked.size = h.size /\ marked.use = [h.use EXCEPT ![c] = 0]
      /\ marked.psize = h.psize /\ marked.puse = h.puse
  <2>1. marked = [size |-> h.size, use |-> [h.use EXCEPT ![c] = 0],
                  psize |-> h.psize, puse |-> h.puse, prev |-> h.prev,
                  next |-> h.next, head |-> h.head, status |-> h.status]
    BY <1>1 DEF IsArena
  <2> HIDE DEF marked
  <2>2. /\ marked.size = h.size /\ marked.use = [h.use EXCEPT ![c] = 0]
        /\ marked.psize = h.psize /\ marked.puse = h.puse
        /\ marked.prev = h.prev /\ marked.next = h.next
        /\ marked.head = h.head /\ marked.status = h.status
    BY <2>1
  <2>3. IsArena(marked)
    BY <2>1, <2>2, <1>1 DEF IsArena
  <2> QED
    BY <2>2, <2>3, <1>1 DEF SameList
<1> HIDE DEF marked
<1>4. /\ IsArena(linked) /\ SameHeaders(linked, marked) /\ linked.status = "ok"
      /\ IsList(Free(h) \cup {c}, linked.prev, linked.next, linked.head)
  BY <1>1, <1>2, <1>3, LinkKeeps DEF SameList
<1> HIDE DEF linked
<1>5. CASE h.puse[c] = 1
  <2>1. Outside(D, c, e) = D
    BY <1>1, <1>2 DEF Outside, IsTiling
  <2>2. h.size = FreedSize(D, h.size, c, e)
    BY <1>2, <2>1 DEF FreedSize
  <2>3. [h.use EXCEPT ![c] = 0] = FreedUse(D, h.use, c, e)
    BY <1>2, <2>1 DEF FreedUse
  <2>4. h.psize = Kept(h.psize, D) /\ h.puse = Kept(h.puse, D)
    BY <1>2 DEF Kept
  <2>5. Merged(linked, h, c, e, Free(h) \cup {c})
    BY <1>3, <1>4, <2>1, <2>2, <2>3, <2>4 DEF Merged, SameHeaders
  <2> QED
    BY <1>4, <1>5, <2>5 DEF linked, marked
<1>6. CASE h.puse[c] # 1
  <2> DEFINE b == c - h.psize[c]
             u == Unlink(linked, c)
             g == Absorb(u, b, c)
             O == Outside(D, b, e)
  <2>1. /\ b \in D /\ b \in Int /\ b + h.size[b] = c /\ h.size[b] = h.psize[c]
        /\ h.size[b] >= 2 /\ h.use[b] = 0 /\ h.puse[b] = 1 /\ b >= lo /\ b < c
    <3>1. c # lo
      BY <1>1, <1>6 DEF IsTiling
    <3>2. b \in D /\ b + h.size[b] = c
      BY <3>1, <1>1 DEF IsTiling
    <3> HIDE DEF b
    <3>3. h.puse[c] = h.use[b] /\ h.psize[c] = h.size[b]
      BY <3>2, <1>1, <1>2 DEF IsTiling
    <3>4. h.puse[c] = 0
      BY <1>2, <1>6
    <3>5. h.puse[b] = 1 /\ h.size[b] >= 2 /\ b >= lo /\ b \in Int
      BY <3>2, <3>3, <3>4, <1>1, <1>2 DEF IsTiling
    <3> QED
      BY <3>2, <3>3, <3>4, <3>5, <1>2
  <2>2. /\ IsArena(u) /\ SameHeaders(u, linked) /\ u.status = "ok"
        /\ IsList((Free(h) \cup {c}) \ {c}, u.prev, u.next, u.head)
    BY <1>4, UnlinkKeeps
  <2>3. MergeBack(linked, lo, c) = g
    <3>1. /\ linked.psize = h.psize /\ linked.size = h.size /\ linked.puse = h.puse
          /\ linked.use[b] = 0
      BY <1>2, <1>3, <1>4, <2>1 DEF SameHeaders
    <3>2. ~(linked.puse[b] = FREE) /\ b = c - linked.psize[c]
      BY <2>1, <3>1
    <3>3. ~(linked.psize[c] < MIN_ALLOC \/ b < lo \/ linked.use[b] = INUSE
            \/ linked.size[b] # linked.psize[c])
      BY <1>2, <2>1, <3>1
    <3> QED
      BY <3>2, <3>3 DEF MergeBack
  <2> HIDE DEF u
  <2>4. /\ IsArena(g) /\ g.status = "ok" /\ SameList(g, u)
        /\ g.size = Joined(u.size, b, c) /\ g.use = Drop(u.use, c)
        /\ g.psize = Drop(u.psize, c) /\ g.puse = Drop(u.puse, c)
    BY <2>2, AbsorbShape
  <2> HIDE DEF g
  <2>5. O = D \ {c}
    <3>1. \A x \in D : b < x => b + h.size[b] <= x
      BY <1>1, <2>1 DEF IsTiling
    <3>2. \A x \in D : c < x => c + h.size[c] <= x
      BY <1>1 DEF IsTiling
    <3> HIDE DEF b, D
    <3>3. ASSUME NEW x \in D
          PROVE  (x <= b \/ x >= c + h.size[c]) <=> x # c
      BY <3>1, <3>2, <2>1, <1>2
    <3> QED
      BY <3>3 DEF Outside
  <2>6. g.size = FreedSize(D, h.size, b, e)
    <3>1. g.size = Joined(h.size, b, c)
      BY <1>3, <1>4, <2>2, <2>4 DEF SameHeaders
    <3> QED
      BY <3>1, <2>1, <2>5, <1>2 DEF Joined, FreedSize
  <2>7. g.use = FreedUse(D, h.use, b, e)
    <3>1. g.use = Drop([h.use EXCEPT ![c] = 0], c)
      BY <1>3, <1>4, <2>2, <2>4 DEF SameHeaders
    <3> QED
      BY <3>1, <2>1, <2>5, <1>2 DEF Drop, FreedUse
  <2>8. g.psize = Kept(h.psize, O) /\ g.puse = Kept(h.puse, O)
    <3>1. g.psize = Drop(h.psize, c) /\ g.puse = Drop(h.puse, c)
      BY <1>3, <1>4, <2>2, <2>4 DEF SameHeaders
    <3> QED
      BY <3>1, <2>5, <1>2 DEF Drop, Kept
  <2>9. (Free(h) \cup {c}) \ {c} = Free(h) \cup {b}
    BY <1>2, <2>1 DEF Free
  <2>10. Merged(g, h, b, e, Free(h) \cup {b})
    BY <2>2, <2>4, <2>6, <2>7, <2>8, <2>9 DEF Merged, SameList
  <2> QED
    BY <1>4, <1>6, <2>3, <2>10 DEF linked, marked
<1> QED
  BY <1>5, <1>6

(* A free chunk at the end of a merged one joins it too.                   *)
LEMMA ForwardKeeps ==
  ASSUME NEW hi \in Nat, NEW h, NEW m, NEW b \in Int, NEW e \in Int, NEW F,
         b < e, e \in Chunks(h), e + h.size[e] <= hi,
         Chunks(h) \subseteq Int, h.size \in [Chunks(h) -> Nat],
         Merged(m, h, b, e, F), e \in F, h.size[e] >= 2,
         \A x \in Chunks(h) : x > e => x >= e + h.size[e],
         e + h.size[e] < hi => e + h.size[e] \in Chunks(h) /\ h.use[e + h.size[e]] = 1,
         b \in Chunks(h)
  PROVE  Merged(MergeForward(m, hi, b), h, b, e + h.size[e], F \ {e})
<1> DEFINE D == Chunks(h)
           e2 == e + h.size[e]
           u == Unlink(m, e)
           g == Absorb(u, b, e)
           O == Outside(D, b, e2)
<1> USE DEF FREE, INUSE, MIN_ALLOC
<1>1. /\ IsArena(m) /\ m.status = "ok" /\ IsList(F, m.prev, m.next, m.head)
      /\ m.size = FreedSize(D, h.size, b, e) /\ m.use = FreedUse(D, h.use, b, e)
      /\ m.psize = Kept(h.psize, Outside(D, b, e))
      /\ m.puse = Kept(h.puse, Outside(D, b, e))
  BY DEF Merged
<1>2. /\ IsArena(u) /\ SameHeaders(u, m) /\ u.status = "ok"
      /\ IsList(F \ {e}, u.prev, u.next, u.head)
  BY <1>1, UnlinkKeeps
<1>3. m.size[b] = e - b /\ m.size[e] = h.size[e] /\ EndOf(m, b) = e /\ e2 \in Int /\ b < e2
  BY <1>1 DEF FreedSize, Outside, EndOf
<1>4. Outside(D, b, e) \ {e} = O /\ b \in O /\ O \subseteq D
  BY DEF Outside
<1> HIDE DEF u
<1>5. /\ IsArena(g) /\ g.status = "ok" /\ SameList(g, u)
      /\ g.size = Joined(u.size, b, e) /\ g.use = Drop(u.use, e)
      /\ g.psize = Drop(u.psize, e) /\ g.puse = Drop(u.puse, e)
  BY <1>2, AbsorbShape
<1> HIDE DEF g
<1>6. g.size = FreedSize(D, h.size, b, e2)
  <2>1. g.size = Joined(FreedSize(D, h.size, b, e), b, e)
    BY <1>1, <1>2, <1>5 DEF SameHeaders
  <2>2. DOMAIN FreedSize(D, h.size, b, e) \ {e} = O
    BY <1>4 DEF FreedSize
  <2>3. \A x \in O : (IF x = b THEN FreedSize(D, h.size, b, e)[b] + FreedSize(D, h.size, b, e)[e]
                       ELSE FreedSize(D, h.size, b, e)[x])
                   = (IF x = b THEN e2 - b ELSE h.size[x])
    BY <1>4, <1>1, <1>3 DEF FreedSize
  <2> HIDE DEF O, e2
  <2>4. Joined(FreedSize(D, h.size, b, e), b, e) = [x \in O |-> IF x = b THEN e2 - b ELSE h.size[x]]
    BY <2>2, <2>3 DEF Joined
  <2> QED
    BY <2>1, <2>4 DEF FreedSize, O
<1>7. g.use = FreedUse(D, h.use, b, e2)
  <2>1. g.use = Drop(FreedUse(D, h.use, b, e), e)
    BY <1>1, <1>2, <1>5 DEF SameHeaders
  <2> QED
    BY <2>1, <1>4 DEF Drop, FreedUse
<1>8. g.psize = Kept(h.psize, O) /\ g.puse = Kept(h.puse, O)
  <2>1. g.psize = Drop(Kept(h.psize, Outside(D, b, e)), e)
        /\ g.puse = Drop(Kept(h.puse, Outside(D, b, e)), e)
    BY <1>1, <1>2, <1>5 DEF SameHeaders
  <2> QED
    BY <2>1, <1>4 DEF Drop, Kept
<1>9. Merged(g, h, b, e2, F \ {e})
  BY <1>2, <1>5, <1>6, <1>7, <1>8 DEF Merged, SameList
<1>10. MergeForward(m, hi, b) = g
  <2>1. ~(m.size[e] < MIN_ALLOC \/ u.status # "ok")
    BY <1>2, <1>3
  <2>2. EndOf(g, b) = e2
    BY <1>3, <1>4, <1>6 DEF EndOf, FreedSize
  <2>3. e2 < hi => g.use[e2] = 1
    BY <1>3, <1>7 DEF FreedUse, Outside
  <2> HIDE DEF e2
  <2> QED
    BY <1>3, <2>1, <2>2, <2>3 DEF MergeForward, g, u
<1> QED
  BY <1>9, <1>10

(* Telling the header at e2 completes the tiling.                          *)
LEMMA TellKeeps ==
  ASSUME NEW hi \in Nat, NEW h, NEW m, NEW b \in Int, NEW e2 \in Int, NEW F, NEW g,
         b < e2, b \in Chunks(h),
         Merged(m, h, b, e2, F), Updated(g, m, hi, b),
         e2 = hi => hi \notin Chunks(h), e2 # hi => e2 \in Chunks(h)
  PROVE  /\ IsArena(g) /\ g.status = "ok" /\ IsList(F, g.prev, g.next, g.head)
         /\ g.size = FreedSize(Chunks(h), h.size, b, e2)
         /\ g.use = FreedUse(Chunks(h), h.use, b, e2)
         /\ g.psize = FreedPSize(Chunks(h), h.psize, b, e2)
         /\ g.puse = FreedPUse(Chunks(h), h.puse, b, e2)
<1> DEFINE D == Chunks(h)
           O == Outside(D, b, e2)
<1>1. /\ IsArena(g) /\ g.status = "ok" /\ IsList(F, g.prev, g.next, g.head)
      /\ g.size = FreedSize(D, h.size, b, e2) /\ g.use = FreedUse(D, h.use, b, e2)
  BY DEF Merged, Updated, SameList
<1>2. b \in O /\ m.size[b] = e2 - b /\ m.use[b] = 0 /\ EndOf(m, b) = e2
  BY DEF Merged, FreedSize, FreedUse, Outside, EndOf
<1>3. /\ g.psize = Written(Kept(h.psize, O), e2, hi, e2 - b)
      /\ g.puse = Written(Kept(h.puse, O), e2, hi, 0)
  BY <1>2 DEF Updated, Merged
<1>4. e2 = hi => e2 \notin O
  BY DEF Outside
<1>5. Written(Kept(h.psize, O), e2, hi, e2 - b) = FreedPSize(D, h.psize, b, e2)
  BY <1>4 DEF Written, Kept, FreedPSize
<1>6. Written(Kept(h.puse, O), e2, hi, 0) = FreedPUse(D, h.puse, b, e2)
  BY <1>4 DEF Written, Kept, FreedPUse
<1> QED
  BY <1>1, <1>3, <1>5, <1>6

(* loomFree of a chunk in use keeps the arena well formed and takes that   *)
(* chunk, and no other, out of use.                                        *)
LEMMA FreeKeeps ==
  ASSUME NEW lo \in Nat, NEW hi \in Nat, lo > 0, NEW h, ArenaInv(lo, hi, h),
         NEW c \in Chunks(h) \ Free(h)
  PROVE  LET g == FreeChunk(h, lo, hi, c)
         IN /\ ArenaInv(lo, hi, g)
            /\ Chunks(g) \ Free(g) = (Chunks(h) \ Free(h)) \ {c}
            /\ \A x \in (Chunks(h) \ Free(h)) \ {c} : g.size[x] = h.size[x]
<1> DEFINE D == Chunks(h)
           e == c + h.size[c]
           linked == Link([h EXCEPT !.use[c] = FREE], c)
           b == IF h.puse[c] = INUSE THEN c ELSE c - h.psize[c]
           back == IF h.puse[c] = INUSE THEN linked ELSE MergeBack(linked, lo, c)
           more == e # hi /\ h.use[e] = 0
           e2 == IF more THEN e + h.size[e] ELSE e
           F == (Free(h) \cup {b}) \ (IF more THEN {e} ELSE {})
           m == IF more THEN MergeForward(back, hi, b) ELSE back
           g == FreeChunk(h, lo, hi, c)
<1> USE DEF FREE, INUSE, MIN_ALLOC
<1>1. /\ IsArena(h) /\ h.status = "ok"
      /\ IsTiling(lo, hi, D, h.size, h.use, h.psize, h.puse)
      /\ IsList(Free(h), h.prev, h.next, h.head)
  BY InvParts
<1>2. /\ c \in D /\ h.use[c] = 1 /\ c \in Int /\ h.size[c] >= 2 /\ e \in Int
      /\ D \subseteq Int /\ hi \notin D /\ e <= hi
      /\ h.size \in [D -> Nat] /\ h.use \in [D -> {0, 1}]
      /\ h.psize \in [D -> Nat] /\ h.puse \in [D -> {0, 1}]
  BY <1>1 DEF IsTiling, Free, Chunks
<1>3. linked.status = "ok" /\ Merged(back, h, b, e, Free(h) \cup {b})
  BY <1>2, BackKeeps
<1>4. /\ b \in D /\ b \in Int /\ b <= c
      /\ (b = c /\ h.puse[c] = 1) \/ (b + h.size[b] = c /\ h.use[b] = 0)
  <2>1. CASE h.puse[c] = 1
    BY <2>1, <1>2
  <2>2. CASE h.puse[c] # 1
    <3>1. b = c - h.psize[c] /\ h.puse[c] = 0 /\ c # lo
      BY <2>2, <1>1, <1>2 DEF IsTiling
    <3>2. b \in D /\ b + h.size[b] = c
      BY <3>1, <1>1 DEF IsTiling
    <3> HIDE DEF b
    <3>3. h.puse[c] = h.use[b]
      BY <3>2, <1>1, <1>2 DEF IsTiling
    <3> QED
      BY <3>1, <3>2, <3>3, <1>2
  <2> QED
    BY <2>1, <2>2
<1>5. e # hi => e \in D /\ h.puse[e] = 1
  BY <1>1, <1>2 DEF IsTiling
<1>6. /\ e2 \in Int /\ e <= e2 /\ b < e2
      /\ e2 # hi => e2 \in D /\ h.use[e2] = 1
      /\ more => h.size[e] >= 2 /\ e2 <= hi /\ \A x \in D : x > e => x >= e2
      /\ h.puse[e2] = (IF more THEN 0 ELSE 1) \/ e2 = hi
  <2>1. CASE more
    <3>1. e \in D /\ e2 = e + h.size[e] /\ h.size[e] >= 2
      BY <2>1, <1>1, <1>5 DEF IsTiling
    <3>2. e2 # hi => e2 \in D /\ h.puse[e2] = 0
      BY <2>1, <3>1, <1>1 DEF IsTiling
    <3>3. e2 # hi => h.use[e2] = 1
      <4>1. \A x \in D : h.use[x] \in {0, 1} /\ (h.use[x] = 0 => h.puse[x] = 1)
        BY <1>1 DEF IsTiling
      <4> HIDE DEF e2, D
      <4> QED
        BY <4>1, <3>2
    <3>4. e2 \in Int /\ e <= e2 /\ b < e2 /\ e2 <= hi /\ \A x \in D : x > e => x >= e2
      BY <3>1, <1>1, <1>2, <1>4, SMTT(20) DEF IsTiling
    <3> HIDE DEF e2
    <3> QED
      BY <2>1, <3>1, <3>2, <3>3, <3>4
  <2>2. CASE ~more
    BY <2>2, <1>1, <1>2, <1>4, <1>5 DEF IsTiling
  <2> QED
    BY <2>1, <2>2
<1> HIDE DEF b, back, linked
<1>7. Merged(m, h, b, e2, F)
  <2>1. CASE more
    <3>1. e \in D /\ e \in Free(h) \cup {b} /\ b < e
      BY <2>1, <1>2, <1>4, <1>5 DEF Free
    <3>2. e2 = e + h.size[e]
      BY <2>1
    <3>3. e2 < hi => e2 \in D /\ h.use[e2] = 1
      BY <1>6
    <3>4. e2 <= hi /\ h.size[e] >= 2 /\ \A x \in D : x > e => x >= e2
      BY <2>1, <1>6
    <3> HIDE DEF e2, e
    <3>5. Merged(MergeForward(back, hi, b), h, b, e2, (Free(h) \cup {b}) \ {e})
      BY <3>1, <3>2, <3>3, <3>4, <1>2, <1>3, <1>4, ForwardKeeps
    <3> QED
      BY <2>1, <3>5
  <2>2. CASE ~more
    BY <2>2, <1>3
  <2> QED
    BY <2>1, <2>2
<1>8. /\ EndOf(m, b) = e2 /\ m.size[b] \in Nat /\ m.use[b] = 0
      /\ e2 # hi => m.puse[e2] = h.puse[e2]
      /\ EndOf(back, b) = e /\ (e # hi => back.use[e] = h.use[e])
  <2>1. b \in Outside(D, b, e2) /\ b \in Outside(D, b, e) /\ b < e
    BY <1>2, <1>4, <1>6 DEF Outside
  <2>2. EndOf(m, b) = e2 /\ m.size[b] \in Nat /\ m.use[b] = 0
    <3> HIDE DEF e2, m, more
    <3>1. m.size[b] \in Nat /\ m.use[b] = 0
      BY <2>1, <1>4, <1>6, <1>7 DEF Merged, FreedSize, FreedUse
    <3>2. EndOf(m, b) = e2
      BY <2>1, <1>4, <1>6, <1>7 DEF Merged, FreedSize, FreedUse, EndOf
    <3> QED
      BY <3>1, <3>2
  <2>3. e2 # hi => m.puse[e2] = h.puse[e2]
    <3> HIDE DEF e2, m, more
    <3> QED
      BY <1>6, <1>7, <1>2 DEF Merged, Kept, Outside
  <2>4. EndOf(back, b) = e /\ (e # hi => back.use[e] = h.use[e])
    BY <2>1, <1>2, <1>3, <1>4, <1>5 DEF Merged, FreedSize, FreedUse, EndOf, Outside
  <2> QED
    BY <2>2, <2>3, <2>4
<1>9. g = UpdateNext(m, hi, b, ~more)
  <2>1. h.use[c] # FREE /\ ~(h.size[c] < MIN_ALLOC)
    BY <1>2
  <2>2. back.status = "ok" /\ ~(e > hi) /\ (e < hi /\ back.use[e] = FREE <=> more)
    BY <1>2, <1>3, <1>5, <1>8 DEF Merged
  <2>3. g = IF more THEN UpdateNext(MergeForward(back, hi, b), hi, b, FALSE)
            ELSE UpdateNext(back, hi, b, TRUE)
    <3>1. EndOf(back, b) = e
      BY <1>8
    <3> HIDE DEF more, e
    <3> QED
      BY <2>1, <2>2, <3>1, <1>3 DEF FreeChunk, linked, back, b
  <2>4. CASE more
    <3>1. (~more) = FALSE
      BY <2>4
    <3> HIDE DEF more
    <3> QED
      BY <2>3, <2>4, <3>1
  <2>5. CASE ~more
    <3>1. (~more) = TRUE
      BY <2>5
    <3> HIDE DEF more
    <3> QED
      BY <2>3, <2>5, <3>1
  <2> QED
    BY <2>4, <2>5
<1> HIDE DEF g, m
<1>10. Updated(g, m, hi, b)
  <2>1. IsArena(m) /\ m.status = "ok"
    BY <1>7 DEF Merged
  <2>2. e2 = hi \/ e2 <= hi - 2
    <3> HIDE DEF e2
    <3> QED
      BY <1>1, <1>2, <1>6 DEF IsTiling
  <2>3. CASE more
    <3>1. (~more) = FALSE
      BY <2>3
    <3>2. e2 = hi \/ (e2 <= hi - 2 /\ m.use[b] = m.puse[e2])
      BY <2>2, <2>3, <1>6, <1>8
    <3>3. g = UpdateNext(m, hi, b, FALSE)
      BY <1>9, <3>1
    <3> HIDE DEF more, e2
    <3> QED
      BY <2>1, <3>2, <3>3, <1>4, <1>8, UpdateNextSame
  <2>4. CASE ~more
    <3>1. (~more) = TRUE
      BY <2>4
    <3>2. e2 = hi \/ (e2 <= hi - 2 /\ m.use[b] # m.puse[e2])
      BY <2>2, <2>4, <1>6, <1>8
    <3>3. g = UpdateNext(m, hi, b, TRUE)
      BY <1>9, <3>1
    <3> HIDE DEF more, e2
    <3> QED
      BY <2>1, <3>2, <3>3, <1>4, <1>8, UpdateNextDiffers
  <2> QED
    BY <2>3, <2>4
<1>11. /\ IsArena(g) /\ g.status = "ok" /\ IsList(F, g.prev, g.next, g.head)
       /\ g.size = FreedSize(D, h.size, b, e2) /\ g.use = FreedUse(D, h.use, b, e2)
       /\ g.psize = FreedPSize(D, h.psize, b, e2) /\ g.puse = FreedPUse(D, h.puse, b, e2)
  <2>1. e2 = hi => hi \notin D
    BY <1>2
  <2>2. e2 # hi => e2 \in D
    BY <1>6
  <2> HIDE DEF e2, F
  <2> QED
    BY <2>1, <2>2, <1>4, <1>6, <1>7, <1>10, TellKeeps
<1>12. IsTiling(lo, hi, Outside(D, b, e2), g.size, g.use, g.psize, g.puse)
  <2>1. \/ e2 = e /\ (e2 = hi \/ h.use[e2] = 1)
        \/ e # hi /\ h.use[e] = 0 /\ e2 = e + h.size[e]
    BY <1>6
  <2> HIDE DEF e2
  <2> QED
    BY <2>1, <1>1, <1>2, <1>4, <1>6, <1>11, FreeTiling
<1>13. Chunks(g) = Outside(D, b, e2)
  BY <1>11 DEF Chunks, FreedSize
<1>14. \A x \in D : b < x /\ x < e2 => x = c \/ (more /\ x = e)
  <2> SUFFICES ASSUME NEW x \in D, b < x, x < e2, x # c
               PROVE  more /\ x = e
    OBVIOUS
  <2>0. \A y, z \in D : y < z => y + h.size[y] <= z
    BY <1>1 DEF IsTiling
  <2>1. x > c
    <3> HIDE DEF D, b
    <3> QED
      BY <2>0, <1>2, <1>4
  <2>2. x >= e
    BY <2>0, <2>1, <1>2
  <2>3. more
    BY <2>2, <1>2
  <2> HIDE DEF e2, e
  <2>4. ~(x > e)
    BY <2>3, <1>2, <1>6
  <2> QED
    BY <2>2, <2>3, <2>4, <1>2
<1>15. F \subseteq Outside(D, b, e2) /\ \A x \in Outside(D, b, e2) : g.use[x] = 0 <=> x \in F
  <2>1. F \subseteq Outside(D, b, e2)
    BY <1>2, <1>4, <1>6, <1>14 DEF Outside, Free
  <2>2. \A x \in Outside(D, b, e2) : h.use[x] = 0 => ~(more /\ x = e)
    BY <1>1, <1>2, <1>4, <1>6, SMTT(20) DEF Outside, IsTiling
  <2>3. \A x \in Outside(D, b, e2) : g.use[x] = 0 <=> x = b \/ h.use[x] = 0
    BY <1>11 DEF FreedUse
  <2> QED
    BY <2>1, <2>2, <2>3, <1>2, <1>4, <1>6 DEF Outside, Free
<1>16. Free(g) = F
  BY <1>13, <1>15 DEF Free
<1>17. ArenaInv(lo, hi, g)
  BY <1>11, <1>12, <1>13, <1>16, InvParts
<1>18. Outside(D, b, e2) \ F = (D \ Free(h)) \ {c}
  <2>1. ASSUME NEW x \in Outside(D, b, e2) \ F PROVE x \in (D \ Free(h)) \ {c}
    <3>1. x \in D /\ g.use[x] # 0
      BY <2>1, <1>15 DEF Outside
    <3>2. x # b /\ h.use[x] # 0
      BY <2>1, <3>1, <1>11 DEF FreedUse
    <3>3. b # c => b < c /\ c < e2
      BY <1>2, <1>4, <1>6
    <3>4. x # c
      <4>1. (x <= b \/ x >= e2) /\ e2 \in Int
        BY <2>1, <1>6 DEF Outside
      <4> HIDE DEF e2
      <4> QED
        BY <4>1, <3>2, <3>3, <1>2, <1>4
    <3> QED
      BY <3>1, <3>2, <3>4 DEF Free
  <2>2. ASSUME NEW x \in (D \ Free(h)) \ {c} PROVE x \in Outside(D, b, e2) \ F
    <3>1. x \in D /\ h.use[x] = 1 /\ x # c /\ x # b
      BY <2>2, <1>2, <1>4 DEF Free
    <3>2. ~(more /\ x = e)
      BY <3>1
    <3>3. x \in Outside(D, b, e2)
      <4> HIDE DEF more, e2
      <4> QED
        BY <3>1, <3>2, <1>2, <1>4, <1>6, <1>14 DEF Outside
    <3> QED
      BY <3>1, <3>3, <1>2 DEF Free
  <2> QED
    BY <2>1, <2>2
<1>19. \A x \in (D \ Free(h)) \ {c} : g.size[x] = h.size[x]
  BY <1>18, <1>11, <1>4 DEF Outside, FreedSize, Free
<1> QED
  BY <1>13, <1>16, <1>17, <1>18, <1>19 DEF g
----------------------------------------------------------------------------
(* A new arena is well formed, all free.                                   *)
LEMMA NewArenaKeeps ==
  ASSUME NEW lo \in Nat, NEW hi \in Nat, lo > 0, lo + 2 <= hi
  PROVE  ArenaInv(lo, hi, NewArena(lo, hi)) /\ Chunks(NewArena(lo, hi)) \ Free(NewArena(lo, hi)) = {}
<1> DEFINE h == NewArena(lo, hi)
<1>1. /\ IsArena(h) /\ h.status = "ok" /\ Chunks(h) = {lo} /\ Free(h) = {lo}
      /\ h.size = [c \in {lo} |-> hi - lo] /\ h.use = [c \in {lo} |-> 0]
      /\ h.psize = [c \in {lo} |-> 0] /\ h.puse = [c \in {lo} |-> 1]
      /\ h.prev = [c \in {lo} |-> Null] /\ h.next = [c \in {lo} |-> Null] /\ h.head = lo
  BY DEF NewArena, IsArena, Chunks, Free, FREE, INUSE
<1> HIDE DEF h
<1>2. IsTiling(lo, hi, Chunks(h), h.size, h.use, h.psize, h.puse)
  BY <1>1 DEF IsTiling
<1>3. IsList(Free(h), h.prev, h.next, h.head)
  <2>1. Rooted({lo}, h.prev)
    <3> SUFFICES ASSUME NEW S \in SUBSET {lo}, S # {}
                 PROVE  \E c \in S : h.prev[c] \notin S
      BY DEF Rooted
    <3>1. lo \in S
      OBVIOUS
    <3>2. h.prev[lo] = Null
      BY <1>1
    <3>3. \A x \in S : x = lo
      OBVIOUS
    <3> QED
      BY <3>1, <3>2, <3>3 DEF Null
  <2> QED
    BY <1>1, <2>1 DEF IsList, Null
<1>4. ArenaInv(lo, hi, h)
  BY <1>1, <1>2, <1>3, InvParts
<1> QED
  BY <1>1, <1>4 DEF h

(* An arena with no chunk in use is as it was when it was added.           *)
LEMMA AllFreeIsNew ==
  ASSUME NEW lo \in Nat, NEW hi \in Nat, lo > 0, NEW h, ArenaInv(lo, hi, h),
         Chunks(h) \ Free(h) = {}
  PROVE  h = NewArena(lo, hi)
<1> DEFINE D == Chunks(h)
<1>1. /\ IsArena(h) /\ h.status = "ok"
      /\ IsTiling(lo, hi, D, h.size, h.use, h.psize, h.puse)
      /\ IsList(Free(h), h.prev, h.next, h.head)
  BY InvParts
<1>2. \A c \in D : h.use[c] = 0
  BY DEF Free, FREE
<1>3. D = {lo}
  <2> SUFFICES ASSUME NEW d \in D, d # lo PROVE FALSE
    BY <1>1 DEF IsTiling
  <2> DEFINE b == d - h.psize[d]
  <2>1. b \in D /\ b + h.size[b] = d
    BY <1>1 DEF IsTiling
  <2> HIDE DEF b
  <2>2. d \in lo..(hi - 1)
    BY <1>1 DEF IsTiling
  <2>3. h.puse[d] = h.use[b]
    <3>1. b + h.size[b] # hi
      BY <2>1, <2>2
    <3> QED
      BY <2>1, <3>1, <1>1 DEF IsTiling
  <2>4. h.puse[d] # 0
    BY <1>1, <1>2 DEF IsTiling
  <2>5. h.use[b] = 0
    BY <1>2, <2>1
  <2> QED
    BY <2>3, <2>4, <2>5
<1>4. Free(h) = {lo}
  BY <1>3 DEF Free
<1>5. /\ h.size[lo] = hi - lo /\ h.use[lo] = 0 /\ h.psize[lo] = 0 /\ h.puse[lo] = 1
  <2>1. h.size[lo] \in Nat /\ h.size[lo] >= 2
    BY <1>1, <1>3 DEF IsTiling
  <2>2. lo + h.size[lo] \notin D
    BY <1>3, <2>1
  <2>3. lo + h.size[lo] = hi
    BY <1>1, <1>3, <2>2 DEF IsTiling
  <2> QED
    BY <1>1, <1>2, <1>3, <2>1, <2>3 DEF IsTiling
<1>6. h.prev[lo] = Null /\ h.next[lo] = Null /\ h.head = lo
  <2>1. h.prev[lo] # lo
    <3>1. {lo} \in SUBSET Free(h) /\ {lo} # {}
      BY <1>4
    <3>2. \E x \in {lo} : h.prev[x] \notin {lo}
      BY <1>1, <3>1 DEF IsList, Rooted
    <3> QED
      BY <3>2
  <2>2. h.prev[lo] = Null
    BY <1>1, <1>4, <2>1 DEF IsList
  <2>3. h.next[lo] \in {lo, Null}
    BY <1>1, <1>4 DEF IsList
  <2>4. h.next[lo] # lo
    BY <1>1, <1>4, <2>1 DEF IsList
  <2> QED
    BY <1>1, <1>4, <2>2, <2>3, <2>4 DEF IsList
<1>7. /\ h.size = [c \in {lo} |-> hi - lo] /\ h.use = [c \in {lo} |-> FREE]
      /\ h.psize = [c \in {lo} |-> 0] /\ h.puse = [c \in {lo} |-> INUSE]
  BY <1>1, <1>3, <1>5 DEF IsTiling, FREE, INUSE
<1>8. h.prev = [c \in {lo} |-> Null] /\ h.next = [c \in {lo} |-> Null]
  BY <1>1, <1>4, <1>6 DEF IsList
<1> QED
  BY <1>1, <1>6, <1>7, <1>8 DEF IsArena, NewArena

(* loomHeapIterate finds nothing to panic about.                           *)
LEMMA IterateKeeps ==
  ASSUME NEW lo \in Nat, NEW hi \in Nat, lo > 0, NEW h, ArenaInv(lo, hi, h)
  PROVE  Iterate(h, lo, hi) = h
<1>1. ASSUME NEW c \in Chunks(h) PROVE ~Malformed(h, hi, c)
  <2>1. /\ h.size[c] >= MIN_ALLOC /\ h.size[c] \in Nat
        /\ EndOf(h, c) = hi \/ (EndOf(h, c) \in lo..(hi - 1) /\ Remembered(h, c))
    BY DEF ArenaInv, ArenaType, Tiled
  <2> QED
    BY <2>1 DEF Malformed, MIN_ALLOC
<1> QED
  BY <1>1 DEF Iterate

-----------------------------------------------------------------------------
(* The heap.                                                               *)

InUse(h) == Chunks(h) \ Free(h)

(* The inductive invariant, of arenas hp whose blocks lv callers hold.     *)
Good(hp, lv) ==
  /\ hp = [i \in ArenaIds |-> hp[i]]
  /\ \A i \in ArenaIds : ArenaInv(Lo(i), Hi(i), hp[i])
  /\ lv = [c \in DOMAIN lv |-> lv[c]]
  /\ DOMAIN lv = UNION {InUse(hp[i]) : i \in ArenaIds}
  /\ \A i \in ArenaIds : \A c \in InUse(hp[i]) :
       lv[c] \in Nat /\ lv[c] <= 8 * (hp[i].size[c] - 1)

HeapInv == Good(heap, live)

----------------------------------------------------------------------------
LEMMA ArenaFacts ==
  ASSUME NEW i \in ArenaIds
  PROVE  /\ Lo(i) \in Nat /\ Hi(i) \in Nat /\ Lo(i) > 0 /\ Lo(i) + 2 <= Hi(i)
         /\ \A j \in ArenaIds : i # j => Hi(i) <= Lo(j) \/ Hi(j) <= Lo(i)
<1>1. \A j \in ArenaIds : Arenas[j] \in [lo : Nat, hi : Nat]
  BY ArenasAssumption, ElementOfSeq DEF ArenaIds
<1>2. \A j \in ArenaIds : Lo(j) \in Nat /\ Hi(j) \in Nat
  BY <1>1 DEF Lo, Hi
<1> QED
  BY <1>2, ArenasAssumption DEF MIN_ALLOC

(* A chunk lies in its arena, and in no other.                             *)
LEMMA ChunkPlace ==
  ASSUME NEW hp, NEW lv, Good(hp, lv), NEW i \in ArenaIds, NEW c \in Chunks(hp[i])
  PROVE  /\ c \in Int /\ Holds(i, c)
         /\ \A j \in ArenaIds : j # i => ~Holds(j, c) /\ c \notin Chunks(hp[j])
<1>1. ArenaInv(Lo(i), Hi(i), hp[i])
  BY DEF Good
<1>2. c \in Lo(i)..(Hi(i) - 1) /\ c + 2 <= Hi(i)
  BY <1>1, ArenaFacts DEF ArenaInv, ArenaType, Tiled, EndOf, MIN_ALLOC
<1>3. \A j \in ArenaIds : Chunks(hp[j]) \subseteq Lo(j)..(Hi(j) - 1)
  BY DEF Good, ArenaInv, ArenaType
<1> QED
  BY <1>2, <1>3, ArenaFacts DEF Holds, MIN_ALLOC

(* The chunks in use of hp are so in hq, and as large.                     *)
SizesKept(hp, hq) ==
  \A j \in ArenaIds : \A x \in InUse(hp[j]) :
    x \in InUse(hq[j]) /\ hq[j].size[x] = hp[j].size[x]

(* Taking n granules at offset off of a free chunk for a block of bytes.   *)
LEMMA CarveStep ==
  ASSUME NEW hp, NEW lv, Good(hp, lv), NEW i \in ArenaIds, NEW c \in Free(hp[i]),
         NEW off \in Nat, NEW n \in Nat, n >= 2, off = 0 \/ off >= 2,
         off + n <= hp[i].size[c], NEW bytes \in Nat, bytes <= 8 * (n - 1)
  PROVE  LET hq == Carve(hp, <<i, c>>, off, n)
         IN /\ Good(hq, Put(lv, c + off, bytes))
            /\ c + off \notin DOMAIN lv
            /\ c + off \in InUse(hq[i]) /\ hq[i].size[c + off] \in {n, n + 1}
            /\ SizesKept(hp, hq)
<1> DEFINE new == c + off
           g == Split(hp[i], Hi(i), c, off, n)
           hq == Carve(hp, <<i, c>>, off, n)
           lw == Put(lv, new, bytes)
<1>1. /\ hq = [j \in ArenaIds |-> IF j = i THEN g ELSE hp[j]]
  BY DEF Carve, Good
<1> HIDE DEF hq
<1>2. /\ ArenaInv(Lo(i), Hi(i), g) /\ new \notin InUse(hp[i])
      /\ InUse(g) = InUse(hp[i]) \cup {new} /\ g.size[new] \in {n, n + 1}
      /\ \A x \in InUse(hp[i]) : g.size[x] = hp[i].size[x]
  BY ArenaFacts, SplitKeeps DEF Good, InUse
<1> HIDE DEF g
<1>3. hq[i] = g /\ \A j \in ArenaIds : j # i => hq[j] = hp[j]
  BY <1>1
<1>4. Holds(i, new)
  <2>1. new \in Chunks(g) /\ new + 2 <= EndOf(g, new)
    BY <1>2 DEF InUse, ArenaInv, ArenaType, Tiled, EndOf, MIN_ALLOC
  <2> QED
    BY <2>1, <1>2, ArenaFacts DEF ArenaInv, ArenaType, Tiled, EndOf, Holds, MIN_ALLOC
<1>5. \A j \in ArenaIds : new \notin InUse(hp[j])
  BY <1>2, <1>4, ChunkPlace DEF InUse
<1>6. DOMAIN lw = DOMAIN lv \cup {new} /\ lw = [x \in DOMAIN lw |-> lw[x]]
      /\ lw[new] = bytes /\ \A x \in DOMAIN lv : x # new => lw[x] = lv[x]
  BY DEF Put
<1> HIDE DEF lw
<1>7. DOMAIN lw = UNION {InUse(hq[j]) : j \in ArenaIds}
  BY <1>2, <1>3, <1>6 DEF Good
<1>8. ASSUME NEW j \in ArenaIds, NEW x \in InUse(hq[j])
      PROVE  lw[x] \in Nat /\ lw[x] <= 8 * (hq[j].size[x] - 1)
  <2>1. CASE x = new
    <3>1. j = i
      BY <2>1, <1>3, <1>5, <1>8
    <3> QED
      BY <2>1, <3>1, <1>2, <1>3, <1>6
  <2>2. CASE x # new
    <3>1. x \in InUse(hp[j]) /\ hq[j].size[x] = hp[j].size[x]
      BY <2>2, <1>2, <1>3, <1>8
    <3>2. x \in DOMAIN lv
      BY <3>1 DEF Good
    <3> QED
      BY <2>2, <3>1, <3>2, <1>6 DEF Good
  <2> QED
    BY <2>1, <2>2
<1>9. \A j \in ArenaIds : ArenaInv(Lo(j), Hi(j), hq[j])
  BY <1>2, <1>3 DEF Good
<1>10. hq = [j \in ArenaIds |-> hq[j]]
  BY <1>1
<1>11. Good(hq, lw)
  BY <1>6, <1>7, <1>8, <1>9, <1>10 DEF Good
<1>12. new \notin DOMAIN lv
  BY <1>5 DEF Good
<1>13. new \in InUse(hq[i]) /\ hq[i].size[new] \in {n, n + 1}
  BY <1>2, <1>3
<1>14. SizesKept(hp, hq)
  BY <1>2, <1>3 DEF SizesKept
<1> QED
  BY <1>11, <1>12, <1>13, <1>14 DEF hq, lw

(* Giving back a block that a caller holds.                                *)
LEMMA ReleaseStep ==
  ASSUME NEW hp, NEW lv, Good(hp, lv), NEW c \in DOMAIN lv
  PROVE  LET hq == Release(hp, c)
         IN /\ Good(hq, Drop(lv, c))
            /\ SizesKept(hq, hp)
<1> DEFINE hq == Release(hp, c)
           lw == Drop(lv, c)
<1>1. PICK i \in ArenaIds : c \in InUse(hp[i])
  BY DEF Good
<1> DEFINE g == FreeChunk(hp[i], Lo(i), Hi(i), c)
<1>2. Holds(i, c) /\ \A j \in ArenaIds : j # i => ~Holds(j, c) /\ c \notin Chunks(hp[j])
  BY <1>1, ChunkPlace DEF InUse
<1>3. hq = [hp EXCEPT ![i] = g]
  <2> DEFINE first == CHOOSE k \in ArenaIds :
                        Holds(k, c) /\ \A j \in 1..(k - 1) : ~Holds(j, c)
  <2>1. \A j \in 1..(i - 1) : j \in ArenaIds /\ j # i
    BY ArenasAssumption DEF ArenaIds
  <2>2. first = i
    <3>1. first \in ArenaIds /\ Holds(first, c)
      BY <1>2, <2>1
    <3> QED
      BY <3>1, <1>2
  <2> HIDE DEF first
  <2>3. hq = [hp EXCEPT ![first] = FreeChunk(hp[first], Lo(first), Hi(first), c)]
    BY <1>2 DEF Release, first
  <2> QED
    BY <2>2, <2>3
<1>4. hq = [j \in ArenaIds |-> IF j = i THEN g ELSE hp[j]]
  BY <1>3 DEF Good
<1> HIDE DEF hq
<1>5. /\ ArenaInv(Lo(i), Hi(i), g)
      /\ InUse(g) = InUse(hp[i]) \ {c}
      /\ \A x \in InUse(hp[i]) \ {c} : g.size[x] = hp[i].size[x]
  BY <1>1, ArenaFacts, FreeKeeps DEF Good, InUse
<1> HIDE DEF g
<1>6. hq[i] = g /\ \A j \in ArenaIds : j # i => hq[j] = hp[j]
  BY <1>4
<1>7. DOMAIN lw = DOMAIN lv \ {c} /\ lw = [x \in DOMAIN lw |-> lw[x]]
      /\ \A x \in DOMAIN lw : lw[x] = lv[x]
  BY DEF Drop
<1> HIDE DEF lw
<1>8. DOMAIN lw = UNION {InUse(hq[j]) : j \in ArenaIds}
  <2>1. \A j \in ArenaIds : InUse(hq[j]) = InUse(hp[j]) \ {c}
    BY <1>2, <1>5, <1>6 DEF InUse
  <2>2. DOMAIN lv = UNION {InUse(hp[j]) : j \in ArenaIds}
    BY DEF Good
  <2>3. DOMAIN lw = UNION {InUse(hp[j]) \ {c} : j \in ArenaIds}
    BY <2>2, <1>7
  <2> QED
    BY <2>1, <2>3
<1>9. ASSUME NEW j \in ArenaIds, NEW x \in InUse(hq[j])
      PROVE  lw[x] \in Nat /\ lw[x] <= 8 * (hq[j].size[x] - 1)
  <2>1. x \in InUse(hp[j]) /\ hq[j].size[x] = hp[j].size[x]
    BY <1>5, <1>6, <1>9
  <2>2. x \in DOMAIN lw
    BY <1>8, <1>9
  <2> QED
    BY <2>1, <2>2, <1>7 DEF Good
<1>10. \A j \in ArenaIds : ArenaInv(Lo(j), Hi(j), hq[j])
  BY <1>5, <1>6 DEF Good
<1>11. hq = [j \in ArenaIds |-> hq[j]]
  BY <1>4
<1>12. SizesKept(hq, hp)
  BY <1>5, <1>6 DEF SizesKept
<1>13. Good(hq, lw)
  BY <1>7, <1>8, <1>9, <1>10, <1>11 DEF Good
<1> QED
  BY <1>12, <1>13 DEF hq, lw
----------------------------------------------------------------------------
(* What callers see of arenas hp whose blocks lv they hold.                *)
OwnedOf(hp, lv) ==
  [p \in {c + CHUNK_SIZE : c \in DOMAIN lv} |->
     LET c == p - CHUNK_SIZE
         i == CHOOSE i \in ArenaIds : c \in Chunks(hp[i])
     IN [bytes |-> lv[c], length |-> hp[i].size[c] - CHUNK_SIZE]]

Sees(hp, lv, ow) ==
  /\ DOMAIN ow = {c + 1 : c \in DOMAIN lv} /\ ow = [q \in DOMAIN ow |-> ow[q]]
  /\ \A i \in ArenaIds : \A c \in InUse(hp[i]) :
       c \in Int /\ ow[c + 1] = [bytes |-> lv[c], length |-> hp[i].size[c] - 1]
  /\ \A q \in DOMAIN ow : \E i \in ArenaIds : \E c \in InUse(hp[i]) : q = c + 1

LEMMA OwnedAt ==
  ASSUME NEW hp, NEW lv, Good(hp, lv)
  PROVE  Sees(hp, lv, OwnedOf(hp, lv))
<1>1. DOMAIN OwnedOf(hp, lv) = {c + 1 : c \in DOMAIN lv}
      /\ OwnedOf(hp, lv) = [q \in DOMAIN OwnedOf(hp, lv) |-> OwnedOf(hp, lv)[q]]
  BY DEF OwnedOf, CHUNK_SIZE
<1>2. ASSUME NEW i \in ArenaIds, NEW c \in InUse(hp[i])
      PROVE  /\ c \in Int /\ c \in DOMAIN lv
             /\ OwnedOf(hp, lv)[c + 1] = [bytes |-> lv[c], length |-> hp[i].size[c] - 1]
  <2>1. c \in Chunks(hp[i]) /\ c \in DOMAIN lv
    BY DEF InUse, Good
  <2>2. c \in Int /\ \A j \in ArenaIds : j # i => c \notin Chunks(hp[j])
    BY <2>1, ChunkPlace
  <2>3. (CHOOSE j \in ArenaIds : c \in Chunks(hp[j])) = i
    BY <2>1, <2>2
  <2>4. (c + 1) - 1 = c
    BY <2>2
  <2> QED
    BY <2>1, <2>2, <2>3, <2>4 DEF OwnedOf, CHUNK_SIZE
<1>3. \A c \in DOMAIN lv : \E i \in ArenaIds : c \in InUse(hp[i])
  BY DEF Good
<1> QED
  BY <1>1, <1>2, <1>3 DEF Sees

(* Carving grants a block that no caller has any part of.                  *)
Granted(ow, p, n, len) ==
  [q \in DOMAIN ow \cup {p} |-> IF q = p THEN [bytes |-> n, length |-> len] ELSE ow[q]]

Memories == UNION {Lo(i)..(Hi(i) - 1) : i \in ArenaIds}

LEMMA CarveOwned ==
  ASSUME NEW hp, NEW lv, Good(hp, lv), NEW i \in ArenaIds, NEW c \in Free(hp[i]),
         NEW off \in Nat, NEW n \in Nat, n >= 2, off = 0 \/ off >= 2,
         off + n <= hp[i].size[c], NEW bytes \in Nat, bytes <= 8 * (n - 1)
  PROVE  LET hq == Carve(hp, <<i, c>>, off, n)
             ow == OwnedOf(hp, lv)
             p  == c + off + 1
             len == hq[i].size[c + off] - 1
         IN /\ OwnedOf(hq, Put(lv, c + off, bytes)) = Granted(ow, p, bytes, len)
            /\ len \in {n - 1, n} /\ p \in Memories
            /\ p..(p + len - 1) \subseteq Memories
            /\ \A q \in DOMAIN ow :
                 (p..(p + len - 1)) \cap (q..(q + ow[q].length - 1)) = {}
<1> DEFINE new == c + off
           hq == Carve(hp, <<i, c>>, off, n)
           lw == Put(lv, new, bytes)
           ow == OwnedOf(hp, lv)
           oq == OwnedOf(hq, lw)
           p == c + off + 1
           len == hq[i].size[new] - 1
<1>1. /\ Good(hq, lw) /\ new \notin DOMAIN lv
      /\ new \in InUse(hq[i]) /\ hq[i].size[new] \in {n, n + 1}
      /\ SizesKept(hp, hq)
  <2>1. Good(hq, lw) /\ new \notin DOMAIN lv
    BY CarveStep
  <2>2. new \in InUse(hq[i]) /\ hq[i].size[new] \in {n, n + 1}
    BY CarveStep
  <2>3. SizesKept(hp, hq)
    BY CarveStep
  <2> QED
    BY <2>1, <2>2, <2>3
<1> HIDE DEF hq
<1>a. Sees(hp, lv, ow)
  BY OwnedAt
<1>b. Sees(hq, lw, oq)
  BY <1>1, OwnedAt
<1> HIDE DEF ow, oq
<1>2. DOMAIN lw = DOMAIN lv \cup {new} /\ lw[new] = bytes
      /\ \A x \in DOMAIN lv : x # new => lw[x] = lv[x]
  BY DEF Put
<1>3. new \in Int /\ p = new + 1 /\ len \in {n - 1, n}
  <2>1. c \in Int
    BY ChunkPlace DEF Free
  <2> QED
    BY <1>1, <2>1
<1> HIDE DEF lw, new, p, len
<1>4. oq = Granted(ow, p, bytes, len)
  <2>1. DOMAIN oq = DOMAIN ow \cup {p}
    BY <1>a, <1>b, <1>2, <1>3 DEF Sees
  <2>2. oq = [q \in DOMAIN oq |-> oq[q]]
    BY <1>b DEF Sees
  <2>3. oq[p] = [bytes |-> bytes, length |-> len]
    BY <1>b, <1>1, <1>2, <1>3 DEF len, Sees
  <2>4. ASSUME NEW q \in DOMAIN ow PROVE oq[q] = ow[q] /\ q # p
    <3>1. PICK j \in ArenaIds : \E x \in InUse(hp[j]) : q = x + 1
      BY <1>a DEF Sees
    <3>2. PICK x \in InUse(hp[j]) : q = x + 1
      BY <3>1
    <3>3. x \in DOMAIN lv
      BY DEF Good
    <3>4. x \in Int /\ x # new /\ lw[x] = lv[x]
      BY <3>3, <1>1, <1>2, <1>a DEF Sees
    <3>5. ow[q] = [bytes |-> lv[x], length |-> hp[j].size[x] - 1]
      BY <3>2, <1>a DEF Sees
    <3>6. oq[q] = [bytes |-> lw[x], length |-> hq[j].size[x] - 1]
      BY <1>1, <1>b, <3>2 DEF Sees, SizesKept
    <3>7. hq[j].size[x] = hp[j].size[x]
      BY <1>1 DEF SizesKept
    <3> QED
      BY <3>2, <3>4, <3>5, <3>6, <3>7, <1>3
  <2> QED
    BY <2>1, <2>2, <2>3, <2>4 DEF Granted
<1>5. \A j \in ArenaIds : /\ Lo(j) \in Nat /\ Hi(j) \in Nat
                          /\ ArenaInv(Lo(j), Hi(j), hq[j])
  BY <1>1, ArenaFacts DEF Good
<1>6. \A j \in ArenaIds : \A x \in InUse(hq[j]) :
        /\ x \in Int /\ hq[j].size[x] \in Nat
        /\ Lo(j) <= x /\ x + hq[j].size[x] <= Hi(j)
  <2> SUFFICES ASSUME NEW j \in ArenaIds, NEW x \in InUse(hq[j])
               PROVE  /\ x \in Int /\ hq[j].size[x] \in Nat
                      /\ Lo(j) <= x /\ x + hq[j].size[x] <= Hi(j)
    OBVIOUS
  <2> DEFINE h == hq[j]
  <2>1. x \in Chunks(h) /\ ArenaType(Lo(j), Hi(j), h) /\ Tiled(Lo(j), Hi(j), h)
    BY <1>5 DEF InUse, ArenaInv
  <2>2. Lo(j) \in Nat /\ Hi(j) \in Nat
    BY <1>5
  <2> HIDE DEF h
  <2>3. x \in Lo(j)..(Hi(j) - 1) /\ h.size[x] \in Nat
    BY <2>1 DEF ArenaType
  <2>4. EndOf(h, x) = Hi(j) \/ EndOf(h, x) \in Lo(j)..(Hi(j) - 1)
    BY <2>1 DEF Tiled, ArenaType
  <2> QED
    BY <2>2, <2>3, <2>4 DEF EndOf, h
<1>7. p \in Memories /\ p..(p + len - 1) \subseteq Memories
  <2>1. /\ new \in Int /\ hq[i].size[new] \in Nat /\ len \in Nat /\ len >= 1
        /\ Lo(i) <= new /\ new + hq[i].size[new] <= Hi(i)
    BY <1>1, <1>3, <1>6 DEF len
  <2>2. p..(p + len - 1) \subseteq Lo(i)..(Hi(i) - 1)
    <3>1. p \in Int /\ len \in Int /\ Lo(i) <= p /\ p + len <= Hi(i)
      <4>1. len = hq[i].size[new] - 1
        BY DEF len
      <4> QED
        BY <2>1, <1>3, <1>5, <4>1
    <3> QED
      BY <3>1, <1>5
  <2>3. p \in p..(p + len - 1)
    BY <2>1, <1>3
  <2> QED
    BY <2>2, <2>3 DEF Memories
<1>8. ASSUME NEW q \in DOMAIN ow
      PROVE  (p..(p + len - 1)) \cap (q..(q + ow[q].length - 1)) = {}
  <2>1. PICK j \in ArenaIds : \E x \in InUse(hp[j]) : q = x + 1
    BY <1>a DEF Sees
  <2>2. PICK x \in InUse(hp[j]) : q = x + 1
    BY <2>1
  <2>3. x \in Int /\ x # new
    <3>1. x \in DOMAIN lv
      BY DEF Good
    <3> QED
      BY <3>1, <1>1, <1>a DEF Sees
  <2>4. ow[q].length = hq[j].size[x] - 1
    <3>1. ow[q] = [bytes |-> lv[x], length |-> hp[j].size[x] - 1]
      BY <2>2, <1>a DEF Sees
    <3> QED
      BY <3>1, <1>1 DEF SizesKept
  <2>5. x \in InUse(hq[j])
    BY <1>1 DEF SizesKept
  <2>6. \/ x + hq[j].size[x] <= new
        \/ new + hq[i].size[new] <= x
    <3>1. CASE j = i
      <4>1. x \in Chunks(hq[i]) /\ new \in Chunks(hq[i])
        BY <3>1, <2>5, <1>1 DEF InUse
      <4>2. \A d, e \in Chunks(hq[i]) : d < e => EndOf(hq[i], d) <= e
        BY <1>5 DEF ArenaInv, Tiled
      <4> QED
        BY <3>1, <4>1, <4>2, <2>3, <1>3 DEF EndOf
    <3>2. CASE j # i
      <4>1. Hi(i) <= Lo(j) \/ Hi(j) <= Lo(i)
        BY <3>2, ArenaFacts
      <4>2. /\ Lo(j) <= x /\ x + hq[j].size[x] <= Hi(j) /\ hq[j].size[x] \in Nat
            /\ Lo(i) <= new /\ new + hq[i].size[new] <= Hi(i) /\ hq[i].size[new] \in Nat
        BY <1>1, <1>6, <2>5
      <4> QED
        BY <4>1, <4>2, <1>3, <1>5, <2>3
    <3> QED
      BY <3>1, <3>2
  <2>7. hq[j].size[x] \in Nat /\ hq[i].size[new] \in Nat
    BY <1>1, <1>6, <2>5
  <2> QED
    BY <2>2, <2>3, <2>4, <2>6, <2>7, <1>3 DEF len
<1> QED
  BY <1>3, <1>4, <1>7, <1>8 DEF hq, lw, new, p, ow, oq, len

(* Releasing takes one block from what callers see.                        *)
Without(ow, old) == [q \in DOMAIN ow \ {old} |-> ow[q]]

LEMMA ReleaseOwned ==
  ASSUME NEW hp, NEW lv, Good(hp, lv), NEW c \in DOMAIN lv
  PROVE  /\ OwnedOf(Release(hp, c), Drop(lv, c)) = Without(OwnedOf(hp, lv), c + 1)
         /\ c + 1 \in DOMAIN OwnedOf(hp, lv)
<1> DEFINE hq == Release(hp, c)
           lw == Drop(lv, c)
           ow == OwnedOf(hp, lv)
           oq == OwnedOf(hq, lw)
<1>1. Good(hq, lw) /\ SizesKept(hq, hp)
  BY ReleaseStep
<1> HIDE DEF hq
<1>2. DOMAIN lw = DOMAIN lv \ {c} /\ \A x \in DOMAIN lw : lw[x] = lv[x]
  BY DEF Drop
<1> HIDE DEF lw
<1>a. Sees(hp, lv, ow)
  BY OwnedAt
<1>b. Sees(hq, lw, oq)
  BY <1>1, OwnedAt
<1> HIDE DEF ow, oq
<1>3. \A x \in DOMAIN lv : x \in Int
  <2>1. DOMAIN lv = UNION {InUse(hp[j]) : j \in ArenaIds}
    BY DEF Good
  <2> QED
    BY <2>1, <1>a DEF Sees
<1>4. DOMAIN oq = DOMAIN ow \ {c + 1}
  <2>1. DOMAIN oq = {x + 1 : x \in DOMAIN lv \ {c}} /\ DOMAIN ow = {x + 1 : x \in DOMAIN lv}
    BY <1>2, <1>a, <1>b DEF Sees
  <2>2. \A x, y \in DOMAIN lv : x + 1 = y + 1 => x = y
    BY <1>3
  <2> QED
    BY <2>1, <2>2
<1>5. oq = [q \in DOMAIN oq |-> oq[q]]
  BY <1>b DEF Sees
<1>6. ASSUME NEW q \in DOMAIN oq PROVE oq[q] = ow[q]
  <2>1. PICK j \in ArenaIds : \E x \in InUse(hq[j]) : q = x + 1
    BY <1>b DEF Sees
  <2>2. PICK x \in InUse(hq[j]) : q = x + 1
    BY <2>1
  <2>3. x \in InUse(hp[j]) /\ hq[j].size[x] = hp[j].size[x]
    BY <1>1 DEF SizesKept
  <2>4. x \in DOMAIN lw
    BY <1>1 DEF Good
  <2>5. oq[q] = [bytes |-> lw[x], length |-> hq[j].size[x] - 1]
    BY <1>b, <2>2 DEF Sees
  <2>6. ow[q] = [bytes |-> lv[x], length |-> hp[j].size[x] - 1]
    BY <2>2, <2>3, <1>a DEF Sees
  <2> QED
    BY <2>3, <2>4, <2>5, <2>6, <1>2
<1>7. c + 1 \in DOMAIN ow
  BY <1>a DEF Sees
<1>8. oq = Without(ow, c + 1)
  BY <1>4, <1>5, <1>6 DEF Without
<1> QED
  BY <1>7, <1>8 DEF oq, ow, hq, lw
----------------------------------------------------------------------------
(* What the searches find: a free chunk and a place in it.                 *)
LEMMA FreeListed ==
  ASSUME NEW hp, NEW lv, Good(hp, lv), NEW i \in ArenaIds
  PROVE  /\ DOMAIN hp[i].next = Free(hp[i])
         /\ \A c \in Free(hp[i]) : c \in Int /\ hp[i].use[c] # INUSE /\ hp[i].size[c] \in Nat
<1> DEFINE h == hp[i]
<1>1. ArenaType(Lo(i), Hi(i), h)
  BY DEF Good, ArenaInv
<1>2. Lo(i) \in Nat /\ Hi(i) \in Nat
  BY ArenaFacts
<1> HIDE DEF h
<1>3. /\ DOMAIN h.next = Free(h) /\ Chunks(h) \subseteq Int
      /\ \A c \in Chunks(h) : h.size[c] \in Nat
  BY <1>1, <1>2 DEF ArenaType
<1>4. \A c \in Free(h) : c \in Chunks(h) /\ h.use[c] # INUSE
  BY DEF Free, FREE, INUSE
<1> QED
  BY <1>3, <1>4 DEF h

LEMMA AllocFits ==
  ASSUME NEW hp, NEW lv, Good(hp, lv), NEW n \in Nat, NEW p \in AllocFit(hp, n)
  PROVE  /\ p = <<p[1], p[2]>> /\ p[1] \in ArenaIds /\ p[2] \in Free(hp[p[1]])
         /\ hp[p[1]].size[p[2]] >= n
<1>1. /\ p = <<p[1], p[2]>> /\ p[1] \in ArenaIds /\ p[2] \in DOMAIN hp[p[1]].next
      /\ hp[p[1]].use[p[2]] = INUSE \/ hp[p[1]].size[p[2]] >= n
  BY DEF AllocFit, FirstFit, FirstListed
<1> QED
  BY <1>1, FreeListed

LEMMA AlignFits ==
  ASSUME NEW hp, NEW lv, Good(hp, lv), NEW r, NEW p \in AlignFit(hp, r),
         NEW off \in AlignOffsets(hp[p[1]], p[2], r), Units(r.size) \in Nat
  PROVE  /\ p = <<p[1], p[2]>> /\ p[1] \in ArenaIds /\ p[2] \in Free(hp[p[1]])
         /\ off \in Nat /\ (off = 0 \/ off >= 2)
         /\ off + Units(r.size) <= hp[p[1]].size[p[2]]
<1> DEFINE h == hp[p[1]]
           c == p[2]
<1>1. p = <<p[1], c>> /\ p[1] \in ArenaIds /\ c \in DOMAIN h.next
  BY DEF AlignFit, FirstFit, FirstListed
<1>2. c \in Free(h) /\ c \in Int /\ h.use[c] # INUSE /\ h.size[c] \in Nat
  BY <1>1, FreeListed
<1>3. PICK s \in AlignedStarts(h, c, r) : off = s - c - CHUNK_SIZE
  BY <1>2 DEF AlignOffsets
<1>4. s \in c..EndOf(h, c) /\ s > c /\ s # c + 1 + CHUNK_SIZE
      /\ s + Units(r.size) <= EndOf(h, c)
  BY <1>3 DEF AlignedStarts
<1> QED
  BY <1>1, <1>2, <1>3, <1>4 DEF EndOf, CHUNK_SIZE

LEMMA RoundDown ==
  ASSUME NEW x \in Int, NEW al \in Nat, al > 0
  PROVE  /\ (x \div al) * al \in Int /\ (x \div al) * al <= x
         /\ ((x \div al) * al) % al = 0
<1>1. (x \div al) * al \in Int /\ (x \div al) * al <= x
  OBVIOUS
<1>2. \A q \in Int : (q * al) % al = 0
  OBVIOUS
<1> QED
  BY <1>1, <1>2

(* The address the low search takes: aligned, and inside the range when    *)
(* the lower bound, rounded up, does not wrap.                             *)
LEMMA AlignPlaces ==
  ASSUME NEW hp, NEW lv, Good(hp, lv), NEW r \in AlignRequests,
         r.min <= AlignUp(r.min, AlignUnits(r)),
         NEW p \in AlignFit(hp, r), NEW off \in AlignOffsets(hp[p[1]], p[2], r)
  PROVE  LET s == p[2] + off + CHUNK_SIZE
         IN /\ s % AlignUnits(r) = 0 /\ r.min <= s
            /\ s + Rounded(r.size) <= r.max
<1> DEFINE h == hp[p[1]]
           c == p[2]
<1>1. p[1] \in ArenaIds /\ c \in DOMAIN h.next
  BY DEF AlignFit, FirstFit, FirstListed
<1>2. c \in Int /\ h.use[c] # INUSE /\ h.size[c] \in Nat
  BY <1>1, FreeListed
<1>3. PICK s \in AlignedStarts(h, c, r) : off = s - c - CHUNK_SIZE
  BY <1>2 DEF AlignOffsets
<1>4. /\ r.size \in Nat /\ r.align \in Nat /\ r.min \in Nat /\ r.max \in Nat
  BY RequestsAssumption
<1>5. /\ s \in Int /\ s % AlignUnits(r) = 0 /\ s > c
      /\ s >= AlignUp(IF c < r.min THEN r.min ELSE c, AlignUnits(r))
      /\ s + Units(r.size) <= r.max
  BY <1>2, <1>3 DEF AlignedStarts, EndOf
<1>6. AlignUp(r.min, AlignUnits(r)) \in Int
  <2>1. AlignUnits(r) \in Nat /\ AlignUnits(r) > 0
    BY <1>4 DEF AlignUnits
  <2>2. AddrSpace \in Nat /\ AddrSpace > 0
    BY <1>4, RequestsAssumption, ArenasAssumption
  <2> DEFINE al == AlignUnits(r)
             q == (r.min + al - 1) \div al
  <2> HIDE DEF al
  <2>3. q \in Int
    BY <2>1, <1>4 DEF al
  <2> HIDE DEF q
  <2>4. q * al \in Int
    BY <2>1, <2>3 DEF al
  <2>5. (q * al) % AddrSpace \in Int
    BY <2>2, <2>4
  <2> QED
    BY <2>5 DEF AlignUp, al, q
<1>7. r.min <= s
  <2>1. CASE c < r.min
    BY <2>1, <1>4, <1>5, <1>6
  <2>2. CASE ~(c < r.min)
    BY <2>2, <1>2, <1>4, <1>5
  <2> QED
    BY <2>1, <2>2
<1>8. s + Rounded(r.size) <= r.max
  BY <1>4, <1>5 DEF Units, Rounded, CHUNK_SIZE
<1>9. c + off + CHUNK_SIZE = s
  BY <1>2, <1>3, <1>5 DEF CHUNK_SIZE
<1> QED
  BY <1>5, <1>7, <1>8, <1>9

(* The address the high search takes.                                      *)
LEMMA HighPlaces ==
  ASSUME NEW hp, NEW lv, Good(hp, lv), NEW r \in AlignRequests, NEW p \in HighFit(hp, r)
  PROVE  LET s == HighStart(hp[p[1]], p[2], r) + CHUNK_SIZE
         IN /\ s % AlignUnits(r) = 0 /\ r.min <= s
            /\ s + Rounded(r.size) <= r.max
<1> DEFINE h == hp[p[1]]
           c == p[2]
           at == HighStart(h, c, r)
           top == IF EndOf(h, c) > r.max THEN r.max ELSE EndOf(h, c)
           al == AlignUnits(r)
           x == top - Rounded(r.size)
           y == (x \div al) * al
<1>1. /\ p[1] \in ArenaIds /\ c \in DOMAIN h.next
      /\ at >= (IF c < r.min THEN r.min ELSE c)
  BY DEF HighFit, HighCandidates
<1>2. c \in Int /\ h.size[c] \in Nat
  BY <1>1, FreeListed
<1>3. /\ r.size \in Nat /\ r.align \in Nat /\ r.min \in Nat /\ r.max \in Nat
  BY RequestsAssumption
<1>4. al \in Nat /\ al > 0
  BY <1>3 DEF AlignUnits
<1>5. x \in Int /\ top \in Int /\ top <= r.max /\ Rounded(r.size) \in Int
  BY <1>2, <1>3 DEF EndOf, Rounded
<1>6. at = y - 1
  BY DEF HighStart, CHUNK_SIZE
<1>7. y \in Int /\ y <= x /\ y % al = 0
  <2> HIDE DEF x, al
  <2> QED
    BY <1>4, <1>5, RoundDown
<1> HIDE DEF at, y
<1>8. at + CHUNK_SIZE = y
  BY <1>6, <1>7 DEF CHUNK_SIZE
<1>9. r.min <= y
  BY <1>1, <1>2, <1>3, <1>6, <1>7
<1>10. y + Rounded(r.size) <= r.max
  <2>1. x = top - Rounded(r.size)
    OBVIOUS
  <2> HIDE DEF x, top
  <2> QED
    BY <2>1, <1>3, <1>5, <1>7
<1> QED
  BY <1>7, <1>8, <1>9, <1>10 DEF at

LEMMA HighFits ==
  ASSUME NEW hp, NEW lv, Good(hp, lv), NEW r \in AlignRequests, NEW p \in HighFit(hp, r)
  PROVE  LET off == HighStart(hp[p[1]], p[2], r) - p[2]
         IN /\ p = <<p[1], p[2]>> /\ p[1] \in ArenaIds /\ p[2] \in Free(hp[p[1]])
            /\ off \in Nat /\ (off = 0 \/ off >= 2)
            /\ off + Units(r.size) <= hp[p[1]].size[p[2]]
<1> DEFINE h == hp[p[1]]
           c == p[2]
           at == HighStart(h, c, r)
           top == IF EndOf(h, c) > r.max THEN r.max ELSE EndOf(h, c)
           al == AlignUnits(r)
           x == top - Rounded(r.size)
<1>1. /\ p = <<p[1], c>> /\ p[1] \in ArenaIds /\ c \in DOMAIN h.next
      /\ at >= (IF c < r.min THEN r.min ELSE c) /\ at # c + CHUNK_SIZE
  BY DEF HighFit, HighCandidates
<1>2. c \in Free(h) /\ c \in Int /\ h.size[c] \in Nat
  BY <1>1, FreeListed
<1>3. /\ r.size \in Nat /\ r.align \in Nat /\ r.min \in Nat /\ r.max \in Nat
  BY RequestsAssumption
<1>4. al \in Nat /\ al > 0
  BY <1>3 DEF AlignUnits
<1>5. x \in Int /\ top \in Int /\ top <= EndOf(h, c) /\ Rounded(r.size) \in Int
  BY <1>2, <1>3 DEF EndOf, Rounded
<1>6. at = (x \div al) * al - 1
  BY DEF HighStart, CHUNK_SIZE
<1> HIDE DEF at, top, x, al
<1>7. at \in Int /\ at <= x - 1
  BY <1>4, <1>5, <1>6, RoundDown
<1>8. at + Units(r.size) <= EndOf(h, c)
  <2>1. EndOf(h, c) \in Int /\ x = top - Rounded(r.size)
    BY <1>2 DEF EndOf, x, top
  <2>2. Units(r.size) = Rounded(r.size) + 1
    BY DEF Units, CHUNK_SIZE
  <2> QED
    BY <2>1, <2>2, <1>5, <1>7
<1>9. at >= c
  BY <1>1, <1>2, <1>3, <1>7
<1> QED
  BY <1>1, <1>2, <1>5, <1>7, <1>8, <1>9 DEF at, EndOf, Units, CHUNK_SIZE
----------------------------------------------------------------------------
(* The calls.                                                              *)
LEMMA RoomFor ==
  ASSUME NEW n \in Nat, n > 0
  PROVE  /\ Units(n) \in Nat /\ Units(n) >= 2 /\ n <= 8 * (Units(n) - 1)
         /\ Rounded(n) = Units(n) - 1
  BY DEF Units, Rounded, CHUNK_SIZE

(* From ow to oq a caller is granted a block for n bytes, or exchanges one *)
(* for it.                                                                 *)
Apart(ow, p, len) ==
  /\ p..(p + len - 1) \subseteq Memories
  /\ \A q \in DOMAIN ow : (p..(p + len - 1)) \cap (q..(q + ow[q].length - 1)) = {}

GrantStep(ow, oq, n) ==
  \E p \in Memories, len \in {Rounded(n), Rounded(n) + 1} :
    Apart(ow, p, len) /\ oq = Granted(ow, p, n, len)

ExchangeStep(ow, oq, n) ==
  \E p \in Memories, len \in {Rounded(n), Rounded(n) + 1}, old \in DOMAIN ow :
    Apart(ow, p, len) /\ oq = Without(Granted(ow, p, n, len), old)

LEMMA OwnedIs == Owned = OwnedOf(heap, live) /\ Owned' = OwnedOf(heap', live')
  BY DEF Owned, OwnedOf, ArenaOf

LEMMA CarveGrants ==
  ASSUME NEW hp, NEW lv, Good(hp, lv), NEW i \in ArenaIds, NEW c \in Free(hp[i]),
         NEW off \in Nat, off = 0 \/ off >= 2, NEW bytes \in Nat, bytes > 0,
         off + Units(bytes) <= hp[i].size[c]
  PROVE  LET hq == Carve(hp, <<i, c>>, off, Units(bytes))
             lw == Put(lv, c + off, bytes)
         IN /\ Good(hq, lw) /\ c + off \notin DOMAIN lv
            /\ GrantStep(OwnedOf(hp, lv), OwnedOf(hq, lw), bytes)
<1> DEFINE n == Units(bytes)
           hq == Carve(hp, <<i, c>>, off, n)
           lw == Put(lv, c + off, bytes)
           ow == OwnedOf(hp, lv)
           oq == OwnedOf(hq, lw)
           p  == c + off + 1
           len == hq[i].size[c + off] - 1
<1>1. n \in Nat /\ n >= 2 /\ bytes <= 8 * (n - 1) /\ Rounded(bytes) = n - 1
  BY RoomFor
<1>2. Good(hq, lw) /\ c + off \notin DOMAIN lv
  <2> HIDE DEF n
  <2> QED
    BY <1>1, CarveStep DEF n
<1>3. /\ oq = Granted(ow, p, bytes, len)
      /\ len \in {n - 1, n} /\ p \in Memories
      /\ p..(p + len - 1) \subseteq Memories
      /\ \A q \in DOMAIN ow : (p..(p + len - 1)) \cap (q..(q + ow[q].length - 1)) = {}
  <2> HIDE DEF n
  <2> QED
    BY <1>1, CarveOwned DEF n
<1> HIDE DEF ow, oq, p, len, n
<1>4. Apart(ow, p, len)
  BY <1>3 DEF Apart
<1>5. len \in {Rounded(bytes), Rounded(bytes) + 1}
  BY <1>1, <1>3
<1>6. GrantStep(ow, oq, bytes)
  BY <1>3, <1>4, <1>5 DEF GrantStep
<1> QED
  BY <1>2, <1>6 DEF ow, oq, n

LEMMA AllocStep ==
  ASSUME NEW n \in Nat, n > 0, HeapInv, LoomAlloc(n)
  PROVE  HeapInv' /\ GrantStep(Owned, Owned', n)
<1>1. PICK p \in AllocFit(heap, Units(n)) :
        /\ heap' = Carve(heap, p, 0, Units(n))
        /\ live' = Put(live, p[2], n)
  BY DEF LoomAlloc
<1>2. /\ p = <<p[1], p[2]>> /\ p[1] \in ArenaIds /\ p[2] \in Free(heap[p[1]])
      /\ heap[p[1]].size[p[2]] >= Units(n) /\ heap[p[1]].size[p[2]] \in Nat /\ p[2] \in Int
  BY RoomFor, AllocFits, FreeListed DEF HeapInv
<1>3. p[2] + 0 = p[2] /\ 0 + Units(n) <= heap[p[1]].size[p[2]]
  BY <1>2, RoomFor
<1>4. LET hq == Carve(heap, <<p[1], p[2]>>, 0, Units(n))
          lw == Put(live, p[2] + 0, n)
      IN Good(hq, lw) /\ GrantStep(OwnedOf(heap, live), OwnedOf(hq, lw), n)
  BY <1>2, <1>3, CarveGrants DEF HeapInv
<1> QED
  BY <1>1, <1>2, <1>3, <1>4, OwnedIs DEF HeapInv

LEMMA ReallocStep ==
  ASSUME NEW n \in Nat, n > 0, NEW c \in DOMAIN live, HeapInv, LoomRealloc(c, n)
  PROVE  HeapInv' /\ ExchangeStep(Owned, Owned', n)
<1>1. PICK p \in AllocFit(heap, Units(n)) :
        /\ heap' = Release(Carve(heap, p, 0, Units(n)), c)
        /\ live' = Put(Drop(live, c), p[2], n)
  BY DEF LoomRealloc
<1>2. /\ p = <<p[1], p[2]>> /\ p[1] \in ArenaIds /\ p[2] \in Free(heap[p[1]])
      /\ heap[p[1]].size[p[2]] >= Units(n) /\ heap[p[1]].size[p[2]] \in Nat /\ p[2] \in Int
  BY RoomFor, AllocFits, FreeListed DEF HeapInv
<1>3. p[2] + 0 = p[2] /\ 0 + Units(n) <= heap[p[1]].size[p[2]]
  BY <1>2, RoomFor
<1> DEFINE hq == Carve(heap, p, 0, Units(n))
           lw == Put(live, p[2], n)
<1>4. LET hx == Carve(heap, <<p[1], p[2]>>, 0, Units(n))
          lx == Put(live, p[2] + 0, n)
      IN /\ Good(hx, lx) /\ p[2] + 0 \notin DOMAIN live
         /\ GrantStep(OwnedOf(heap, live), OwnedOf(hx, lx), n)
  BY <1>2, <1>3, CarveGrants DEF HeapInv
<1>5. /\ Good(hq, lw) /\ p[2] \notin DOMAIN live
      /\ GrantStep(OwnedOf(heap, live), OwnedOf(hq, lw), n)
  BY <1>2, <1>3, <1>4
<1>6. c \in DOMAIN lw
  BY DEF Put
<1>7. Drop(lw, c) = live'
  BY <1>1, <1>5 DEF Put, Drop
<1> HIDE DEF hq, lw
<1>8. Good(heap', live')
  BY <1>1, <1>5, <1>6, <1>7, ReleaseStep DEF hq
<1>9. OwnedOf(heap', live') = Without(OwnedOf(hq, lw), c + 1)
  BY <1>1, <1>5, <1>6, <1>7, ReleaseOwned DEF hq
<1>10. c + 1 \in DOMAIN OwnedOf(heap, live)
  BY ReleaseOwned DEF HeapInv
<1>11. ExchangeStep(OwnedOf(heap, live), OwnedOf(heap', live'), n)
  BY <1>5, <1>9, <1>10 DEF GrantStep, ExchangeStep
<1> QED
  BY <1>8, <1>11, OwnedIs DEF HeapInv

LEMMA MemAlignStep ==
  ASSUME NEW r \in AlignRequests, r.size > 0, HeapInv, LoomMemAlignRange(r)
  PROVE  HeapInv' /\ GrantStep(Owned, Owned', r.size)
<1>0. PICK p \in AlignFit(heap, r) : \E off \in AlignOffsets(heap[p[1]], p[2], r) :
        /\ heap' = Carve(heap, p, off, Units(r.size))
        /\ live' = Put(live, p[2] + off, r.size)
  BY DEF LoomMemAlignRange
<1>1. PICK off \in AlignOffsets(heap[p[1]], p[2], r) :
        /\ heap' = Carve(heap, p, off, Units(r.size))
        /\ live' = Put(live, p[2] + off, r.size)
  BY <1>0
<1>2. r.size \in Nat
  BY RequestsAssumption
<1>3. /\ p = <<p[1], p[2]>> /\ p[1] \in ArenaIds /\ p[2] \in Free(heap[p[1]])
      /\ off \in Nat /\ (off = 0 \/ off >= 2)
      /\ off + Units(r.size) <= heap[p[1]].size[p[2]]
  BY <1>2, RoomFor, AlignFits DEF HeapInv
<1>4. LET hq == Carve(heap, <<p[1], p[2]>>, off, Units(r.size))
          lw == Put(live, p[2] + off, r.size)
      IN Good(hq, lw) /\ GrantStep(OwnedOf(heap, live), OwnedOf(hq, lw), r.size)
  BY <1>2, <1>3, CarveGrants DEF HeapInv
<1> QED
  BY <1>1, <1>3, <1>4, OwnedIs DEF HeapInv

LEMMA MemAlignHighStep ==
  ASSUME NEW r \in AlignRequests, r.size > 0, HeapInv, LoomMemAlignRangeHigh(r)
  PROVE  HeapInv' /\ GrantStep(Owned, Owned', r.size)
<1>1. ~(\E i \in ArenaIds : ListedInUse(heap[i]))
  BY FreeListed DEF ListedInUse, HeapInv
<1>2. PICK p \in HighFit(heap, r) :
        LET at == HighStart(heap[p[1]], p[2], r)
        IN /\ heap' = Carve(heap, p, at - p[2], Units(r.size))
           /\ live' = Put(live, at, r.size)
  BY <1>1 DEF LoomMemAlignRangeHigh
<1> DEFINE at == HighStart(heap[p[1]], p[2], r)
           off == at - p[2]
<1>3. r.size \in Nat
  BY RequestsAssumption
<1>4. /\ p = <<p[1], p[2]>> /\ p[1] \in ArenaIds /\ p[2] \in Free(heap[p[1]])
      /\ off \in Nat /\ (off = 0 \/ off >= 2)
      /\ off + Units(r.size) <= heap[p[1]].size[p[2]]
  BY HighFits DEF HeapInv
<1>5. heap' = Carve(heap, p, off, Units(r.size)) /\ live' = Put(live, at, r.size)
  BY <1>2
<1>6. at \in Int /\ p[2] \in Int
  <2>1. p[2] \in Int
    BY <1>4, FreeListed DEF HeapInv
  <2>2. r.align \in Nat /\ r.max \in Nat /\ heap[p[1]].size[p[2]] \in Nat
    BY <1>4, FreeListed, RequestsAssumption DEF HeapInv
  <2>3. AlignUnits(r) \in Nat /\ AlignUnits(r) > 0
    BY <2>2 DEF AlignUnits
  <2>4. (IF EndOf(heap[p[1]], p[2]) > r.max THEN r.max ELSE EndOf(heap[p[1]], p[2]))
          - Rounded(r.size) \in Int
    BY <2>1, <2>2, <1>3 DEF EndOf, Rounded
  <2> QED
    BY <2>1, <2>3, <2>4, RoundDown DEF HighStart, CHUNK_SIZE
<1> HIDE DEF at
<1>7. p[2] + off = at
  BY <1>6
<1> HIDE DEF off
<1>8. LET hq == Carve(heap, <<p[1], p[2]>>, off, Units(r.size))
          lw == Put(live, p[2] + off, r.size)
      IN Good(hq, lw) /\ GrantStep(OwnedOf(heap, live), OwnedOf(hq, lw), r.size)
  BY <1>3, <1>4, CarveGrants DEF HeapInv
<1> QED
  BY <1>4, <1>5, <1>7, <1>8, OwnedIs DEF HeapInv

(* Where the blocks the two searches grant lie.                            *)
Placed(c, r) ==
  /\ (c + CHUNK_SIZE) % AlignUnits(r) = 0
  /\ r.min <= c + CHUNK_SIZE
  /\ c + CHUNK_SIZE + Rounded(r.size) <= r.max

LEMMA MemAlignPlaces ==
  ASSUME MinsFit, NEW r \in AlignRequests, HeapInv, LoomMemAlignRange(r)
  PROVE  \A c \in DOMAIN live' \ DOMAIN live : Placed(c, r)
<1>0. PICK p \in AlignFit(heap, r) : \E off \in AlignOffsets(heap[p[1]], p[2], r) :
        live' = Put(live, p[2] + off, r.size)
  BY DEF LoomMemAlignRange
<1>1. PICK off \in AlignOffsets(heap[p[1]], p[2], r) :
        live' = Put(live, p[2] + off, r.size)
  BY <1>0
<1>2. DOMAIN live' = DOMAIN live \cup {p[2] + off}
  BY <1>1 DEF Put
<1>3. Placed(p[2] + off, r)
  BY AlignPlaces DEF MinsFit, HeapInv, Placed
<1> QED
  BY <1>2, <1>3

LEMMA MemAlignHighPlaces ==
  ASSUME NEW r \in AlignRequests, HeapInv, LoomMemAlignRangeHigh(r)
  PROVE  \A c \in DOMAIN live' \ DOMAIN live : Placed(c, r)
<1>1. CASE UNCHANGED live
  BY <1>1
<1>2. ASSUME NEW p \in HighFit(heap, r),
             live' = Put(live, HighStart(heap[p[1]], p[2], r), r.size)
      PROVE  \A c \in DOMAIN live' \ DOMAIN live : Placed(c, r)
  <2>1. DOMAIN live' = DOMAIN live \cup {HighStart(heap[p[1]], p[2], r)}
    BY <1>2 DEF Put
  <2>2. Placed(HighStart(heap[p[1]], p[2], r), r)
    BY HighPlaces DEF HeapInv, Placed
  <2> QED
    BY <2>1, <2>2
<1> QED
  BY <1>1, <1>2 DEF LoomMemAlignRangeHigh

LEMMA FreeStep ==
  ASSUME NEW c \in DOMAIN live, HeapInv, LoomFree(c)
  PROVE  /\ HeapInv' /\ c + 1 \in DOMAIN Owned
         /\ Owned' = Without(Owned, c + 1)
<1>1. heap' = Release(heap, c) /\ live' = Drop(live, c)
  BY DEF LoomFree
<1>2. HeapInv'
  BY <1>1, ReleaseStep DEF HeapInv
<1>3. /\ OwnedOf(heap', live') = Without(OwnedOf(heap, live), c + 1)
      /\ c + 1 \in DOMAIN OwnedOf(heap, live)
  BY <1>1, ReleaseOwned DEF HeapInv
<1> QED
  BY <1>2, <1>3, OwnedIs

LEMMA IterateStep ==
  ASSUME HeapInv, LoomHeapIterate
  PROVE  HeapInv' /\ UNCHANGED Owned
<1>1. \A i \in ArenaIds : Iterate(heap[i], Lo(i), Hi(i)) = heap[i]
  BY ArenaFacts, IterateKeeps DEF HeapInv, Good
<1>2. heap' = heap
  BY <1>1 DEF LoomHeapIterate, HeapInv, Good
<1>3. live' = live
  BY DEF LoomHeapIterate
<1>4. Owned' = Owned
  BY <1>2, <1>3, OwnedIs
<1> QED
  BY <1>2, <1>3, <1>4 DEF HeapInv

LEMMA InitGood == Init => HeapInv
<1> SUFFICES ASSUME Init PROVE HeapInv
  OBVIOUS
<1>1. \A i \in ArenaIds : /\ ArenaInv(Lo(i), Hi(i), heap[i]) /\ InUse(heap[i]) = {}
  BY ArenaFacts, NewArenaKeeps DEF Init, InUse
<1>2. DOMAIN live = {} /\ live = [c \in DOMAIN live |-> live[c]]
  BY DEF Init
<1>3. heap = [i \in ArenaIds |-> heap[i]]
  BY DEF Init
<1> QED
  BY <1>1, <1>2, <1>3 DEF HeapInv, Good

(* One step per call; the calls that fail are stuttering steps.            *)
LEMMA NextGood ==
  ASSUME PositiveRequests, HeapInv, [Next]_vars
  PROVE  HeapInv'
<1>1. CASE UNCHANGED vars
  BY <1>1 DEF vars, HeapInv
<1>2. ASSUME NEW n \in Requests, LoomAlloc(n) PROVE HeapInv'
  <2>1. n \in Nat /\ n > 0
    BY RequestsAssumption DEF PositiveRequests
  <2> QED
    BY <1>2, <2>1, AllocStep
<1>3. ASSUME NEW a \in ArrayRequests, LoomArrayAlloc(a) PROVE HeapInv'
  <2>1. a[1] \in Nat /\ a[2] \in Nat /\ a[1] > 0 /\ a[2] > 0
    BY <1>3, RequestsAssumption DEF PositiveRequests, LoomArrayAlloc
  <2>2. a[1] * a[2] \in Nat /\ a[1] * a[2] > 0
    BY <2>1
  <2>3. LoomAlloc(a[1] * a[2])
    BY <1>3 DEF LoomArrayAlloc
  <2> QED
    BY <2>2, <2>3, AllocStep
<1>4. ASSUME NEW c \in DOMAIN live, NEW n \in Requests, LoomRealloc(c, n) PROVE HeapInv'
  <2>1. n \in Nat /\ n > 0
    BY RequestsAssumption DEF PositiveRequests
  <2> QED
    BY <1>4, <2>1, ReallocStep
<1>5. ASSUME NEW r \in AlignRequests, LoomMemAlignRange(r) PROVE HeapInv'
  BY <1>5, MemAlignStep DEF PositiveRequests
<1>6. ASSUME NEW r \in AlignRequests, LoomMemAlignRangeHigh(r) PROVE HeapInv'
  BY <1>6, MemAlignHighStep DEF PositiveRequests
<1>7. ASSUME NEW c \in DOMAIN live, LoomFree(c) PROVE HeapInv'
  BY <1>7, FreeStep
<1>8. CASE LoomHeapIterate
  BY <1>8, IterateStep
<1> QED
  BY <1>1, <1>2, <1>3, <1>4, <1>5, <1>6, <1>7, <1>8 DEF Next
----------------------------------------------------------------------------
(* The inductive invariant holds in every state the heap reaches, when no  *)
(* caller asks for zero bytes.                                             *)
THEOREM HeapIsGood == PositiveRequests => (Spec => []HeapInv)
<1> SUFFICES ASSUME PositiveRequests PROVE Spec => []HeapInv
  OBVIOUS
<1>1. Init => HeapInv
  BY InitGood
<1>2. HeapInv /\ [Next]_vars => HeapInv'
  BY NextGood
<1> QED
  BY <1>1, <1>2, PTL DEF Spec

(* What the invariant says of one state: the invariants the runs check.    *)
LEMMA GoodMeans ==
  ASSUME HeapInv
  PROVE  /\ TypeOK /\ NoPanic /\ BoundaryTags /\ NoAdjacentFree /\ ListsLinked
         /\ LiveBlocksInUse /\ FreeListComplete /\ AllFreeRestores
<1>1. \A i \in ArenaIds : ArenaInv(Lo(i), Hi(i), heap[i])
  BY DEF HeapInv, Good
<1>2. \A c \in DOMAIN live : live[c] \in Nat
  BY DEF HeapInv, Good
<1>3. TypeOK
  <2>1. DOMAIN heap = ArenaIds
    BY DEF HeapInv, Good
  <2>2. live \in [DOMAIN live -> Nat]
    BY <1>2 DEF HeapInv, Good
  <2> QED
    BY <2>1, <2>2, <1>1 DEF TypeOK, ArenaInv
<1>4. NoPanic
  BY <1>1 DEF NoPanic, Running, ArenaInv
<1>5. BoundaryTags /\ NoAdjacentFree /\ ListsLinked
  BY <1>1 DEF BoundaryTags, NoAdjacentFree, ListsLinked, ArenaInv
<1>6. LiveBlocksInUse
  <2>1. DOMAIN live = UNION {Chunks(heap[i]) \ Free(heap[i]) : i \in ArenaIds}
    BY DEF HeapInv, Good, InUse
  <2>2. ASSUME NEW i \in ArenaIds, NEW c \in Chunks(heap[i]) \cap DOMAIN live
        PROVE  live[c] <= 8 * (heap[i].size[c] - CHUNK_SIZE)
    <3>1. PICK j \in ArenaIds : c \in InUse(heap[j])
      BY <2>2 DEF HeapInv, Good
    <3>2. j = i
      BY <2>2, <3>1, ChunkPlace DEF HeapInv, InUse
    <3> QED
      BY <3>1, <3>2 DEF HeapInv, Good, CHUNK_SIZE
  <2> QED
    BY <2>1, <2>2 DEF LiveBlocksInUse
<1>7. FreeListComplete
  <2> SUFFICES ASSUME NEW i \in ArenaIds PROVE Listed(heap[i]) = Free(heap[i])
    BY DEF FreeListComplete
  <2> DEFINE h == heap[i]
  <2>1. IsList(Free(h), h.prev, h.next, h.head) /\ Chunks(h) \subseteq Lo(i)..(Hi(i) - 1)
    BY <1>1, ArenaFacts, InvParts DEF ArenaInv, ArenaType
  <2>2. IsFiniteSet(Lo(i)..(Hi(i) - 1))
    <3>1. Lo(i) \in Int /\ Hi(i) - 1 \in Int
      BY ArenaFacts
    <3> QED
      BY <3>1, FS_Interval
  <2>3. IsFiniteSet(Free(h))
    <3>1. Free(h) \subseteq Lo(i)..(Hi(i) - 1)
      BY <2>1 DEF Free
    <3> QED
      BY <2>2, <3>1, FS_Subset
  <2> QED
    BY <2>1, <2>3, ListedAll
<1>8. AllFreeRestores
  <2> SUFFICES ASSUME live = [c \in {} |-> 0], NEW i \in ArenaIds
               PROVE  heap[i] = NewArena(Lo(i), Hi(i))
    BY DEF AllFreeRestores
  <2>1. DOMAIN live = {}
    OBVIOUS
  <2>2. InUse(heap[i]) = {}
    BY <2>1 DEF HeapInv, Good
  <2> QED
    BY <2>2, <1>1, ArenaFacts, AllFreeIsNew DEF InUse
<1> QED
  BY <1>3, <1>4, <1>5, <1>6, <1>7, <1>8

(* The heap's state always has its shape: headers and links only where     *)
(* there are chunks.                                                       *)
THEOREM HeapTypeOK == PositiveRequests => (Spec => []TypeOK)
<1> SUFFICES ASSUME PositiveRequests PROVE Spec => []TypeOK
  OBVIOUS
<1>1. HeapInv => TypeOK
  BY GoodMeans
<1> QED
  BY <1>1, HeapIsGood, PTL

(* No consistency check of mm.c ever fires, whatever the calls.            *)
THEOREM HeapNoPanic == PositiveRequests => (Spec => []NoPanic)
<1> SUFFICES ASSUME PositiveRequests PROVE Spec => []NoPanic
  OBVIOUS
<1>1. HeapInv => NoPanic
  BY GoodMeans
<1> QED
  BY <1>1, HeapIsGood, PTL

(* The chunks of every arena tile it, with boundary tags that agree.       *)
THEOREM HeapBoundaryTags == PositiveRequests => (Spec => []BoundaryTags)
<1> SUFFICES ASSUME PositiveRequests PROVE Spec => []BoundaryTags
  OBVIOUS
<1>1. HeapInv => BoundaryTags
  BY GoodMeans
<1> QED
  BY <1>1, HeapIsGood, PTL

(* loomFree always coalesces: no two free chunks touch.                    *)
THEOREM HeapNoAdjacentFree == PositiveRequests => (Spec => []NoAdjacentFree)
<1> SUFFICES ASSUME PositiveRequests PROVE Spec => []NoAdjacentFree
  OBVIOUS
<1>1. HeapInv => NoAdjacentFree
  BY GoodMeans
<1> QED
  BY <1>1, HeapIsGood, PTL

(* The free lists stay linked in both directions.                          *)
THEOREM HeapListsLinked == PositiveRequests => (Spec => []ListsLinked)
<1> SUFFICES ASSUME PositiveRequests PROVE Spec => []ListsLinked
  OBVIOUS
<1>1. HeapInv => ListsLinked
  BY GoodMeans
<1> QED
  BY <1>1, HeapIsGood, PTL

(* Walking a free list meets every free chunk, and no other: no memory is  *)
(* lost from the lists, and no list runs in a circle.                      *)
THEOREM HeapFreeLists == PositiveRequests => (Spec => []FreeListComplete)
<1> SUFFICES ASSUME PositiveRequests PROVE Spec => []FreeListComplete
  OBVIOUS
<1>1. HeapInv => FreeListComplete
  BY GoodMeans
<1> QED
  BY <1>1, HeapIsGood, PTL

(* Once every block is given back, every arena is the one free chunk it    *)
(* was when it was added.                                                  *)
THEOREM HeapRestored == PositiveRequests => (Spec => []AllFreeRestores)
<1> SUFFICES ASSUME PositiveRequests PROVE Spec => []AllFreeRestores
  OBVIOUS
<1>1. HeapInv => AllFreeRestores
  BY GoodMeans
<1> QED
  BY <1>1, HeapIsGood, PTL

(* A block from either aligned search lies aligned inside the range asked  *)
(* for, when rounding the lower bounds up does not wrap.                   *)
THEOREM HeapAlignedInRange ==
  PositiveRequests /\ MinsFit => (Spec => AlignedInRange)
<1> SUFFICES ASSUME PositiveRequests, MinsFit PROVE Spec => AlignedInRange
  OBVIOUS
<1> DEFINE Lies == \A r \in AlignRequests :
                     LoomMemAlignRange(r) \/ LoomMemAlignRangeHigh(r) =>
                       \A c \in DOMAIN live' \ DOMAIN live :
                         /\ (c + CHUNK_SIZE) % AlignUnits(r) = 0
                         /\ r.min <= c + CHUNK_SIZE
                         /\ c + CHUNK_SIZE + Rounded(r.size) <= r.max
<1>1. HeapInv => Lies
  BY MemAlignPlaces, MemAlignHighPlaces DEF Placed
<1>2. HeapInv /\ [Next]_vars => [Lies]_vars
  BY <1>1
<1>3. AlignedInRange <=> [][Lies]_vars
  BY DEF AlignedInRange
<1> HIDE DEF Lies
<1> QED
  BY <1>2, <1>3, HeapIsGood, PTL DEF Spec

(* The chunks in use are exactly the blocks callers hold, and each has     *)
(* room for what its caller asked for.                                     *)
THEOREM HeapLiveBlocks == PositiveRequests => (Spec => []LiveBlocksInUse)
<1> SUFFICES ASSUME PositiveRequests PROVE Spec => []LiveBlocksInUse
  OBVIOUS
<1>1. HeapInv => LiveBlocksInUse
  BY GoodMeans
<1> QED
  BY <1>1, HeapIsGood, PTL
----------------------------------------------------------------------------
(* The steps above, in the terms of Allocator.                             *)
LEMMA GrantAllowed ==
  ASSUME NEW n \in Requests \cup {a[1] * a[2] : a \in ArrayRequests}
                     \cup {r.size : r \in AlignRequests},
         GrantStep(Owned, Owned', n)
  PROVE  Promise!Grant
<1>1. PICK p \in Memories, len \in {Rounded(n), Rounded(n) + 1} :
        Apart(Owned, p, len) /\ Owned' = Granted(Owned, p, n, len)
  BY DEF GrantStep
<1>2. Promise!Fresh(p, len)
  BY <1>1 DEF Promise!Fresh, Promise!Block, Apart, Memories
<1>3. Owned' = Promise!With(p, n, len)
  BY <1>1 DEF Promise!With, Granted
<1>4. p \in UNION {Lo(i)..(Hi(i) - 1) : i \in ArenaIds} /\ len \in Promise!Lengths(n)
  BY DEF Promise!Lengths, Memories, Rounded
<1> QED
  BY <1>2, <1>3, <1>4 DEF Promise!Grant

LEMMA ExchangeAllowed ==
  ASSUME NEW n \in Requests, ExchangeStep(Owned, Owned', n)
  PROVE  Promise!Exchange
<1>1. PICK p \in Memories, len \in {Rounded(n), Rounded(n) + 1}, old \in DOMAIN Owned :
        Apart(Owned, p, len) /\ Owned' = Without(Granted(Owned, p, n, len), old)
  BY DEF ExchangeStep
<1>2. Promise!Fresh(p, len)
  BY <1>1 DEF Promise!Fresh, Promise!Block, Apart, Memories
<1>3. Promise!With(p, n, len) = Granted(Owned, p, n, len)
  BY DEF Promise!With, Granted
<1>4. p \in UNION {Lo(i)..(Hi(i) - 1) : i \in ArenaIds} /\ len \in Promise!Lengths(n)
  BY DEF Promise!Lengths, Memories, Rounded
<1> QED
  BY <1>1, <1>2, <1>3, <1>4 DEF Promise!Exchange, Without

LEMMA StepAllowed ==
  ASSUME PositiveRequests, HeapInv, [Next]_vars
  PROVE  [Promise!Next]_Owned
<1>1. CASE UNCHANGED vars
  <2>1. Owned' = Owned
    BY <1>1, OwnedIs DEF vars
  <2> QED
    BY <2>1
<1>2. ASSUME NEW n \in Requests, LoomAlloc(n) PROVE Promise!Grant
  <2>1. n \in Nat /\ n > 0
    BY RequestsAssumption DEF PositiveRequests
  <2> QED
    BY <1>2, <2>1, AllocStep, GrantAllowed
<1>3. ASSUME NEW a \in ArrayRequests, LoomArrayAlloc(a) PROVE Promise!Grant
  <2>1. a[1] \in Nat /\ a[2] \in Nat /\ a[1] > 0 /\ a[2] > 0
    BY <1>3, RequestsAssumption DEF PositiveRequests, LoomArrayAlloc
  <2>2. a[1] * a[2] \in Nat /\ a[1] * a[2] > 0
    BY <2>1
  <2>3. LoomAlloc(a[1] * a[2])
    BY <1>3 DEF LoomArrayAlloc
  <2>4. GrantStep(Owned, Owned', a[1] * a[2])
    BY <2>2, <2>3, AllocStep
  <2> QED
    BY <2>4, GrantAllowed
<1>4. ASSUME NEW c \in DOMAIN live, NEW n \in Requests, LoomRealloc(c, n)
      PROVE  Promise!Exchange
  <2>1. n \in Nat /\ n > 0
    BY RequestsAssumption DEF PositiveRequests
  <2> QED
    BY <1>4, <2>1, ReallocStep, ExchangeAllowed
<1>5. ASSUME NEW r \in AlignRequests, LoomMemAlignRange(r) PROVE Promise!Grant
  BY <1>5, MemAlignStep, GrantAllowed DEF PositiveRequests
<1>6. ASSUME NEW r \in AlignRequests, LoomMemAlignRangeHigh(r) PROVE Promise!Grant
  BY <1>6, MemAlignHighStep, GrantAllowed DEF PositiveRequests
<1>7. ASSUME NEW c \in DOMAIN live, LoomFree(c) PROVE Promise!GiveBack
  BY <1>7, FreeStep DEF Promise!GiveBack, Without
<1>8. CASE LoomHeapIterate
  BY <1>8, IterateStep
<1> QED
  BY <1>1, <1>2, <1>3, <1>4, <1>5, <1>6, <1>7, <1>8 DEF Next, Promise!Next

(* The heap implements the abstract allocator: each call grants a block    *)
(* disjoint from every other, exchanges one, gives one back, or changes    *)
(* nothing that callers see.                                               *)
THEOREM HeapKeepsPromise == PositiveRequests => (Spec => KeepsPromise)
<1> SUFFICES ASSUME PositiveRequests PROVE Spec => KeepsPromise
  OBVIOUS
<1>1. Init => Promise!Init
  BY DEF Init, Promise!Init, Owned
<1>2. HeapInv /\ [Next]_vars => [Promise!Next]_Owned
  BY StepAllowed
<1> QED
  BY <1>1, <1>2, HeapIsGood, PTL DEF Spec, KeepsPromise, Promise!Spec
=============================================================================
