--------------------------- MODULE BiosDiskProofs ---------------------------
(***************************************************************************)
(* biosDiskRead keeps the promise of a block device, for every list of     *)
(* requests, every size of the batch and of the disk, and every failure of *)
(* the BIOS.                                                               *)
(***************************************************************************)
EXTENDS BiosDisk, WellFoundedInduction, TLAPS

(* The least element of a set of numbers: induction without an operator.   *)
LEMMA LeastElement ==
  ASSUME NEW T \in SUBSET Nat, T # {}
  PROVE  \E m \in T : \A k \in T : m <= k
<1> DEFINE R == {ss \in Nat \X Nat : ss[1] < ss[2]}
<1>1. IsWellFoundedOn(R, Nat)
  BY NatLessThanWellFounded, Zenon DEF OpToRel
<1>2. PICK x \in T : \A y \in T : ~ (<<y, x>> \in R)
  BY <1>1, WFMin
<1>3. ASSUME NEW y \in T PROVE x <= y
  <2>1. ~ (y < x)
    BY <1>2
  <2> QED
    BY <2>1
<1> QED
  BY <1>3

N == Len(list)
Successor(q) == IF q = N THEN Null ELSE q + 1

(* What is left of the q-th request once n of its blocks are served.       *)
Part(q, n) ==
  [block |-> list[q].block + n, count |-> list[q].count - n, buf |-> list[q].buf + n,
   next |-> Successor(q)]

(* The caller's requests are as it left them; the private copy continues   *)
(* one of them.                                                            *)
ReqShape ==
  /\ list \in Lists
  /\ DOMAIN reqs \in {1..N, 0..N}
  /\ \A i \in 1..N : reqs[i] = Part(i, 0)
  /\ Partial \in DOMAIN reqs =>
       \E q \in 1..N : \E n \in 1..(list[q].count - 1) : reqs[Partial] = Part(q, n)

(* The loop stands at p, with n blocks of the q-th request served.         *)
Stands(p, q, n) ==
  /\ p \in DOMAIN reqs /\ q \in 1..N /\ n \in 0..(list[q].count - 1)
  /\ reqs[p] = Part(q, n)
  /\ p # Partial => p = q /\ n = 0

(* All that was asked for before that has arrived.                         *)
Arrived(q, n) ==
  \A i \in 1..N : \A k \in 0..(list[i].count - 1) :
    i < q \/ (i = q /\ k < n) => mem[list[i].buf + k] = list[i].block + k

BatchOf(s) ==
  [j \in Taken(s) |-> [block |-> reqs[s[j]].block, count |-> Blocks(s, j), at |-> Before(s, j)]]

(* The BIOS has put what it served into the bounce buffer.                 *)
Bounced ==
  \A j \in 1..called : \A k \in 0..(batch[j].count - 1) :
    bounce[batch[j].at + k] = batch[j].block + k

Sorts ==
  /\ pc \in {"idle", "build", "bios", "copy", "ok", "error"}
  /\ mem = [a \in Memory |-> mem[a]]
  /\ bounce = [k \in 0..(MaxBlocks - 1) |-> bounce[k]]
  /\ called \in Nat

Reading == pc \in {"build", "bios", "copy"}

Asked ==
  /\ pc = "idle" => list = <<>> /\ reqs = <<>> /\ io_reqs = Null
  /\ pc # "idle" => ReqShape
  /\ pc = "ok" => io_reqs = Null

Progress ==
  Reading \/ pc = "error" =>
    \E q \in 1..N : \E n \in 0..(list[q].count - 1) : Stands(io_reqs, q, n) /\ Arrived(q, n)

Batching ==
  /\ called <= Len(batch)
  /\ pc \in {"bios", "copy"} => batch = BatchOf(Chain(io_reqs)) /\ Bounced
  /\ pc = "copy" => called = Len(batch)

(* IInv says in addition to BatchFits what the loop relies on: where it    *)
(* stands in the list, what has arrived, and that the batch is the one its *)
(* place in the list calls for.                                            *)
IInv == Sorts /\ BatchFits /\ Asked /\ Progress /\ Batching
-----------------------------------------------------------------------------
(* What the requests ahead take.                                           *)

(* h is the running sum of c, n terms of it.                               *)
Sums(h, n, c) == \A k \in 0..n : h[k] = IF k = 0 THEN 0 ELSE h[k - 1] + c[k]

(* A running sum exists, however long.                                     *)
LEMMA SumExists ==
  ASSUME NEW N0 \in Nat, NEW c \in [1..N0 -> Nat]
  PROVE  \E h \in [0..N0 -> Nat] : Sums(h, N0, c)
<1> DEFINE T == {n \in Nat : n <= N0 /\ ~ \E h \in [0..n -> Nat] : Sums(h, n, c)}
<1>1. T = {}
  <2> SUFFICES ASSUME T # {} PROVE FALSE
    OBVIOUS
  <2>1. PICK m \in T : \A k \in T : m <= k
    <3>1. T \in SUBSET Nat
      OBVIOUS
    <3> HIDE DEF T
    <3> QED
      BY <3>1, LeastElement
  <2>2. m # 0
    <3> DEFINE z == [k \in 0..0 |-> 0]
    <3>1. Sums(z, 0, c) /\ z \in [0..0 -> Nat]
      BY DEF Sums
    <3> QED
      BY <2>1, <3>1
  <2>3. m \in Nat /\ m <= N0 /\ m - 1 \in Nat /\ m - 1 <= N0 /\ ~ (m <= m - 1)
    BY <2>1, <2>2
  <2>4. m - 1 \notin T
    <3> HIDE DEF T
    <3> QED
      BY <2>1, <2>3
  <2>5. PICK h \in [0..(m - 1) -> Nat] : Sums(h, m - 1, c)
    BY <2>3, <2>4
  <2> DEFINE hh == [k \in 0..m |-> IF k = m THEN h[m - 1] + c[m] ELSE h[k]]
  <2>6. ASSUME NEW k \in 0..m
        PROVE  (IF k = m THEN h[m - 1] + c[m] ELSE h[k]) \in Nat
    BY <2>2, <2>3, <2>5
  <2>7. hh \in [0..m -> Nat]
    BY <2>6
  <2>8. ASSUME NEW k \in 0..m PROVE hh[k] = IF k = 0 THEN 0 ELSE hh[k - 1] + c[k]
    <3>1. CASE k = m
      BY <3>1, <2>2, <2>3
    <3>2. CASE k # m
      <4>1. k \in 0..(m - 1)
        BY <3>2, <2>3
      <4>2. h[k] = IF k = 0 THEN 0 ELSE h[k - 1] + c[k]
        BY <2>5, <4>1 DEF Sums
      <4> QED
        BY <4>1, <4>2, <3>2
    <3> QED
      BY <3>1, <3>2
  <2>9. ~ \E f \in [0..m -> Nat] : Sums(f, m, c)
    BY <2>1
  <2> HIDE DEF hh
  <2> QED
    BY <2>7, <2>8, <2>9 DEF Sums
<1>2. N0 <= N0
  OBVIOUS
<1> QED
  BY <1>1, <1>2, Zenon

(* A list of n requests, or of what is left of them.                       *)
Requests(s, n) ==
  /\ n \in Nat \ {0} /\ DOMAIN s = 1..n /\ Len(s) = n
  /\ \A j \in 1..n : reqs[s[j]].count \in Nat \ {0}

LEMMA BeforeStep ==
  ASSUME NEW s, NEW n, Requests(s, n)
  PROVE  /\ Before(s, 1) = 0
         /\ \A j \in 1..n : Before(s, j) \in Nat
         /\ \A j \in 1..n : j + 1 <= n => Before(s, j + 1) = Before(s, j) + reqs[s[j]].count
<1> DEFINE c == [k \in 1..n |-> reqs[s[k]].count]
           sum[k \in 0..n] == IF k = 0 THEN 0 ELSE sum[k - 1] + reqs[s[k]].count
<1>1. n \in Nat /\ c \in [1..n -> Nat] /\ Len(s) = n
  BY DEF Requests
<1>2. PICK h \in [0..n -> Nat] : Sums(h, n, c)
  <2> HIDE DEF c
  <2> QED
    BY <1>1, SumExists
<1>3. ASSUME NEW k \in 0..n
      PROVE  h[k] = IF k = 0 THEN 0 ELSE h[k - 1] + reqs[s[k]].count
  <2>1. k # 0 => k \in 1..n
    BY <1>1
  <2>2. h[k] = IF k = 0 THEN 0 ELSE h[k - 1] + c[k]
    BY <1>2 DEF Sums
  <2> QED
    BY <2>1, <2>2
<1>4. h = [k \in 0..n |-> IF k = 0 THEN 0 ELSE h[k - 1] + reqs[s[k]].count]
  BY <1>2, <1>3
<1>5. sum = [k \in 0..n |-> IF k = 0 THEN 0 ELSE sum[k - 1] + reqs[s[k]].count]
  <2> HIDE DEF c
  <2> QED
    BY <1>4
<1>6. \A j : Before(s, j) = sum[j - 1]
  BY <1>1 DEF Before
<1> HIDE DEF sum, c
<1>7. sum[0] = 0
  BY <1>1, <1>5
<1>8. ASSUME NEW k \in 1..n PROVE sum[k] = sum[k - 1] + reqs[s[k]].count
  <2>1. k \in 0..n /\ k # 0
    BY <1>1
  <2> QED
    BY <2>1, <1>5
<1>9. \A k \in 0..n : sum[k] \in Nat
  <2> DEFINE B == {k \in 0..n : sum[k] \notin Nat}
  <2> SUFFICES ASSUME B # {} PROVE FALSE
    OBVIOUS
  <2>1. B \in SUBSET Nat
    BY <1>1
  <2>2. PICK m \in B : \A k \in B : m <= k
    <3> HIDE DEF B
    <3> QED
      BY LeastElement, <2>1
  <2>3. m \in 1..n /\ m - 1 \in 0..n /\ ~ (m <= m - 1) /\ sum[m] \notin Nat
    BY <1>1, <1>7, <2>2
  <2>4. m - 1 \notin B
    <3> HIDE DEF B
    <3> QED
      BY <2>2, <2>3
  <2>5. sum[m - 1] \in Nat
    BY <2>3, <2>4
  <2>6. sum[m] = sum[m - 1] + reqs[s[m]].count /\ reqs[s[m]].count \in Nat
    BY <2>3, <1>8 DEF Requests
  <2> QED
    BY <2>3, <2>5, <2>6
<1>10. Before(s, 1) = 0
  BY <1>6, <1>7
<1>11. ASSUME NEW j \in 1..n
       PROVE  /\ Before(s, j) \in Nat
              /\ j + 1 <= n => Before(s, j + 1) = Before(s, j) + reqs[s[j]].count
  <2>1. j - 1 \in 0..n /\ (j + 1) - 1 = j
    BY <1>1
  <2>2. Before(s, j) = sum[j - 1] /\ Before(s, j + 1) = sum[j]
    BY <1>6, <2>1
  <2> QED
    BY <1>8, <1>9, <2>1, <2>2
<1> QED
  BY <1>10, <1>11

(* The requests ahead of a later one take at least as much, with the       *)
(* earlier one itself.                                                     *)
LEMMA BeforeGrows ==
  ASSUME NEW s, NEW n, Requests(s, n), NEW i \in 1..n, NEW j \in 1..n, i < j
  PROVE  Before(s, i) + reqs[s[i]].count <= Before(s, j)
<1> DEFINE T == {k \in 1..n : i < k /\ ~ (Before(s, i) + reqs[s[i]].count <= Before(s, k))}
<1>1. T = {}
  <2> SUFFICES ASSUME T # {} PROVE FALSE
    OBVIOUS
  <2>1. T \in SUBSET Nat
    OBVIOUS
  <2>2. PICK m \in T : \A k \in T : m <= k
    <3> HIDE DEF T
    <3> QED
      BY LeastElement, <2>1
  <2>3. m \in 1..n /\ i < m /\ ~ (Before(s, i) + reqs[s[i]].count <= Before(s, m))
    BY <2>2
  <2>4. m - 1 \in 1..n /\ i <= m - 1 /\ ~ (m <= m - 1) /\ (m - 1) + 1 = m
    BY <2>3 DEF Requests
  <2>5. m - 1 \notin T
    <3> HIDE DEF T
    <3> QED
      BY <2>2, <2>4
  <2>6. Before(s, m) = Before(s, m - 1) + reqs[s[m - 1]].count
    <3>1. m <= n
      BY <2>3
    <3> QED
      BY <2>4, <3>1, BeforeStep
  <2>7. Before(s, i) \in Nat /\ Before(s, m - 1) \in Nat
        /\ reqs[s[i]].count \in Nat /\ reqs[s[m - 1]].count \in Nat
    BY <2>4, BeforeStep DEF Requests
  <2>8. CASE i = m - 1
    BY <2>8, <2>3, <2>6, <2>7
  <2>9. CASE i # m - 1
    <3>1. Before(s, i) + reqs[s[i]].count <= Before(s, m - 1)
      BY <2>4, <2>5, <2>9
    <3> QED
      BY <3>1, <2>3, <2>6, <2>7
  <2> QED
    BY <2>8, <2>9
<1> QED
  BY <1>1

(* The batch is the first t requests of s: all but the last of them whole, *)
(* each behind the one before it, none beyond the allotment.               *)
Batched(s, t) ==
  /\ t \in 1..Len(s) /\ t <= MaxReqs /\ Taken(s) = 1..t /\ Max(Taken(s)) = t
  /\ \A j \in 1..t : /\ Before(s, j) \in Nat /\ Blocks(s, j) \in Nat \ {0}
                     /\ Blocks(s, j) <= reqs[s[j]].count
                     /\ Before(s, j) + Blocks(s, j) <= MaxBlocks
                     /\ j # t => Blocks(s, j) = reqs[s[j]].count
  /\ \A j, k \in 1..t : j < k => Before(s, j) + Blocks(s, j) <= Before(s, k)

LEMMA BatchIs ==
  ASSUME NEW s, NEW n, Requests(s, n)
  PROVE  \E t \in 1..n : Batched(s, t)
<1> DEFINE L == Least(n, MaxReqs)
           T == {k \in 1..L : k = L \/ ~ (Before(s, k + 1) < MaxBlocks)}
<1>1. /\ L \in Nat \ {0} /\ L <= n /\ L <= MaxReqs /\ n \in Nat \ {0} /\ Len(s) = n
      /\ MaxBlocks \in Nat \ {0}
  BY BiosAssumption DEF Least, Requests
<1>2. Taken(s) = {j \in 1..L : Before(s, j) < MaxBlocks}
  BY <1>1 DEF Taken
<1>3. /\ Before(s, 1) = 0
      /\ \A j \in 1..n : Before(s, j) \in Nat /\ reqs[s[j]].count \in Nat \ {0}
  BY BeforeStep DEF Requests
<1>4. \A i, j \in 1..n : i < j => Before(s, i) + reqs[s[i]].count <= Before(s, j)
  BY BeforeGrows
<1> HIDE DEF L
<1>5. PICK t \in T : \A k \in T : t <= k
  <2>1. T \in SUBSET Nat /\ L \in T
    BY <1>1
  <2> HIDE DEF T
  <2> QED
    BY <2>1, LeastElement
<1>6. t \in 1..L /\ t \in 1..n
  BY <1>1, <1>5
<1>7. ASSUME NEW j \in 1..t PROVE Before(s, j) < MaxBlocks
  <2>1. CASE j = 1
    BY <2>1, <1>1, <1>3
  <2>2. CASE j # 1
    <3>1. j - 1 \in 1..L /\ ~ (t <= j - 1) /\ (j - 1) + 1 = j
      BY <2>2, <1>1, <1>6
    <3>2. j - 1 \notin T
      <4> HIDE DEF T
      <4> QED
        BY <3>1, <1>5
    <3>3. Before(s, (j - 1) + 1) < MaxBlocks
      BY <3>1, <3>2
    <3> QED
      BY <3>1, <3>3
  <2> QED
    BY <2>1, <2>2
<1>8. ASSUME NEW j \in 1..L, t < j PROVE ~ (Before(s, j) < MaxBlocks)
  <2>1. t # L /\ t + 1 \in 1..n /\ j \in 1..n
    BY <1>1, <1>6, <1>8
  <2>2. ~ (Before(s, t + 1) < MaxBlocks)
    BY <2>1, <1>5
  <2>3. Before(s, t + 1) \in Nat /\ Before(s, j) \in Nat
    BY <2>1, <1>3
  <2>4. CASE j = t + 1
    BY <2>2, <2>4
  <2>5. CASE j # t + 1
    <3>1. t + 1 < j
      BY <2>5, <1>8, <1>6
    <3>2. Before(s, t + 1) + reqs[s[t + 1]].count <= Before(s, j)
      BY <3>1, <2>1, <1>4
    <3>3. reqs[s[t + 1]].count \in Nat
      BY <2>1, <1>3
    <3> QED
      BY <3>2, <3>3, <2>2, <2>3, <1>1
  <2> QED
    BY <2>4, <2>5
<1>9. Taken(s) = 1..t
  <2>1. ASSUME NEW j PROVE j \in Taken(s) <=> j \in 1..t
    <3>1. j \in 1..t => j \in 1..L
      BY <1>6, <1>1
    <3>2. j \in 1..L /\ j \notin 1..t => t < j
      BY <1>6, <1>1
    <3> QED
      BY <3>1, <3>2, <1>2, <1>7, <1>8
  <2> QED
    BY <2>1
<1>10. Max(Taken(s)) = t
  <2>1. \A x \in Int : (x \in 1..t /\ \A y \in 1..t : x >= y) <=> x = t
    BY <1>6, <1>1
  <2>2. Max(1..t) \in 1..t /\ \A y \in 1..t : Max(1..t) >= y
    <3>1. t \in 1..t /\ \A y \in 1..t : t >= y
      BY <1>6, <1>1
    <3> QED
      BY <3>1, Zenon DEF Max
  <2> QED
    BY <2>1, <2>2, <1>9, <1>6
<1>11. ASSUME NEW j \in 1..t
       PROVE  /\ Before(s, j) \in Nat /\ Blocks(s, j) \in Nat \ {0}
              /\ Blocks(s, j) <= reqs[s[j]].count
              /\ Before(s, j) + Blocks(s, j) <= MaxBlocks
              /\ j # t => Blocks(s, j) = reqs[s[j]].count
  <2>1. j \in 1..n /\ n \in Nat
    BY <1>1, <1>6
  <2>2. Before(s, j) \in Nat /\ reqs[s[j]].count \in Nat \ {0} /\ Before(s, j) < MaxBlocks
    BY <2>1, <1>3, <1>7
  <2>3. ASSUME j # t PROVE Before(s, j) + reqs[s[j]].count < MaxBlocks
    <3>1. j + 1 \in 1..t /\ j + 1 \in 1..n /\ j + 1 <= n
      BY <2>3, <2>1, <1>1, <1>6
    <3>2. Before(s, j + 1) = Before(s, j) + reqs[s[j]].count
      BY <3>1, <2>1, BeforeStep
    <3> QED
      BY <3>1, <3>2, <1>7
  <2> QED
    BY <2>2, <2>3, <1>1 DEF Blocks, Least
<1>12. ASSUME NEW j \in 1..t, NEW k \in 1..t, j < k
       PROVE  Before(s, j) + Blocks(s, j) <= Before(s, k)
  <2>1. Before(s, j) + reqs[s[j]].count <= Before(s, k)
    BY <1>12, <1>4, <1>1, <1>6
  <2>2. Blocks(s, j) = reqs[s[j]].count
    BY <1>11, <1>12, <1>1, <1>6
  <2> QED
    BY <2>1, <2>2
<1>13. Batched(s, t)
  <2>1. t \in 1..Len(s) /\ t <= MaxReqs
    BY <1>1, <1>6, BiosAssumption
  <2> QED
    BY <2>1, <1>9, <1>10, <1>11, <1>12 DEF Batched
<1> QED
  BY <1>6, <1>13, Zenon
-----------------------------------------------------------------------------
(* What is left of the list.                                               *)

LEMMA ListFacts ==
  ASSUME NEW l \in Lists
  PROVE  /\ Len(l) \in Nat \ {0} /\ DOMAIN l = 1..Len(l)
         /\ \A i \in 1..Len(l) : /\ l[i].block \in Nat /\ l[i].count \in Nat \ {0}
                                 /\ l[i].buf \in Nat
         /\ \A i, j \in 1..Len(l) : i # j => Places(l[i]) \cap Places(l[j]) = {}
         /\ \A i \in 1..Len(l) : Places(l[i]) \subseteq Memory
<1> DEFINE Req == [block : Nat, count : Nat \ {0}, buf : Nat]
<1>2. l \in Seq(Req) /\ l # <<>>
  BY BiosAssumption
<1>3. Len(l) \in Nat /\ DOMAIN l = 1..Len(l)
  BY <1>2
<1>4. Len(l) # 0
  BY <1>2, <1>3
<1>5. \A i \in 1..Len(l) : l[i] \in Req
  <2> HIDE DEF Req
  <2> QED
    BY <1>2, <1>3
<1>6. /\ \A i, j \in 1..Len(l) : i # j => Places(l[i]) \cap Places(l[j]) = {}
      /\ \A i \in 1..Len(l) : Places(l[i]) \subseteq Memory
  BY <1>3, PlacesAssumption
<1> QED
  BY <1>3, <1>4, <1>5, <1>6

LEMMA ListShape ==
  ASSUME ReqShape
  PROVE  /\ N \in Nat \ {0} /\ DOMAIN list = 1..N
         /\ \A i \in 1..N : /\ list[i].block \in Nat /\ list[i].count \in Nat \ {0}
                            /\ list[i].buf \in Nat
         /\ \A i, j \in 1..N : i # j => Places(list[i]) \cap Places(list[j]) = {}
         /\ \A i \in 1..N : Places(list[i]) \subseteq Memory
BY ListFacts DEF ReqShape, N

(* Every request object is one of the caller's or what is left of one.     *)
LEMMA StandsSomewhere ==
  ASSUME ReqShape, NEW p \in DOMAIN reqs
  PROVE  \E q \in 1..N : \E n \in 0..(list[q].count - 1) : Stands(p, q, n)
<1>1. /\ N \in Nat \ {0}
      /\ \A i \in 1..N : list[i].count \in Nat \ {0}
  BY ListShape
<1>2. CASE p = Partial
  <2>0. PICK q \in 1..N : \E n \in 1..(list[q].count - 1) : reqs[Partial] = Part(q, n)
    BY <1>2 DEF ReqShape
  <2>1. PICK n \in 1..(list[q].count - 1) : reqs[Partial] = Part(q, n)
    BY <2>0
  <2>2. n \in 0..(list[q].count - 1)
    BY <1>1, <2>1
  <2>3. Stands(p, q, n)
    BY <1>2, <2>1, <2>2 DEF Stands
  <2> QED
    BY <2>2, <2>3
<1>3. CASE p # Partial
  <2>1. p \in 1..N /\ reqs[p] = Part(p, 0)
    BY <1>1, <1>3 DEF ReqShape, Partial
  <2>2. 0 \in 0..(list[p].count - 1)
    BY <1>1, <2>1
  <2>3. Stands(p, p, 0)
    BY <2>1, <2>2 DEF Stands
  <2> QED
    BY <2>1, <2>2, <2>3
<1> QED
  BY <1>2, <1>3

(* The chain from p, which continues the q-th request: then the others     *)
(* that follow.                                                            *)
Walk(p, q) == [k \in 1..(N - q + 1) |-> IF k = 1 THEN p ELSE q + k - 1]

(* The request one after the other is the rest of the chain.               *)
LEMMA WalkOn ==
  ASSUME ReqShape, NEW p, NEW q \in 1..N
  PROVE  /\ q = N => Walk(p, q) = <<p>> \o <<>>
         /\ q # N => q + 1 \in 1..N /\ Walk(p, q) = <<p>> \o Walk(q + 1, q + 1)
<1>1. N \in Nat \ {0}
  BY ListShape
<1>2. CASE q = N
  <2>1. N - q + 1 = 1
    BY <1>1, <1>2
  <2>2. Walk(p, q) = [k \in 1..1 |-> IF k = 1 THEN p ELSE q + k - 1]
    BY <2>1 DEF Walk
  <2>3. Walk(p, q) = <<p>>
    BY <2>2
  <2> QED
    BY <2>3, <1>2
<1>3. CASE q # N
  <2> DEFINE s == Walk(q + 1, q + 1)
             M == N - q
  <2>1. q + 1 \in 1..N /\ M \in Nat \ {0} /\ N - (q + 1) + 1 = M /\ N - q + 1 = M + 1
    BY <1>1, <1>3
  <2>2. s = [k \in 1..M |-> IF k = 1 THEN q + 1 ELSE q + 1 + k - 1]
    BY <2>1 DEF Walk
  <2>3. s \in Seq(Nat) /\ Len(s) = M
    <3>1. \A k \in 1..M : (IF k = 1 THEN q + 1 ELSE q + 1 + k - 1) \in Nat
      BY <2>1
    <3> HIDE DEF M
    <3> QED
      BY <2>1, <2>2, <3>1
  <2>4. <<p>> \o s = [k \in 1..(M + 1) |-> IF k <= 1 THEN p ELSE s[k - 1]]
    <3> HIDE DEF M, s
    <3> QED
      BY <2>1, <2>3
  <2>5. ASSUME NEW k \in 1..(M + 1)
        PROVE  (IF k <= 1 THEN p ELSE s[k - 1]) = IF k = 1 THEN p ELSE q + k - 1
    <3>1. CASE k = 1
      BY <3>1
    <3>2. CASE k # 1
      <4>1. k - 1 \in 1..M /\ ~ (k <= 1)
        BY <3>2, <2>1
      <4>2. s[k - 1] = IF k - 1 = 1 THEN q + 1 ELSE q + 1 + (k - 1) - 1
        BY <4>1, <2>2
      <4>3. s[k - 1] = q + k - 1
        BY <4>1, <4>2, <2>1
      <4> QED
        BY <4>1, <4>3, <3>2
    <3> QED
      BY <3>1, <3>2
  <2>6. Walk(p, q) = [k \in 1..(M + 1) |-> IF k = 1 THEN p ELSE q + k - 1]
    BY <2>1 DEF Walk
  <2>7. Walk(p, q) = <<p>> \o s
    <3> HIDE DEF M, s
    <3> QED
      BY <2>4, <2>5, <2>6
  <2> QED
    BY <2>1, <2>7, <1>3
<1> QED
  BY <1>2, <1>3

LEMMA ChainIs ==
  ASSUME ReqShape, NEW p, NEW q, NEW n, Stands(p, q, n)
  PROVE  Chain(p) = Walk(p, q)
<1> DEFINE D == DOMAIN reqs \cup {Null}
           own(x) == CHOOSE o \in 1..N : reqs[x].next = Successor(o)
           W == [x \in D |-> IF x = Null THEN <<>> ELSE Walk(x, own(x))]
           rest(g) == [x \in D |-> IF x = Null THEN <<>> ELSE <<x>> \o g[reqs[x].next]]
<1>1. N \in Nat \ {0}
  BY ListShape
<1>2. ASSUME NEW x, NEW o, NEW m, Stands(x, o, m)
      PROVE  own(x) = o /\ reqs[x].next = Successor(o) /\ o \in 1..N
  <2>1. o \in 1..N /\ reqs[x] = Part(o, m)
    BY <1>2 DEF Stands
  <2>2. reqs[x].next = Successor(o)
    BY <2>1 DEF Part
  <2>3. \A i \in 1..N : Successor(i) = Successor(o) => i = o
    BY <1>1, <2>1 DEF Successor, Null
  <2>4. own(x) \in 1..N /\ Successor(own(x)) = Successor(o)
    <3> HIDE DEF own
    <3>1. \E i \in 1..N : reqs[x].next = Successor(i)
      BY <2>1, <2>2
    <3> QED
      BY <2>2, <3>1, Zenon DEF own
  <2> QED
    BY <2>1, <2>2, <2>3, <2>4
<1>3. ASSUME NEW x \in DOMAIN reqs
      PROVE  /\ own(x) \in 1..N /\ reqs[x].next = Successor(own(x)) /\ x # Null
             /\ own(x) # N => own(own(x) + 1) = own(x) + 1 /\ own(x) + 1 \in DOMAIN reqs
  <2>1. PICK o \in 1..N : \E m \in 0..(list[o].count - 1) : Stands(x, o, m)
    BY StandsSomewhere
  <2>2. PICK m \in 0..(list[o].count - 1) : Stands(x, o, m)
    BY <2>1
  <2>3. own(x) = o /\ reqs[x].next = Successor(o)
    BY <2>2, <1>2
  <2>4. x # Null
    BY <1>1 DEF ReqShape, Null
  <2>5. ASSUME o # N
        PROVE  own(o + 1) = o + 1 /\ o + 1 \in DOMAIN reqs
    <3>1. o + 1 \in 1..N /\ o + 1 \in DOMAIN reqs
      BY <1>1, <2>5 DEF ReqShape
    <3>2. PICK oo \in 1..N : \E mm \in 0..(list[oo].count - 1) : Stands(o + 1, oo, mm)
      BY <3>1, StandsSomewhere
    <3>3. PICK mm \in 0..(list[oo].count - 1) : Stands(o + 1, oo, mm)
      BY <3>2
    <3>4. o + 1 = oo
      BY <3>3, <3>1 DEF Stands, Partial
    <3> QED
      BY <3>1, <3>3, <3>4, <1>2
  <2> HIDE DEF own
  <2> QED
    BY <2>3, <2>4, <2>5
<1> HIDE DEF own
<1>4. W = rest(W)
  <2> SUFFICES ASSUME NEW x \in D, x # Null
               PROVE  W[x] = <<x>> \o W[reqs[x].next]
    BY DEF W, rest
  <2>1. x \in DOMAIN reqs
    OBVIOUS
  <2>2. W[x] = Walk(x, own(x))
    BY <2>1
  <2>3. CASE own(x) = N
    <3>1. reqs[x].next = Null /\ Null \in D
      BY <2>1, <2>3, <1>3 DEF Successor
    <3>2. W[Null] = <<>>
      BY <3>1
    <3>3. Walk(x, own(x)) = <<x>> \o <<>>
      BY <2>1, <2>3, <1>3, WalkOn
    <3> HIDE DEF W
    <3> QED
      BY <2>2, <3>1, <3>2, <3>3
  <2>4. CASE own(x) # N
    <3> DEFINE y == own(x) + 1
    <3>1. reqs[x].next = y /\ y \in DOMAIN reqs /\ own(y) = y
      BY <2>1, <2>4, <1>3 DEF Successor
    <3>2. W[y] = Walk(y, y)
      <4>1. y \in D /\ y # Null
        BY <3>1, <1>3
      <4> HIDE DEF y
      <4> QED
        BY <3>1, <4>1
    <3>3. Walk(x, own(x)) = <<x>> \o Walk(y, y)
      BY <2>1, <2>4, <1>3, WalkOn
    <3> HIDE DEF W, y
    <3> QED
      BY <2>2, <3>1, <3>2, <3>3
  <2> QED
    BY <2>3, <2>4
<1> HIDE DEF W
<1>5. PICK from : from = rest(from) /\ Chain(p) = from[p]
  <2> DEFINE fr[x \in D] == IF x = Null THEN <<>> ELSE <<x>> \o fr[reqs[x].next]
  <2>1. fr = rest(fr)
    BY <1>4
  <2>2. Chain(p) = fr[p]
    BY DEF Chain
  <2> HIDE DEF fr
  <2> QED
    BY <2>1, <2>2
<1>6. \A x \in D : from[x] = W[x]
  <2> DEFINE rank(x) == IF x = Null THEN 0 ELSE N + 1 - own(x)
             B == {r \in Nat : \E x \in D : rank(x) = r /\ from[x] # W[x]}
  <2>1. ASSUME NEW x \in D PROVE rank(x) \in Nat
    <3>1. x # Null => own(x) \in 1..N
      BY <1>3
    <3> QED
      BY <3>1, <1>1
  <2>2. SUFFICES B = {}
    BY <2>1
  <2> SUFFICES ASSUME B # {} PROVE FALSE
    OBVIOUS
  <2>3. PICK r \in B : \A k \in B : r <= k
    <3>1. B \in SUBSET Nat
      OBVIOUS
    <3> HIDE DEF B
    <3> QED
      BY <3>1, LeastElement
  <2>4. PICK x \in D : rank(x) = r /\ from[x] # W[x]
    BY <2>3
  <2>5. x # Null
    <3>1. x = Null => from[x] = <<>>
      BY <2>4, <1>5
    <3>2. x = Null => W[x] = <<>>
      BY <2>4, <1>4
    <3> QED
      BY <3>1, <3>2, <2>4
  <2> DEFINE y == reqs[x].next
  <2>6. y \in D /\ rank(y) < rank(x)
    <3>1. /\ own(x) \in 1..N /\ y = Successor(own(x))
          /\ own(x) # N => own(own(x) + 1) = own(x) + 1 /\ own(x) + 1 \in DOMAIN reqs
      BY <2>5, <1>3
    <3>2. CASE own(x) = N
      <4>1. y = Null
        <5> HIDE DEF y
        <5> QED
          BY <3>1, <3>2 DEF Successor
      <4>2. rank(y) = 0 /\ rank(x) = 1
        BY <4>1, <3>2, <2>5, <1>1
      <4> QED
        BY <4>1, <4>2
    <3>3. CASE own(x) # N
      <4>1. y = own(x) + 1 /\ own(y) = own(x) + 1 /\ y \in DOMAIN reqs
        <5> HIDE DEF y
        <5> QED
          BY <3>1, <3>3 DEF Successor
      <4>2. y # Null
        BY <4>1, <1>3
      <4> HIDE DEF y
      <4> QED
        BY <4>1, <4>2, <2>5, <3>1, <1>1
    <3> QED
      BY <3>2, <3>3
  <2>7. from[y] = W[y]
    <3>1. rank(y) \in Nat /\ rank(x) \in Nat
      BY <2>1, <2>6
    <3>2. rank(y) \notin B
      <4> HIDE DEF B, rank
      <4> QED
        BY <3>1, <2>3, <2>4, <2>6
    <3> HIDE DEF rank, y
    <3> QED
      BY <3>1, <3>2, <2>6
  <2>8. from[x] = <<x>> \o from[y]
    BY <2>4, <2>5, <1>5
  <2>9. W[x] = <<x>> \o W[y]
    BY <2>4, <2>5, <1>4
  <2> HIDE DEF y
  <2> QED
    BY <2>4, <2>7, <2>8, <2>9
<1>7. p \in DOMAIN reqs /\ own(p) = q
  BY <1>2 DEF Stands
<1>8. W[p] = Walk(p, q)
  <2>1. p # Null
    BY <1>3, <1>7
  <2> QED
    BY <2>1, <1>7 DEF W
<1> QED
  BY <1>5, <1>6, <1>7, <1>8

(* The list s is what is left from the q-th request on, n blocks of it     *)
(* served.                                                                 *)
Left(s, q, n) ==
  /\ Len(s) = N - q + 1 /\ Len(s) \in Nat \ {0} /\ DOMAIN s = 1..Len(s)
  /\ \A j \in 1..Len(s) : /\ q + j - 1 \in 1..N
                          /\ s[j] \in DOMAIN reqs
                          /\ reqs[s[j]] = Part(q + j - 1, IF j = 1 THEN n ELSE 0)
  /\ \A j \in 1..Len(s) : j # 1 => s[j] = q + j - 1

LEMMA LeftIs ==
  ASSUME ReqShape, NEW p, NEW q, NEW n, Stands(p, q, n)
  PROVE  /\ Left(Chain(p), q, n)
         /\ \E t \in 1..Len(Chain(p)) : Batched(Chain(p), t)
<1> DEFINE s == Chain(p)
           M == N - q + 1
<1>1. /\ N \in Nat \ {0} /\ q \in 1..N /\ M \in Nat \ {0} /\ reqs[p] = Part(q, n)
      /\ n \in 0..(list[q].count - 1) /\ p \in DOMAIN reqs
      /\ \A i \in 1..N : list[i].count \in Nat \ {0}
  BY ListShape DEF Stands
<1>2. s = [k \in 1..M |-> IF k = 1 THEN p ELSE q + k - 1]
  BY ChainIs DEF Walk
<1> HIDE DEF s
<1>3. DOMAIN s = 1..M /\ Len(s) = M
  <2> DEFINE S == {p} \cup Nat
  <2>1. \A k \in 1..M : (IF k = 1 THEN p ELSE q + k - 1) \in S
    BY <1>1
  <2>2. s \in [1..M -> S]
    <3> HIDE DEF S, M
    <3> QED
      BY <1>2, <2>1
  <2>3. s \in Seq(S)
    <3> HIDE DEF S, M
    <3> QED
      BY <1>1, <2>2
  <2>4. DOMAIN s = 1..M
    BY <1>2
  <2> HIDE DEF S, M
  <2> QED
    BY <1>1, <2>3, <2>4
<1>4. ASSUME NEW j \in 1..M
      PROVE  /\ q + j - 1 \in 1..N /\ s[j] \in DOMAIN reqs
             /\ reqs[s[j]] = Part(q + j - 1, IF j = 1 THEN n ELSE 0)
             /\ j # 1 => s[j] = q + j - 1
  <2>1. q + j - 1 \in 1..N
    BY <1>1
  <2>2. CASE j = 1
    <3>1. s[j] = p /\ q + j - 1 = q
      BY <2>2, <1>1, <1>2
    <3> QED
      BY <3>1, <2>1, <2>2, <1>1
  <2>3. CASE j # 1
    <3>1. s[j] = q + j - 1
      BY <2>3, <1>2
    <3>2. q + j - 1 \in DOMAIN reqs /\ reqs[q + j - 1] = Part(q + j - 1, 0)
      BY <2>1, <1>1 DEF ReqShape
    <3> QED
      BY <3>1, <3>2, <2>1, <2>3
  <2> QED
    BY <2>2, <2>3
<1>5. Left(s, q, n)
  BY <1>1, <1>3, <1>4 DEF Left
<1>6. ASSUME NEW j \in 1..M PROVE reqs[s[j]].count \in Nat \ {0}
  <2>0. q + j - 1 \in 1..N /\ reqs[s[j]] = Part(q + j - 1, IF j = 1 THEN n ELSE 0)
    BY <1>4
  <2>1. q + j - 1 \in 1..N /\ reqs[s[j]].count = list[q + j - 1].count - (IF j = 1 THEN n ELSE 0)
    BY <2>0 DEF Part
  <2>2. j = 1 => q + j - 1 = q
    BY <1>1
  <2>3. list[q + j - 1].count \in Nat \ {0}
    BY <1>1, <2>1
  <2> QED
    BY <2>1, <2>2, <2>3, <1>1
<1>7. Requests(s, M)
  BY <1>1, <1>3, <1>6 DEF Requests
<1>8. \E t \in 1..M : Batched(s, t)
  <2> HIDE DEF M
  <2> QED
    BY <1>7, BatchIs
<1> QED
  BY <1>3, <1>5, <1>8 DEF s

(* The requests of a batch are for places of their own.                    *)
LEMMA PlacesApart ==
  ASSUME ReqShape, NEW s, NEW q \in 1..N, NEW n \in 0..(list[q].count - 1), Left(s, q, n),
         NEW t, Batched(s, t), NEW a \in Memory,
         NEW j \in 1..t, a - reqs[s[j]].buf \in 0..(Blocks(s, j) - 1)
  PROVE  /\ q + j - 1 \in 1..N
         /\ a - list[q + j - 1].buf \in 0..(list[q + j - 1].count - 1)
         /\ a - list[q + j - 1].buf >= (IF j = 1 THEN n ELSE 0)
         /\ \A i \in 1..N : a - list[i].buf \in 0..(list[i].count - 1) => i = q + j - 1
<1> DEFINE x == q + j - 1
           o == IF j = 1 THEN n ELSE 0
<1>1. /\ N \in Nat \ {0} /\ a \in Nat
      /\ \A i \in 1..N : list[i].count \in Nat \ {0} /\ list[i].buf \in Nat
      /\ \A i, k \in 1..N : i # k => Places(list[i]) \cap Places(list[k]) = {}
  BY ListShape, BiosAssumption
<1>2. j \in 1..Len(s) /\ Blocks(s, j) \in Nat \ {0} /\ Blocks(s, j) <= reqs[s[j]].count
  BY DEF Batched, Left
<1>3. x \in 1..N /\ reqs[s[j]] = Part(x, o)
  BY <1>2 DEF Left
<1>4. reqs[s[j]].buf = list[x].buf + o /\ reqs[s[j]].count = list[x].count - o
  BY <1>3 DEF Part
<1>5. o \in Nat /\ list[x].count \in Nat /\ list[x].buf \in Nat
  BY <1>1, <1>3
<1> HIDE DEF x, o
<1>6. a - list[x].buf \in 0..(list[x].count - 1) /\ a - list[x].buf >= o
  <2> DEFINE b == Blocks(s, j)
             y == reqs[s[j]].buf
             z == reqs[s[j]].count
  <2>1. b \in Nat \ {0} /\ b <= z /\ a - y \in 0..(b - 1)
    BY <1>2
  <2>2. y = list[x].buf + o /\ z = list[x].count - o
    BY <1>4
  <2> HIDE DEF b, y, z
  <2> QED
    BY <2>1, <2>2, <1>1, <1>5
<1>7. ASSUME NEW i \in 1..N, a - list[i].buf \in 0..(list[i].count - 1) PROVE i = x
  <2>1. a \in Places(list[i]) /\ a \in Places(list[x])
    BY <1>1, <1>3, <1>5, <1>6, <1>7 DEF Places
  <2> QED
    BY <2>1, <1>1, <1>3
<1> QED
  BY <1>3, <1>6, <1>7 DEF x, o
-----------------------------------------------------------------------------
(* The copy out of the bounce buffer.                                      *)

(* The j-th request of the batch is for place a.                           *)
Takes(s, j, a) == a - reqs[s[j]].buf \in 0..(Blocks(s, j) - 1)

LEMMA Delivers ==
  ASSUME IInv, Consume, NEW s, s = Chain(io_reqs), NEW q \in 1..N,
         NEW n \in 0..(list[q].count - 1), Left(s, q, n), NEW t, Batched(s, t)
  PROVE  /\ \A a \in Memory : \A j \in 1..t :
              Takes(s, j, a) => mem'[a] = reqs[s[j]].block + (a - reqs[s[j]].buf)
         /\ \A a \in Memory : (\A j \in 1..t : ~ Takes(s, j, a)) => mem'[a] = mem[a]
<1>1. /\ ReqShape /\ batch = BatchOf(s) /\ called = Len(batch) /\ Bounced /\ called \in Nat
  BY DEF IInv, Asked, Batching, Sorts, Consume
<1>2. /\ Taken(s) = 1..t /\ t \in 1..Len(s) /\ Len(s) \in Nat
      /\ \A j \in 1..t : /\ Before(s, j) \in Nat /\ Blocks(s, j) \in Nat \ {0}
  BY DEF Batched, Left
<1>3. batch = [j \in 1..t |-> [block |-> reqs[s[j]].block, count |-> Blocks(s, j), at |-> Before(s, j)]]
  BY <1>1, <1>2 DEF BatchOf
<1>4. called = t
  <2> DEFINE B == [block : {reqs[s[j]].block : j \in 1..t}, count : Nat, at : Nat]
  <2>1. batch \in Seq(B)
    <3>1. batch \in [1..t -> B]
      BY <1>2, <1>3
    <3> HIDE DEF B
    <3> QED
      BY <3>1, <1>2
  <2>2. DOMAIN batch = 1..t
    BY <1>3
  <2> HIDE DEF B
  <2> QED
    BY <2>1, <2>2, <1>1, <1>2
<1>5. mem' = [a \in Memory |->
                IF \E j \in 1..t : Takes(s, j, a)
                THEN LET j == CHOOSE j \in 1..t : Takes(s, j, a)
                     IN bounce[Before(s, j) + a - reqs[s[j]].buf]
                ELSE mem[a]]
  BY <1>2 DEF Consume, Takes
<1>6. ASSUME NEW a \in Memory, NEW j \in 1..t, Takes(s, j, a)
      PROVE  mem'[a] = reqs[s[j]].block + (a - reqs[s[j]].buf)
  <2>1. \A i \in 1..t : Takes(s, i, a) => i = j
    <3>1. SUFFICES ASSUME NEW i \in 1..t, Takes(s, i, a) PROVE i = j
      OBVIOUS
    <3>2. /\ q + j - 1 \in 1..N
          /\ a - list[q + j - 1].buf \in 0..(list[q + j - 1].count - 1)
      BY <1>1, <1>6, PlacesApart DEF Takes
    <3>3. q + j - 1 = q + i - 1
      BY <3>1, <3>2, <1>1, PlacesApart DEF Takes
    <3>4. N \in Nat
      BY <1>1, ListShape
    <3> QED
      BY <3>3, <3>4, <1>2
  <2>2. (CHOOSE i \in 1..t : Takes(s, i, a)) = j
    BY <2>1, <1>6, Zenon
  <2>3. mem'[a] = bounce[Before(s, j) + a - reqs[s[j]].buf]
    BY <1>5, <1>6, <2>2, Zenon
  <2> DEFINE k == a - reqs[s[j]].buf
  <2>4. k \in 0..(Blocks(s, j) - 1)
    BY <1>6 DEF Takes
  <2>5. batch[j].count = Blocks(s, j) /\ batch[j].at = Before(s, j) /\ batch[j].block = reqs[s[j]].block
    BY <1>3
  <2>6. bounce[batch[j].at + k] = batch[j].block + k
    <3> HIDE DEF k
    <3> QED
      BY <2>4, <2>5, <1>1, <1>4 DEF Bounced
  <2>7. Before(s, j) + a - reqs[s[j]].buf = Before(s, j) + k
    <3>1. Before(s, j) \in Nat /\ a \in Nat
      BY <1>2, BiosAssumption
    <3>2. reqs[s[j]].buf \in Nat
      <4>1. j \in 1..Len(s) /\ n \in Nat
        BY <1>2
      <4>2. q + j - 1 \in 1..N /\ reqs[s[j]] = Part(q + j - 1, IF j = 1 THEN n ELSE 0)
        BY <4>1 DEF Left
      <4>3. reqs[s[j]].buf = list[q + j - 1].buf + (IF j = 1 THEN n ELSE 0)
        BY <4>2 DEF Part
      <4>4. list[q + j - 1].buf \in Nat
        BY <1>1, <4>2, ListShape
      <4> QED
        BY <4>1, <4>3, <4>4
    <3> QED
      BY <3>1, <3>2
  <2> QED
    BY <2>3, <2>5, <2>6, <2>7
<1>7. ASSUME NEW a \in Memory, \A j \in 1..t : ~ Takes(s, j, a)
      PROVE  mem'[a] = mem[a]
  BY <1>5, <1>7, Zenon
<1> QED
  BY <1>6, <1>7

(* What has arrived then, as far as the batch reached.                     *)
LEMMA ConsumeArrives ==
  ASSUME IInv, Consume, NEW s, s = Chain(io_reqs), NEW q \in 1..N,
         NEW n \in 0..(list[q].count - 1), Left(s, q, n), NEW t, Batched(s, t), Arrived(q, n),
         NEW x, x = q + t - 1, NEW o, o = (IF t = 1 THEN n ELSE 0)
  PROVE  \A i \in 1..N : \A k \in 0..(list[i].count - 1) :
           i < x \/ (i = x /\ k < o + Blocks(s, t)) => mem'[list[i].buf + k] = list[i].block + k
<1>1. ReqShape
  BY DEF IInv, Asked, Consume
<1> SUFFICES ASSUME NEW i \in 1..N, NEW k \in 0..(list[i].count - 1),
                    i < x \/ (i = x /\ k < o + Blocks(s, t))
             PROVE  mem'[list[i].buf + k] = list[i].block + k
  OBVIOUS
<1> DEFINE a == list[i].buf + k
           off(j) == IF j = 1 THEN n ELSE 0
<1>2. /\ N \in Nat /\ list[i].buf \in Nat /\ list[i].count \in Nat /\ list[i].block \in Nat
      /\ k \in Nat /\ n \in Nat /\ list[q].count \in Nat
      /\ Places(list[i]) \subseteq Memory
  BY <1>1, ListShape
<1>3. a \in Memory
  BY <1>2 DEF Places
<1>4. t \in 1..Len(s) /\ Len(s) \in Nat /\ Len(s) = N - q + 1 /\ x \in 1..N
  BY <1>2 DEF Left, Batched
<1>5. ASSUME NEW j \in 1..t
      PROVE  /\ q + j - 1 \in 1..N
             /\ reqs[s[j]].buf = list[q + j - 1].buf + off(j)
             /\ reqs[s[j]].block = list[q + j - 1].block + off(j)
             /\ reqs[s[j]].count = list[q + j - 1].count - off(j)
             /\ Blocks(s, j) \in Nat
             /\ j # t => Blocks(s, j) = list[q + j - 1].count - off(j)
  <2>1. j \in 1..Len(s)
    BY <1>4
  <2>2. q + j - 1 \in 1..N /\ reqs[s[j]] = Part(q + j - 1, off(j))
    BY <2>1 DEF Left
  <2>3. /\ reqs[s[j]].buf = list[q + j - 1].buf + off(j)
        /\ reqs[s[j]].block = list[q + j - 1].block + off(j)
        /\ reqs[s[j]].count = list[q + j - 1].count - off(j)
    BY <2>2 DEF Part
  <2>4. Blocks(s, j) \in Nat /\ (j # t => Blocks(s, j) = reqs[s[j]].count)
    BY DEF Batched
  <2> QED
    BY <2>2, <2>3, <2>4
<1>6. CASE \E j \in 1..t : Takes(s, j, a)
  <2>1. PICK j \in 1..t : Takes(s, j, a)
    BY <1>6
  <2>2. i = q + j - 1
    <3>1. a - list[i].buf \in 0..(list[i].count - 1)
      BY <1>2
    <3> HIDE DEF a
    <3> QED
      BY <3>1, <2>1, <1>1, <1>3, PlacesApart DEF Takes
  <2>3. mem'[a] = reqs[s[j]].block + (a - reqs[s[j]].buf)
    <3> HIDE DEF a
    <3> QED
      BY <2>1, <1>3, Delivers
  <2>4. reqs[s[j]].block = list[i].block + off(j) /\ reqs[s[j]].buf = list[i].buf + off(j)
    BY <2>2, <1>5
  <2> QED
    BY <2>3, <2>4, <1>2
<1>7. CASE ~ \E j \in 1..t : Takes(s, j, a)
  <2>1. mem'[a] = mem[a]
    <3> HIDE DEF a
    <3> QED
      BY <1>7, <1>3, Delivers
  <2>2. i < q \/ (i = q /\ k < n)
    <3> SUFFICES ASSUME ~ (i < q), i = q => ~ (k < n) PROVE FALSE
      OBVIOUS
    <3> DEFINE j == i - q + 1
    <3>0. i <= x /\ i >= q /\ i \in Nat /\ q \in Nat /\ t \in Nat /\ x = q + t - 1
      BY <1>2, <1>4
    <3>1. j \in 1..t /\ q + j - 1 = i /\ (j = 1 <=> i = q) /\ (j = t <=> i = x)
      BY <3>0
    <3> HIDE DEF j
    <3>2. /\ reqs[s[j]].buf = list[i].buf + off(j)
          /\ Blocks(s, j) \in Nat
          /\ j # t => Blocks(s, j) = list[i].count - off(j)
      BY <3>1, <1>5
    <3>3. off(j) <= k /\ off(j) \in Nat
      BY <3>1, <1>2
    <3>4. a - reqs[s[j]].buf = k - off(j)
      BY <3>2, <3>3, <1>2
    <3>5. k - off(j) < Blocks(s, j)
      <4>1. CASE j # t
        BY <4>1, <3>2, <3>3, <1>2
      <4>2. CASE j = t
        <5>1. i = x /\ o = off(j) /\ k < o + Blocks(s, j)
          BY <4>2, <3>1, <1>4
        <5> HIDE DEF off
        <5> QED
          BY <5>1, <3>2, <3>3, <1>2
      <4> QED
        BY <4>1, <4>2
    <3>6. Takes(s, j, a)
      <4> HIDE DEF off, a
      <4> QED
        BY <3>2, <3>3, <3>4, <3>5, <1>2 DEF Takes
    <3> QED
      BY <3>1, <3>6, <1>7
  <2> QED
    BY <2>1, <2>2 DEF Arrived
<1> QED
  BY <1>6, <1>7

LEMMA RemainderOfPart ==
  ASSUME NEW q, NEW o, NEW b
  PROVE  Remainder(Part(q, o), b) =
           [block |-> (list[q].block + o) + b, count |-> (list[q].count - o) - b,
            buf |-> (list[q].buf + o) + b, next |-> Successor(q)]
<1> DEFINE r == Part(q, o)
           R == Remainder(r, b)
<1>1. DOMAIN r = {"block", "count", "buf", "next"}
  BY DEF Part
<1>2. /\ R = [f \in DOMAIN R |-> R[f]] /\ DOMAIN R = DOMAIN r
      /\ R.block = r.block + b /\ R.count = r.count - b /\ R.buf = r.buf + b /\ R.next = r.next
  <2> HIDE DEF r
  <2> QED
    BY <1>1 DEF Remainder
<1>3. /\ r.block = list[q].block + o /\ r.count = list[q].count - o
      /\ r.buf = list[q].buf + o /\ r.next = Successor(q)
  BY DEF Part
<1> HIDE DEF R, r
<1>4. R = [block |-> (list[q].block + o) + b, count |-> (list[q].count - o) - b,
           buf |-> (list[q].buf + o) + b, next |-> Successor(q)]
  BY <1>1, <1>2, <1>3
<1> QED
  BY <1>4 DEF R, r

(* Where the loop goes on: in the private copy, at the next request, or    *)
(* nowhere.                                                                *)
Moves(x, o, b) ==
  /\ x \in 1..N /\ o \in Nat /\ b \in Nat \ {0}
  /\ o + b <= list[x].count
  /\ ReqShape'
  /\ o + b # list[x].count =>
       io_reqs' = Partial /\ pc' = "build" /\ Stands(Partial, x, o + b)'
  /\ o + b = list[x].count =>
       reqs' = reqs /\ io_reqs' = Successor(x) /\ pc' = IF x = N THEN "ok" ELSE "build"

LEMMA ConsumeMoves ==
  ASSUME IInv, Consume, NEW s, s = Chain(io_reqs), NEW q \in 1..N,
         NEW n \in 0..(list[q].count - 1), Left(s, q, n), NEW t, Batched(s, t),
         NEW x, x = q + t - 1, NEW o, o = (IF t = 1 THEN n ELSE 0), NEW b, b = Blocks(s, t)
  PROVE  Moves(x, o, b)
<1>1. ReqShape
  BY DEF IInv, Asked, Consume
<1>2. /\ N \in Nat \ {0} /\ n \in Nat
      /\ \A i \in 1..N : list[i].count \in Nat \ {0}
  BY <1>1, ListShape
<1>3. /\ t \in 1..Len(s) /\ Taken(s) = 1..t /\ Max(Taken(s)) = t
      /\ b \in Nat \ {0} /\ b <= reqs[s[t]].count
  BY DEF Batched, Left
<1>4. x \in 1..N /\ s[t] \in DOMAIN reqs /\ reqs[s[t]] = Part(x, o)
  BY <1>3 DEF Left
<1>5. o \in Nat /\ reqs[s[t]].count = list[x].count - o /\ reqs[s[t]].next = Successor(x)
  BY <1>2, <1>4 DEF Part
<1>6. o + b <= list[x].count /\ list[x].count \in Nat
  <2> DEFINE r == reqs[s[t]].count
             c == list[x].count
  <2>1. c \in Nat /\ r = c - o /\ b <= r /\ b \in Nat /\ o \in Nat
    BY <1>2, <1>3, <1>4, <1>5
  <2> HIDE DEF r, c
  <2>2. o + b <= c
    BY <2>1
  <2> QED
    BY <2>1, <2>2 DEF c
<1>7. list' = list /\ N' = N
  BY DEF Consume, N
<1>8. IF reqs[s[t]].count > b THEN Continue(s[t], b)
      ELSE io_reqs' = reqs[s[t]].next /\ UNCHANGED reqs
  BY <1>3 DEF Consume
<1>9. pc' = IF io_reqs' = Null THEN "ok" ELSE "build"
  BY DEF Consume
<1>10. CASE o + b = list[x].count
  <2>1. ~ (reqs[s[t]].count > b)
    BY <1>10, <1>3, <1>5, <1>6
  <2>2. reqs' = reqs /\ io_reqs' = Successor(x)
    BY <2>1, <1>5, <1>8
  <2>3. Successor(x) = Null <=> x = N
    BY <1>2, <1>4 DEF Successor, Null
  <2>4. ReqShape'
    BY <2>2, <1>1, <1>7 DEF ReqShape, Part, Successor, N
  <2> QED
    BY <2>2, <2>3, <2>4, <1>3, <1>4, <1>5, <1>6, <1>9, <1>10 DEF Moves
<1>11. CASE o + b # list[x].count
  <2>1. reqs[s[t]].count > b
    BY <1>11, <1>3, <1>5, <1>6
  <2>2. /\ io_reqs' = Partial
        /\ reqs' = [i \in DOMAIN reqs \cup {Partial} |->
                      IF i = Partial THEN Remainder(reqs[s[t]], b) ELSE reqs[i]]
    BY <2>1, <1>8 DEF Continue
  <2>3. reqs'[Partial] = Part(x, o + b)
    <3>1. reqs'[Partial] = Remainder(Part(x, o), b)
      BY <2>2, <1>4
    <3>2. list[x].block \in Nat /\ list[x].buf \in Nat /\ list[x].count \in Nat
      BY <1>1, <1>4, ListShape
    <3>3. Remainder(Part(x, o), b) =
            [block |-> (list[x].block + o) + b, count |-> (list[x].count - o) - b,
             buf |-> (list[x].buf + o) + b, next |-> Successor(x)]
      BY RemainderOfPart
    <3>4. /\ (list[x].block + o) + b = list[x].block + (o + b)
          /\ (list[x].count - o) - b = list[x].count - (o + b)
          /\ (list[x].buf + o) + b = list[x].buf + (o + b)
      <4>1. \A y, o1, b1 \in Nat : (y + o1) + b1 = y + (o1 + b1) /\ (y - o1) - b1 = y - (o1 + b1)
        OBVIOUS
      <4> QED
        BY <4>1, <3>2, <1>3, <1>5
    <3> QED
      BY <3>1, <3>3, <3>4 DEF Part
  <2>4. DOMAIN reqs' = 0..N
    BY <2>2, <1>1, <1>2 DEF ReqShape, Partial
  <2>5. \A i \in 1..N : reqs'[i] = Part(i, 0)
    BY <2>2, <1>1, <1>2 DEF ReqShape, Partial
  <2>6. o + b \in 1..(list[x].count - 1) /\ o + b \in 0..(list[x].count - 1)
    BY <1>3, <1>5, <1>6, <1>11
  <2>7. \A i, m : Part(i, m)' = Part(i, m)
    BY <1>7 DEF Part, Successor
  <2>8. ReqShape'
    <3>1. list' \in Lists /\ DOMAIN reqs' \in {1..N', 0..N'}
      BY <2>4, <1>1, <1>7 DEF ReqShape
    <3>2. \A i \in 1..N' : reqs'[i] = Part(i, 0)'
      BY <2>5, <2>7, <1>7
    <3>3. reqs'[Partial] = Part(x, o + b)' /\ x \in 1..N' /\ o + b \in 1..(list'[x].count - 1)
      BY <2>3, <2>6, <2>7, <1>4, <1>7
    <3> QED
      BY <3>1, <3>2, <3>3 DEF ReqShape
  <2>9. Stands(Partial, x, o + b)'
    <3>1. Partial \in DOMAIN reqs'
      BY <2>2
    <3> QED
      BY <3>1, <2>3, <2>6, <2>7, <1>4, <1>7 DEF Stands
  <2>10. pc' = "build"
    BY <2>2, <1>9 DEF Partial, Null
  <2> QED
    BY <2>2, <2>8, <2>9, <2>10, <1>3, <1>4, <1>5, <1>6, <1>11 DEF Moves
<1> QED
  BY <1>10, <1>11
-----------------------------------------------------------------------------
(* The inductive invariant.                                                *)

LEMMA BatchTypes ==
  ASSUME IInv, pc \in {"build", "bios", "copy"}, NEW b, b = BatchOf(Chain(io_reqs))
  PROVE  /\ Len(b) \in Nat \ {0} /\ DOMAIN b = 1..Len(b) /\ Len(b) <= MaxReqs
         /\ \A j \in 1..Len(b) : /\ b[j].at \in Nat /\ b[j].count \in Nat \ {0}
                                 /\ b[j].at + b[j].count <= MaxBlocks
         /\ \A j, k \in 1..Len(b) : j < k => b[j].at + b[j].count <= b[k].at
<1> DEFINE s == Chain(io_reqs)
<1>1. ReqShape
  BY DEF IInv, Asked
<1>2. PICK q \in 1..N : \E n \in 0..(list[q].count - 1) : Stands(io_reqs, q, n) /\ Arrived(q, n)
  BY DEF IInv, Progress, Reading
<1>3. PICK n \in 0..(list[q].count - 1) : Stands(io_reqs, q, n)
  BY <1>2
<1>4. Left(s, q, n) /\ \E t \in 1..Len(s) : Batched(s, t)
  BY <1>1, <1>3, LeftIs
<1>5. PICK t \in 1..Len(s) : Batched(s, t)
  BY <1>4
<1> HIDE DEF s
<1>6. /\ Taken(s) = 1..t /\ t \in Nat \ {0} /\ t <= MaxReqs
      /\ \A j \in 1..t : /\ Before(s, j) \in Nat /\ Blocks(s, j) \in Nat \ {0}
                         /\ Before(s, j) + Blocks(s, j) <= MaxBlocks
      /\ \A j, k \in 1..t : j < k => Before(s, j) + Blocks(s, j) <= Before(s, k)
  BY <1>4, <1>5 DEF Batched, Left
<1>7. b = [j \in 1..t |-> [block |-> reqs[s[j]].block, count |-> Blocks(s, j), at |-> Before(s, j)]]
  BY <1>6 DEF BatchOf, s
<1>8. Len(b) = t
  <2> DEFINE B == [block : {reqs[s[j]].block : j \in 1..t}, count : Nat, at : Nat]
  <2>1. t \in Nat
    BY <1>6
  <2>2. ASSUME NEW j \in 1..t
        PROVE  [block |-> reqs[s[j]].block, count |-> Blocks(s, j), at |-> Before(s, j)] \in B
    BY <1>6
  <2> HIDE DEF B
  <2>3. b \in [1..t -> B]
    BY <1>7, <2>2
  <2>4. b \in Seq(B)
    BY <2>1, <2>3
  <2> QED
    BY <2>1, <2>3, <2>4
<1>9. \A j \in 1..t : b[j].at = Before(s, j) /\ b[j].count = Blocks(s, j)
  BY <1>7
<1> QED
  BY <1>6, <1>7, <1>8, <1>9

LEMMA InitInv == Init => IInv
<1> SUFFICES ASSUME Init PROVE IInv
  OBVIOUS
<1> USE DEF Init
<1>1. Sorts
  BY DEF Sorts
<1>2. BatchFits
  BY BiosAssumption DEF BatchFits
<1>3. Asked
  BY DEF Asked
<1>4. Progress
  BY DEF Progress, Reading
<1>5. Batching
  BY DEF Batching
<1> QED
  BY <1>1, <1>2, <1>3, <1>4, <1>5 DEF IInv

LEMMA StartInv == IInv /\ Start => IInv'
<1> SUFFICES ASSUME IInv, Start PROVE IInv'
  OBVIOUS
<1>1. Sorts'
  BY DEF IInv, Start, Sorts
<1>2. BatchFits'
  BY DEF IInv, Start, BatchFits
<1> DEFINE l == list'
<1>3. l \in Lists /\ N' = Len(l) /\ pc' = "build" /\ io_reqs' = 1
  BY DEF Start, N
<1>4. /\ Len(l) \in Nat \ {0} /\ DOMAIN l = 1..Len(l)
      /\ \A i \in 1..Len(l) : l[i].block \in Nat /\ l[i].count \in Nat \ {0} /\ l[i].buf \in Nat
  BY <1>3, ListFacts
<1>5. reqs' = [i \in 1..Len(l) |->
                [block |-> l[i].block, count |-> l[i].count, buf |-> l[i].buf,
                 next |-> IF i = Len(l) THEN Null ELSE i + 1]]
  BY <1>4 DEF Start
<1>6. \A i \in 1..Len(l) : reqs'[i] = Part(i, 0)'
  BY <1>3, <1>4, <1>5 DEF Part, Successor
<1>7. ReqShape'
  BY <1>3, <1>4, <1>5, <1>6 DEF ReqShape, Partial
<1>8. Asked'
  BY <1>3, <1>7 DEF Asked
<1>9. Stands(1, 1, 0)' /\ Arrived(1, 0)'
  BY <1>3, <1>4, <1>5, <1>6 DEF Stands, Arrived
<1>10. Progress'
  <2>1. 1 \in 1..N' /\ 0 \in 0..(l[1].count - 1)
    BY <1>3, <1>4
  <2> QED
    BY <2>1, <1>3, <1>9 DEF Progress
<1>11. Batching'
  BY <1>3 DEF IInv, Start, Batching
<1> QED
  BY <1>1, <1>2, <1>8, <1>10, <1>11 DEF IInv

(* Nothing but the bounce buffer, the counters and pc.                     *)
LEMMA Stays ==
  ASSUME UNCHANGED <<list, reqs, io_reqs, mem>>
  PROVE  /\ ReqShape' = ReqShape
         /\ BatchOf(Chain(io_reqs))' = BatchOf(Chain(io_reqs))
         /\ N' = N
         /\ \A q, n : Stands(io_reqs, q, n)' = Stands(io_reqs, q, n) /\ Arrived(q, n)' = Arrived(q, n)
<1>1. N' = N
  BY DEF N
<1>2. \A q, n : Part(q, n)' = Part(q, n)
  BY <1>1 DEF Part, Successor
<1>3. ReqShape' = ReqShape
  BY <1>1, <1>2 DEF ReqShape
<1>4. BatchOf(Chain(io_reqs))' = BatchOf(Chain(io_reqs))
  BY DEF BatchOf, Chain, Taken, Blocks, Before
<1>5. \A q, n : Stands(io_reqs, q, n)' = Stands(io_reqs, q, n)
  BY <1>1, <1>2 DEF Stands
<1>6. \A q, n : Arrived(q, n)' = Arrived(q, n)
  BY <1>1 DEF Arrived
<1> QED
  BY <1>1, <1>3, <1>4, <1>5, <1>6

LEMMA BuildInv == IInv /\ Build => IInv'
<1> SUFFICES ASSUME IInv, Build PROVE IInv'
  OBVIOUS
<1> DEFINE s == Chain(io_reqs)
<1>0. UNCHANGED <<list, reqs, io_reqs, bounce, mem>> /\ called' = 0 /\ pc = "build" /\ pc' = "bios"
  BY DEF Build
<1>1. batch' = BatchOf(s)
  BY DEF Build, BatchOf
<1>2. /\ Len(batch') \in Nat \ {0} /\ DOMAIN batch' = 1..Len(batch') /\ Len(batch') <= MaxReqs
      /\ \A j \in 1..Len(batch') : batch'[j].at + batch'[j].count <= MaxBlocks
      /\ \A j, k \in 1..Len(batch') : j < k => batch'[j].at + batch'[j].count <= batch'[k].at
  <2> HIDE DEF s
  <2> QED
    BY <1>0, <1>1, BatchTypes DEF s
<1>3. BatchFits'
  BY <1>2 DEF BatchFits
<1>4. Sorts'
  BY <1>0 DEF IInv, Sorts
<1>5. Asked'
  BY <1>0, Stays DEF IInv, Asked
<1>6. Progress'
  BY <1>0, Stays DEF IInv, Progress, Reading
<1>7. Batching'
  <2>1. batch' = BatchOf(Chain(io_reqs))'
    BY <1>0, <1>1, Stays
  <2>2. Bounced'
    BY <1>0 DEF Bounced
  <2> QED
    BY <2>1, <2>2, <1>0, <1>2 DEF Batching
<1> QED
  BY <1>3, <1>4, <1>5, <1>6, <1>7 DEF IInv

LEMMA BiosReadsInv == IInv /\ BiosReads => IInv'
<1> SUFFICES ASSUME IInv, BiosReads PROVE IInv'
  OBVIOUS
<1> DEFINE r == batch[called + 1]
<1>0. /\ UNCHANGED <<pc, list, reqs, io_reqs, batch, mem>>
      /\ called' = called + 1 /\ called < Len(batch) /\ pc = "bios" /\ pc' = "bios"
  BY DEF BiosReads
<1>1. called \in Nat /\ bounce = [k \in 0..(MaxBlocks - 1) |-> bounce[k]] /\ MaxBlocks \in Nat
  BY BiosAssumption DEF IInv, Sorts
<1>2. batch = BatchOf(Chain(io_reqs)) /\ Bounced
  BY <1>0 DEF IInv, Batching
<1>3. /\ Len(batch) \in Nat /\ called + 1 \in 1..Len(batch)
      /\ \A j \in 1..Len(batch) : /\ batch[j].at \in Nat /\ batch[j].count \in Nat \ {0}
                                  /\ batch[j].at + batch[j].count <= MaxBlocks
      /\ \A j, k \in 1..Len(batch) : j < k => batch[j].at + batch[j].count <= batch[k].at
  BY <1>0, <1>1, <1>2, BatchTypes
<1>4. bounce' = [k \in 0..(MaxBlocks - 1) |->
                   IF k \in r.at..(r.at + r.count - 1) THEN r.block + (k - r.at) ELSE bounce[k]]
  BY <1>1 DEF BiosReads
<1>5. ASSUME NEW j \in 1..(called + 1), NEW k \in 0..(batch[j].count - 1)
      PROVE  bounce'[batch[j].at + k] = batch[j].block + k
  <2> DEFINE a == batch[j].at + k
  <2>1. j \in 1..Len(batch) /\ j \in Nat
    BY <1>0, <1>1, <1>3
  <2>2. /\ batch[j].at \in Nat /\ batch[j].count \in Nat
        /\ batch[j].at + batch[j].count <= MaxBlocks
    BY <2>1, <1>3
  <2>3. a \in 0..(MaxBlocks - 1)
    BY <2>2, <1>1
  <2>4. CASE j = called + 1
    <3>1. a \in r.at..(r.at + r.count - 1) /\ a - r.at = k
      BY <2>2, <2>4
    <3>2. bounce'[a] = batch[j].block + k
      <4> HIDE DEF a
      <4> QED
        BY <3>1, <2>3, <2>4, <1>4
    <3> QED
      BY <3>2
  <2>5. CASE j # called + 1
    <3>1. j \in 1..called /\ j < called + 1
      BY <2>5, <1>1
    <3>2. batch[j].at + batch[j].count <= r.at /\ r.at \in Nat
      BY <3>1, <2>1, <1>3
    <3>3. a \notin r.at..(r.at + r.count - 1)
      BY <3>2, <2>2
    <3>4. bounce'[a] = bounce[a]
      <4> HIDE DEF a
      <4> QED
        BY <3>3, <2>3, <1>4
    <3>5. bounce[a] = batch[j].block + k
      BY <3>1, <1>2 DEF Bounced
    <3> QED
      BY <3>4, <3>5, Zenon
  <2> QED
    BY <2>4, <2>5
<1>6. Sorts'
  BY <1>0, <1>1, <1>4 DEF IInv, Sorts
<1>7. BatchFits'
  BY <1>0 DEF IInv, BatchFits
<1>8. Asked' /\ Progress'
  BY <1>0, Stays DEF IInv, Asked, Progress, Reading
<1>9. Batching'
  <2>1. batch' = BatchOf(Chain(io_reqs))'
    BY <1>0, <1>2, Stays
  <2>2. Bounced'
    BY <1>0, <1>5 DEF Bounced
  <2>3. called' <= Len(batch')
    BY <1>0, <1>3
  <2> QED
    BY <2>1, <2>2, <2>3, <1>0 DEF Batching
<1> QED
  BY <1>6, <1>7, <1>8, <1>9 DEF IInv

LEMMA BiosAnswersInv == IInv /\ (BiosFails \/ BiosReturns) => IInv'
<1> SUFFICES ASSUME IInv, BiosFails \/ BiosReturns PROVE IInv'
  OBVIOUS
<1>0. /\ UNCHANGED <<list, reqs, io_reqs, batch, called, bounce, mem>> /\ pc = "bios"
      /\ pc' = "error" \/ (pc' = "copy" /\ called = Len(batch))
  BY DEF BiosFails, BiosReturns
<1>1. Sorts' /\ BatchFits'
  BY <1>0 DEF IInv, Sorts, BatchFits
<1>2. Asked'
  BY <1>0, Stays DEF IInv, Asked
<1>3. Progress'
  BY <1>0, Stays DEF IInv, Progress, Reading
<1>4. Batching'
  <2>1. Bounced' = Bounced
    BY <1>0 DEF Bounced
  <2>2. BatchOf(Chain(io_reqs))' = BatchOf(Chain(io_reqs))
    BY <1>0, Stays
  <2> QED
    BY <2>1, <2>2, <1>0 DEF IInv, Batching
<1> QED
  BY <1>1, <1>2, <1>3, <1>4 DEF IInv

LEMMA ConsumeInv == IInv /\ Consume => IInv'
<1> SUFFICES ASSUME IInv, Consume PROVE IInv'
  OBVIOUS
<1> DEFINE s == Chain(io_reqs)
<1>0. UNCHANGED <<list, batch, called, bounce>> /\ pc = "copy" /\ N' = N
  BY DEF Consume, N
<1>1. ReqShape
  BY <1>0 DEF IInv, Asked
<1>2. PICK q \in 1..N : \E n \in 0..(list[q].count - 1) : Stands(io_reqs, q, n) /\ Arrived(q, n)
  BY <1>0 DEF IInv, Progress, Reading
<1>3. PICK n \in 0..(list[q].count - 1) : Stands(io_reqs, q, n) /\ Arrived(q, n)
  BY <1>2
<1>4. Left(s, q, n) /\ \E t \in 1..Len(s) : Batched(s, t)
  BY <1>1, <1>3, LeftIs
<1>5. PICK t \in 1..Len(s) : Batched(s, t)
  BY <1>4
<1>6. PICK x, o, b : x = q + t - 1 /\ o = (IF t = 1 THEN n ELSE 0) /\ b = Blocks(s, t)
  OBVIOUS
<1> HIDE DEF s
<1>7. /\ x \in 1..N /\ o \in Nat /\ b \in Nat \ {0}
      /\ o + b <= list[x].count
      /\ ReqShape'
      /\ o + b # list[x].count =>
           io_reqs' = Partial /\ pc' = "build" /\ Stands(Partial, x, o + b)'
      /\ o + b = list[x].count =>
           reqs' = reqs /\ io_reqs' = Successor(x) /\ pc' = IF x = N THEN "ok" ELSE "build"
  <2>1. Moves(x, o, b)
    BY <1>4, <1>5, <1>6, ConsumeMoves DEF s
  <2> QED
    BY <2>1 DEF Moves
<1>8. \A i \in 1..N : \A k \in 0..(list[i].count - 1) :
        i < x \/ (i = x /\ k < o + b) => mem'[list[i].buf + k] = list[i].block + k
  <2>1. /\ s = Chain(io_reqs) /\ Left(s, q, n) /\ Batched(s, t) /\ Arrived(q, n)
        /\ x = q + t - 1 /\ o = (IF t = 1 THEN n ELSE 0)
    BY <1>3, <1>4, <1>5, <1>6 DEF s
  <2>2. \A i \in 1..N : \A k \in 0..(list[i].count - 1) :
          i < x \/ (i = x /\ k < o + Blocks(s, t)) => mem'[list[i].buf + k] = list[i].block + k
    BY <2>1, ConsumeArrives
  <2> QED
    BY <2>2, <1>6
<1>9. N \in Nat \ {0} /\ \A i \in 1..N : list[i].count \in Nat \ {0}
  BY <1>1, ListShape
<1>10. Sorts'
  <2>1. mem' = [a \in Memory |-> mem'[a]]
    BY DEF Consume
  <2>2. pc' \in {"ok", "build"}
    BY <1>7
  <2> QED
    BY <2>1, <2>2, <1>0 DEF IInv, Sorts
<1>11. BatchFits'
  BY <1>0 DEF IInv, BatchFits
<1>12. Asked'
  <2>1. pc' = "ok" => io_reqs' = Null
    BY <1>7 DEF Successor
  <2>2. pc' \in {"ok", "build"}
    BY <1>7
  <2> QED
    BY <2>1, <2>2, <1>7 DEF Asked
<1>13. Progress'
  <2>1. CASE o + b # list[x].count
    <3>1. Arrived(x, o + b)'
      BY <1>0, <1>8 DEF Arrived
    <3>2. o + b \in 0..(list[x].count - 1)
      BY <2>1, <1>7, <1>9
    <3>3. Stands(io_reqs, x, o + b)'
      BY <2>1, <1>7
    <3>4. x \in 1..N' /\ o + b \in 0..(list'[x].count - 1)
      BY <3>2, <1>0, <1>7
    <3> QED
      BY <3>1, <3>3, <3>4 DEF Progress
  <2>2. CASE o + b = list[x].count /\ x # N
    <3>1. io_reqs' = x + 1 /\ reqs' = reqs /\ x + 1 \in 1..N
      BY <2>2, <1>7, <1>9 DEF Successor
    <3>2. Arrived(x + 1, 0)'
      <4> SUFFICES ASSUME NEW i \in 1..N, NEW k \in 0..(list[i].count - 1),
                          i < x + 1 \/ (i = x + 1 /\ k < 0)
                   PROVE  mem'[list[i].buf + k] = list[i].block + k
        BY <1>0 DEF Arrived
      <4>1. i < x \/ (i = x /\ k < o + b)
        BY <2>2, <1>7, <1>9
      <4> QED
        BY <4>1, <1>8
    <3>3. 0 \in 0..(list'[x + 1].count - 1) /\ x + 1 \in 1..N'
      BY <3>1, <1>0, <1>9
    <3>4. Stands(io_reqs, x + 1, 0)'
      <4>1. reqs[x + 1] = Part(x + 1, 0) /\ x + 1 \in DOMAIN reqs
        BY <3>1, <1>1, <1>9 DEF ReqShape
      <4>2. Part(x + 1, 0)' = Part(x + 1, 0)
        BY <1>0 DEF Part, Successor
      <4> QED
        BY <4>1, <4>2, <3>1, <3>3 DEF Stands
    <3> QED
      BY <3>2, <3>3, <3>4 DEF Progress
  <2>3. CASE o + b = list[x].count /\ x = N
    BY <2>3, <1>7 DEF Progress, Reading
  <2> QED
    BY <2>1, <2>2, <2>3
<1>14. Batching'
  <2>1. pc' \in {"ok", "build"}
    BY <1>7
  <2> QED
    BY <2>1, <1>0 DEF IInv, Batching
<1> QED
  BY <1>10, <1>11, <1>12, <1>13, <1>14 DEF IInv

LEMMA NextInv == IInv /\ [Next]_vars => IInv'
<1> SUFFICES ASSUME IInv, [Next]_vars PROVE IInv'
  OBVIOUS
<1>1. CASE Start
  BY <1>1, StartInv
<1>2. CASE Build
  BY <1>2, BuildInv
<1>3. CASE BiosReads
  BY <1>3, BiosReadsInv
<1>4. CASE BiosFails \/ BiosReturns
  BY <1>4, BiosAnswersInv
<1>5. CASE Consume
  BY <1>5, ConsumeInv
<1>6. CASE UNCHANGED vars
  <2>1. UNCHANGED <<pc, list, reqs, io_reqs, batch, called, bounce, mem>>
    BY <1>6 DEF vars
  <2>2. Sorts' /\ BatchFits'
    BY <2>1 DEF IInv, Sorts, BatchFits
  <2>3. Asked' /\ Progress'
    BY <2>1, Stays DEF IInv, Asked, Progress, Reading
  <2>4. Bounced' = Bounced
    BY <2>1 DEF Bounced
  <2>5. BatchOf(Chain(io_reqs))' = BatchOf(Chain(io_reqs))
    BY <2>1, Stays
  <2>6. Batching'
    BY <2>1, <2>4, <2>5 DEF IInv, Batching
  <2> QED
    BY <2>2, <2>3, <2>6 DEF IInv
<1> QED
  BY <1>1, <1>2, <1>3, <1>4, <1>5, <1>6 DEF Next, Read

(* The loop of biosDiskRead always stands at what is left of the caller's  *)
(* list, and all before that has arrived.                                  *)
THEOREM BiosInvariant == Spec => []IInv
BY InitInv, NextInv, PTL DEF Spec

(* However the requests are cut, a batch fits the table of the BIOS and    *)
(* the bounce buffer (bios.c:87-106).                                      *)
THEOREM BiosBatchFits == Spec => []BatchFits
<1>1. IInv => BatchFits
  BY DEF IInv
<1> QED
  BY <1>1, BiosInvariant, PTL

(* The caller finds its requests as it passed them (bios.c:132-144).       *)
THEOREM BiosKeepsRequests == Spec => []CallerRequestsKept
<1>1. IInv => CallerRequestsKept
  <2> SUFFICES ASSUME IInv, pc # "idle", NEW i \in DOMAIN list
               PROVE  /\ reqs[i].block = list[i].block
                      /\ reqs[i].count = list[i].count
                      /\ reqs[i].buf = list[i].buf
    BY DEF CallerRequestsKept
  <2>1. ReqShape
    BY DEF IInv, Asked
  <2>2. i \in 1..N /\ list[i].block \in Nat /\ list[i].count \in Nat /\ list[i].buf \in Nat
    BY <2>1, ListShape
  <2>3. reqs[i] = Part(i, 0)
    BY <2>1, <2>2 DEF ReqShape
  <2> QED
    BY <2>2, <2>3 DEF Part
<1> QED
  BY <1>1, BiosInvariant, PTL

(* Every state of the loop is one its variables can hold.                  *)
THEOREM BiosTypes == Spec => []TypeOK
<1>1. IInv => TypeOK
  <2> SUFFICES ASSUME IInv PROVE TypeOK
    OBVIOUS
  <2>1. DOMAIN mem = Memory
    BY DEF IInv, Sorts
  <2>2. CASE pc = "idle"
    BY <2>1, <2>2 DEF IInv, Sorts, Asked, Batching, TypeOK
  <2>3. CASE pc # "idle"
    <3>1. ReqShape
      BY <2>3 DEF IInv, Asked
    <3>2. N \in Nat \ {0} /\ DOMAIN list = 1..N
      BY <3>1, ListShape
    <3>3. DOMAIN reqs \subseteq {Partial} \cup DOMAIN list
      BY <3>1, <3>2 DEF ReqShape, Partial
    <3>4. io_reqs \in DOMAIN reqs \cup {Null}
      BY <2>3 DEF IInv, Sorts, Asked, Progress, Reading, Stands
    <3>5. ASSUME NEW i \in DOMAIN reqs
          PROVE  reqs[i].count > 0 /\ reqs[i].next \in DOMAIN list \cup {Null}
      <4>1. PICK q \in 1..N : \E n \in 0..(list[q].count - 1) : Stands(i, q, n)
        BY <3>1, StandsSomewhere
      <4>2. PICK n \in 0..(list[q].count - 1) : Stands(i, q, n)
        BY <4>1
      <4>3. reqs[i] = Part(q, n)
        BY <4>2 DEF Stands
      <4>4. list[q].count \in Nat
        BY <3>1, ListShape
      <4>5. reqs[i].count = list[q].count - n /\ reqs[i].next = Successor(q)
        BY <4>3 DEF Part
      <4>6. reqs[i].count > 0
        BY <4>4, <4>5
      <4>7. Successor(q) \in DOMAIN list \cup {Null}
        BY <3>2 DEF Successor
      <4> QED
        BY <4>5, <4>6, <4>7
    <3>6. called \in 0..Len(batch)
      <4>1. called \in Nat /\ called <= Len(batch)
        BY DEF IInv, Sorts, Batching
      <4> QED
        BY <4>1
    <3> QED
      BY <2>1, <3>3, <3>4, <3>5, <3>6 DEF IInv, Sorts, TypeOK
  <2> QED
    BY <2>2, <2>3
<1> QED
  BY <1>1, BiosInvariant, PTL
-----------------------------------------------------------------------------
(* The refinement.  A batch copied out is a delivery of its blocks; every  *)
(* other step of the loop is unseen, or an answer.                         *)

(* The blocks a list wants are each for a place of their own.              *)
LEMMA WantedOnce ==
  ASSUME ReqShape
  PROVE  /\ \A w \in Service!Wanted(list) :
              \E i \in 1..N : \E k \in 0..(list[i].count - 1) :
                w = [place |-> list[i].buf + k, block |-> list[i].block + k]
         /\ \A i \in 1..N : \A k \in 0..(list[i].count - 1) :
              [place |-> list[i].buf + k, block |-> list[i].block + k] \in Service!Wanted(list)
         /\ \A v, w \in Service!Wanted(list) : v.place = w.place => v = w
<1>1. /\ DOMAIN list = 1..N /\ N \in Nat
      /\ \A i \in 1..N : /\ list[i].block \in Nat /\ list[i].count \in Nat \ {0}
                         /\ list[i].buf \in Nat
      /\ \A i, j \in 1..N : i # j => Places(list[i]) \cap Places(list[j]) = {}
  BY ListShape
<1>2. \A w \in Service!Wanted(list) :
        \E i \in 1..N : \E k \in 0..(list[i].count - 1) :
          w = [place |-> list[i].buf + k, block |-> list[i].block + k]
  BY <1>1 DEF Service!Wanted
<1>3. \A i \in 1..N : \A k \in 0..(list[i].count - 1) :
        [place |-> list[i].buf + k, block |-> list[i].block + k] \in Service!Wanted(list)
  <2> SUFFICES ASSUME NEW i \in 1..N, NEW k \in 0..(list[i].count - 1)
               PROVE  [place |-> list[i].buf + k, block |-> list[i].block + k]
                        \in Service!Wanted(list)
    OBVIOUS
  <2> DEFINE W(j) == {[place |-> list[j].buf + m, block |-> list[j].block + m] :
                        m \in 0..(list[j].count - 1)}
  <2>1. [place |-> list[i].buf + k, block |-> list[i].block + k] \in W(i)
    OBVIOUS
  <2>2. Service!Wanted(list) = UNION {W(j) : j \in 1..N}
    BY <1>1 DEF Service!Wanted
  <2> HIDE DEF W
  <2> QED
    BY <2>1, <2>2
<1>4. ASSUME NEW v \in Service!Wanted(list), NEW w \in Service!Wanted(list), v.place = w.place
      PROVE  v = w
  <2>1. PICK i \in 1..N : \E k \in 0..(list[i].count - 1) :
          v = [place |-> list[i].buf + k, block |-> list[i].block + k]
    BY <1>2
  <2>2. PICK k \in 0..(list[i].count - 1) :
          v = [place |-> list[i].buf + k, block |-> list[i].block + k]
    BY <2>1
  <2>3. PICK j \in 1..N : \E m \in 0..(list[j].count - 1) :
          w = [place |-> list[j].buf + m, block |-> list[j].block + m]
    BY <1>2
  <2>4. PICK m \in 0..(list[j].count - 1) :
          w = [place |-> list[j].buf + m, block |-> list[j].block + m]
    BY <2>3
  <2>5. list[i].buf + k = list[j].buf + m
    BY <2>2, <2>4, <1>4
  <2>6. /\ list[i].buf \in Nat /\ list[j].buf \in Nat
        /\ list[i].count \in Nat /\ list[j].count \in Nat
    BY <1>1
  <2>7. list[i].buf + k \in Places(list[i]) /\ list[j].buf + m \in Places(list[j])
    BY <2>6 DEF Places
  <2>8. i = j
    BY <2>5, <2>7, <1>1
  <2>9. k = m
    BY <2>5, <2>6, <2>8
  <2> QED
    BY <2>2, <2>4, <2>8, <2>9
<1> QED
  BY <1>2, <1>3, <1>4

(* The blocks of a batch.                                                  *)
Copied(s, t) ==
  UNION {{[place |-> reqs[s[j]].buf + k, block |-> reqs[s[j]].block + k] :
            k \in 0..(Blocks(s, j) - 1)} : j \in 1..t}

LEMMA ConsumeDelivers == IInv /\ IInv' /\ Consume => Service!Deliver
<1> SUFFICES ASSUME IInv, IInv', Consume PROVE Service!Deliver
  OBVIOUS
<1> DEFINE s == Chain(io_reqs)
<1>0. UNCHANGED <<list, batch, called, bounce>> /\ pc = "copy" /\ N' = N
  BY DEF Consume, N
<1>1. ReqShape /\ Memory \subseteq Nat
  BY <1>0, BiosAssumption DEF IInv, Asked
<1>2. PICK q \in 1..N : \E n \in 0..(list[q].count - 1) : Stands(io_reqs, q, n) /\ Arrived(q, n)
  BY <1>0 DEF IInv, Progress, Reading
<1>3. PICK n \in 0..(list[q].count - 1) : Stands(io_reqs, q, n) /\ Arrived(q, n)
  BY <1>2
<1>4. Left(s, q, n) /\ \E t \in 1..Len(s) : Batched(s, t)
  BY <1>1, <1>3, LeftIs
<1>5. PICK t \in 1..Len(s) : Batched(s, t)
  BY <1>4
<1> DEFINE arrived == Copied(s, t)
<1> HIDE DEF s
<1>6. ASSUME NEW j \in 1..t, NEW k \in 0..(Blocks(s, j) - 1)
      PROVE  [place |-> reqs[s[j]].buf + k, block |-> reqs[s[j]].block + k] \in Service!Wanted(list)
  <2> DEFINE x == q + j - 1
             o == IF j = 1 THEN n ELSE 0
  <2>1. j \in 1..Len(s)
    BY <1>4, <1>5 DEF Left
  <2>2. x \in 1..N /\ reqs[s[j]] = Part(x, o)
    BY <2>1, <1>4 DEF Left
  <2>3. /\ reqs[s[j]].buf = list[x].buf + o /\ reqs[s[j]].block = list[x].block + o
        /\ reqs[s[j]].count = list[x].count - o /\ o \in Nat
    BY <2>2 DEF Part
  <2>4. /\ list[x].block \in Nat /\ list[x].count \in Nat /\ list[x].buf \in Nat
    BY <1>1, <2>2, ListShape
  <2>5. Blocks(s, j) \in Nat /\ Blocks(s, j) <= reqs[s[j]].count
    BY <1>5 DEF Batched
  <2> HIDE DEF x, o
  <2>6. o + k \in 0..(list[x].count - 1)
    <3>1. \A y, c \in Nat : y <= c - o /\ k \in 0..(y - 1) => o + k \in 0..(c - 1)
      BY <2>3
    <3>2. Blocks(s, j) <= list[x].count - o
      BY <2>3, <2>5
    <3> QED
      BY <3>1, <3>2, <2>4, <2>5
  <2>7. /\ reqs[s[j]].buf + k = list[x].buf + (o + k)
        /\ reqs[s[j]].block + k = list[x].block + (o + k)
    <3>1. k \in Nat
      BY <2>5
    <3>2. \A y \in Nat : (y + o) + k = y + (o + k)
      BY <3>1, <2>3
    <3> QED
      BY <3>2, <2>3, <2>4
  <2> QED
    BY <2>2, <2>6, <2>7, <1>1, WantedOnce
<1>7. arrived \in SUBSET Service!Wanted(list)
  BY <1>6 DEF Copied
<1>8. ASSUME NEW a \in Memory
      PROVE  mem'[a] = IF \E w \in arrived : w.place = a
                       THEN (CHOOSE w \in arrived : w.place = a).block
                       ELSE mem[a]
  <2>1. ASSUME NEW j \in 1..t
        PROVE  reqs[s[j]].buf \in Nat /\ Blocks(s, j) \in Nat
    <3>0. Blocks(s, j) \in Nat
      BY <1>5 DEF Batched
    <3>1. j \in 1..Len(s)
      BY <1>4, <1>5 DEF Left
    <3>2. q + j - 1 \in 1..N /\ reqs[s[j]] = Part(q + j - 1, IF j = 1 THEN n ELSE 0)
      BY <3>1, <1>4 DEF Left
    <3>3. list[q + j - 1].buf \in Nat
      BY <1>1, <3>2, ListShape
    <3>4. reqs[s[j]].buf = list[q + j - 1].buf + (IF j = 1 THEN n ELSE 0)
      BY <3>2 DEF Part
    <3> QED
      BY <3>0, <3>1, <3>3, <3>4
  <2>2. CASE \E j \in 1..t : Takes(s, j, a)
    <3>1. PICK j \in 1..t : Takes(s, j, a)
      BY <2>2
    <3>2. mem'[a] = reqs[s[j]].block + (a - reqs[s[j]].buf)
      BY <3>1, <1>4, <1>5, Delivers DEF s
    <3> DEFINE k == a - reqs[s[j]].buf
               w == [place |-> reqs[s[j]].buf + k, block |-> reqs[s[j]].block + k]
    <3>3. k \in 0..(Blocks(s, j) - 1) /\ reqs[s[j]].buf + k = a
      <4>1. a \in Nat /\ reqs[s[j]].buf \in Nat
        BY <1>1, <2>1
      <4> QED
        BY <4>1, <3>1 DEF Takes
    <3> HIDE DEF k
    <3>4. w \in arrived
      BY <3>3 DEF Copied
    <3>5. w.place = a /\ w.block = mem'[a]
      BY <3>2, <3>3 DEF k
    <3>6. \A v \in arrived : v.place = a => v = w
      <4> HIDE DEF arrived, w
      <4> QED
        BY <3>4, <3>5, <1>1, <1>7, WantedOnce
    <3>7. (CHOOSE v \in arrived : v.place = a) = w
      <4> HIDE DEF arrived, w
      <4> QED
        BY <3>4, <3>5, <3>6
    <3> HIDE DEF arrived, w
    <3> QED
      BY <3>4, <3>5, <3>7
  <2>3. CASE ~ \E j \in 1..t : Takes(s, j, a)
    <3>1. mem'[a] = mem[a]
      BY <2>3, <1>4, <1>5, Delivers DEF s
    <3>2. ASSUME NEW w \in arrived PROVE w.place # a
      <4>1. PICK j \in 1..t : \E k \in 0..(Blocks(s, j) - 1) :
              w = [place |-> reqs[s[j]].buf + k, block |-> reqs[s[j]].block + k]
        BY DEF Copied
      <4>2. PICK k \in 0..(Blocks(s, j) - 1) :
              w = [place |-> reqs[s[j]].buf + k, block |-> reqs[s[j]].block + k]
        BY <4>1
      <4>3. ASSUME w.place = a PROVE Takes(s, j, a)
        <5>1. a - reqs[s[j]].buf = k
          BY <4>2, <4>3, <2>1
        <5> QED
          BY <5>1 DEF Takes
      <4> QED
        BY <4>3, <2>3
    <3> HIDE DEF arrived
    <3> QED
      BY <3>1, <3>2
  <2> QED
    BY <2>2, <2>3
<1>9. mem' = [a \in Memory |->
                IF \E w \in arrived : w.place = a
                THEN (CHOOSE w \in arrived : w.place = a).block
                ELSE mem[a]]
  <2>1. mem' = [a \in Memory |-> mem'[a]]
    BY DEF IInv, Sorts
  <2> HIDE DEF arrived
  <2> QED
    BY <2>1, <1>8
<1>10. PICK x, o, b : x = q + t - 1 /\ o = (IF t = 1 THEN n ELSE 0) /\ b = Blocks(s, t)
  OBVIOUS
<1>11. /\ x \in 1..N /\ o + b <= list[x].count
       /\ o + b # list[x].count => pc' = "build"
       /\ o + b = list[x].count => pc' = IF x = N THEN "ok" ELSE "build"
  <2>1. Moves(x, o, b)
    BY <1>4, <1>5, <1>10, ConsumeMoves DEF s
  <2> QED
    BY <2>1 DEF Moves
<1>12. ASSUME pc' = "ok", NEW w \in Service!Wanted(list)
       PROVE  mem'[w.place] = w.block
  <2>1. x = N /\ o + b = list[x].count
    BY <1>11, <1>12
  <2>2. PICK i \in 1..N : \E k \in 0..(list[i].count - 1) :
          w = [place |-> list[i].buf + k, block |-> list[i].block + k]
    BY <1>1, WantedOnce
  <2>3. PICK k \in 0..(list[i].count - 1) :
          w = [place |-> list[i].buf + k, block |-> list[i].block + k]
    BY <2>2
  <2>4. i < x \/ (i = x /\ k < o + b)
    <3>1. N \in Nat /\ list[i].count \in Nat
      BY <1>1, ListShape
    <3> QED
      BY <2>1, <3>1
  <2>5. mem'[list[i].buf + k] = list[i].block + k
    <3>1. /\ s = Chain(io_reqs) /\ Left(s, q, n) /\ Batched(s, t) /\ Arrived(q, n)
          /\ x = q + t - 1 /\ o = (IF t = 1 THEN n ELSE 0)
      BY <1>3, <1>4, <1>5, <1>10 DEF s
    <3>2. i < x \/ (i = x /\ k < o + Blocks(s, t)) => mem'[list[i].buf + k] = list[i].block + k
      BY <3>1, ConsumeArrives
    <3> QED
      BY <3>2, <2>4, <1>10
  <2> QED
    BY <2>3, <2>5
<1>13. pc' \in {"build", "ok"}
  BY <1>11
<1> HIDE DEF arrived
<1> QED
  BY <1>0, <1>7, <1>9, <1>12, <1>13 DEF Service!Deliver

(* biosDiskRead implements the service of a block device: "ok" means that  *)
(* every block is in its place, and nothing else is written                *)
(* (bios.c:80-152, include/loom/block_dev.h:18).                           *)
THEOREM BiosKeepsService == Spec => KeepsService
<1>1. Init => Service!Init
  BY DEF Init, Service!Init
<1>2. IInv /\ IInv' /\ [Next]_vars => [Service!Next]_(Service!vars)
  <2> SUFFICES ASSUME IInv, IInv', [Next]_vars
               PROVE  Service!Next \/ UNCHANGED Service!vars
    OBVIOUS
  <2>1. CASE Start
    <3>1. Service!Ask
      BY <2>1 DEF Start, Service!Ask
    <3> QED
      BY <3>1 DEF Service!Next
  <2>2. CASE Build \/ BiosReads \/ BiosReturns
    <3>1. /\ UNCHANGED <<list, mem>>
          /\ pc \in {"build", "bios", "copy"} /\ pc' \in {"build", "bios", "copy"}
      BY <2>2 DEF Build, BiosReads, BiosReturns
    <3> QED
      BY <3>1 DEF Service!vars
  <2>3. CASE BiosFails
    <3>1. /\ UNCHANGED <<list, mem>> /\ pc = "bios" /\ pc' = "error"
          /\ mem = [a \in Memory |-> mem[a]]
      BY <2>3 DEF BiosFails, IInv, Sorts
    <3>2. Service!Deliver
      <4> DEFINE arrived == {}
      <4>1. arrived \in SUBSET Service!Wanted(list)
        OBVIOUS
      <4>2. mem' = [a \in Memory |->
                     IF \E w \in arrived : w.place = a
                     THEN (CHOOSE w \in arrived : w.place = a).block
                     ELSE mem[a]]
        BY <3>1
      <4> HIDE DEF arrived
      <4> QED
        BY <3>1, <4>1, <4>2 DEF Service!Deliver
    <3> QED
      BY <3>2 DEF Service!Next
  <2>4. CASE Consume
    BY <2>4, ConsumeDelivers DEF Service!Next
  <2>5. CASE UNCHANGED vars
    BY <2>5 DEF vars, Service!vars
  <2> QED
    BY <2>1, <2>2, <2>3, <2>4, <2>5 DEF Next, Read
<1> QED
  BY <1>1, <1>2, BiosInvariant, PTL DEF Spec, KeepsService, Service!Spec
=============================================================================
