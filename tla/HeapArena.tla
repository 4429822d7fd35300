----------------------------- MODULE HeapArena -----------------------------
(***************************************************************************)
(* One arena of the loader's heap (core/mm.c): the boundary-tagged chunks  *)
(* and the doubly linked list of free ones, with the operations that       *)
(* allocate from it and give back to it.                                   *)
(*                                                                         *)
(* Addresses and sizes count granules of CHUNK_SIZE (8) bytes.  An arena   *)
(* is a record of functions over the addresses of its chunk headers:       *)
(*   size, use   : the size word, the length apart from the INUSE bit;     *)
(*   psize, puse : the prev_size word, in the same two parts;              *)
(*   prev, next  : the list links, of the free chunks only;                *)
(*   head        : arena->freelist;                                        *)
(*   status      : "ok", "panic" once loomPanic was called, and "beyond"   *)
(*     where the model stops following the code: links written over the    *)
(*     next chunk's header, or a second turn of a merging loop.            *)
(* lo and hi are the arena's first and one-past-last granule.              *)
(***************************************************************************)
EXTENDS Integers, FiniteSets

Null == 0
CHUNK_SIZE == 1
MIN_ALLOC == 2

(* CHUNK_FLAG_INUSE, the low bit of a size word, clear or set.             *)
FREE == 0
INUSE == 1

Chunks(h) == DOMAIN h.size
Free(h) == {c \in Chunks(h) : h.use[c] = FREE}
EndOf(h, c) == c + h.size[c]

(* Write v at k of a function, or forget k.                                *)
Put(f, k, v) == [x \in DOMAIN f \cup {k} |-> IF x = k THEN v ELSE f[x]]
Drop(f, k) == [x \in DOMAIN f \ {k} |-> f[x]]

SetHeader(h, c, ps, pu, s, u) ==
  [h EXCEPT !.psize = Put(@, c, ps), !.puse = Put(@, c, pu),
            !.size = Put(@, c, s), !.use = Put(@, c, u)]

NewArena(lo, hi) ==
  [size |-> [c \in {lo} |-> hi - lo], use  |-> [c \in {lo} |-> FREE],
   psize |-> [c \in {lo} |-> 0],      puse |-> [c \in {lo} |-> INUSE],
   prev |-> [c \in {lo} |-> Null],    next |-> [c \in {lo} |-> Null],
   head |-> lo, status |-> "ok"]

Panic(h) == [h EXCEPT !.status = "panic"]
Beyond(h) == [h EXCEPT !.status = "beyond"]

----------------------------------------------------------------------------
(* Operators named <Operation>_<What> are the operation with the bug the   *)
(* suffix names: each is meant to break one of the checked properties.     *)
----------------------------------------------------------------------------
(* freeChunkLink: push c on the list.                                      *)
Link_NoBackLink(h, c) ==
  [h EXCEPT !.prev = Put(@, c, Null), !.next = Put(@, c, h.head), !.head = c]

Link_DropsRest(h, c) ==
  [h EXCEPT !.prev = Put(@, c, Null), !.next = Put(@, c, Null), !.head = c]

Link(h, c) ==
  IF h.head # Null /\ h.prev[h.head] # Null
  THEN Panic(h)
  ELSE [h EXCEPT
          !.prev = [x \in DOMAIN @ \cup {c} |-> IF x = c THEN Null
                                               ELSE IF x = h.head THEN c ELSE @[x]],
          !.next = Put(@, c, h.head),
          !.head = c]

(* freeChunkUnlink: take c out of the list.                                *)
Unlink(h, c) ==
  IF h.prev[c] = Null /\ h.head # c
  THEN Panic(h)
  ELSE [h EXCEPT
          !.prev = [x \in DOMAIN @ \ {c} |-> IF x = h.next[c] THEN h.prev[c] ELSE @[x]],
          !.next = [x \in DOMAIN @ \ {c} |-> IF x = h.prev[c] THEN h.next[c] ELSE @[x]],
          !.head = IF h.prev[c] = Null THEN h.next[c] ELSE @]

(* chunkUpdateNext: copy the size word of c into the header that follows;  *)
(* differ says whether the INUSE bit found there should be another one.    *)
UpdateNext_Forgets(h, hi, c, differ) == h

UpdateNext(h, hi, c, differ) ==
  LET e == EndOf(h, c)
  IN CASE h.status # "ok" \/ e = hi -> h
       [] h.status = "ok" /\ (e > hi \/ (e < hi /\ hi - e < MIN_ALLOC)) -> Panic(h)
       [] OTHER ->
            IF differ = (h.use[c] = h.puse[e])
            THEN Panic(h)
            ELSE [h EXCEPT !.psize[e] = h.size[c], !.puse[e] = h.use[c]]

----------------------------------------------------------------------------
(* freeChunkSplit: carve n granules at offset off out of the free chunk c. *)
(* What is left below stays on the list in place, what is left above is a  *)
(* new free chunk when it can hold one and slack of the allocation if not. *)
CanSplit(h, c, off, n) ==
  /\ off = 0 \/ off >= MIN_ALLOC
  /\ n > 0
  /\ h.use[c] = FREE
  /\ off + n <= h.size[c]

Split(h, hi, c, off, n) ==
  LET new   == c + off
      room  == h.size[c] - off
      base  == IF off = 0 THEN Unlink(h, c) ELSE [h EXCEPT !.size[c] = off]
      ps    == IF off = 0 THEN h.psize[c] ELSE off
      pu    == IF off = 0 THEN h.puse[c] ELSE FREE
      whole == SetHeader(base, new, ps, pu, room, INUSE)
      parts == SetHeader(SetHeader(base, new, ps, pu, n, INUSE),
                         new + n, n, INUSE, room - n, FREE)
  IN IF ~CanSplit(h, c, off, n) \/ base.status # "ok" THEN Panic(h)
     ELSE IF room - n >= MIN_ALLOC
          THEN UpdateNext(Link(parts, new + n), hi, new + n, FALSE)
          ELSE UpdateNext(whole, hi, new, TRUE)

----------------------------------------------------------------------------
(* loomFree, inside the arena that holds the chunk.                        *)

(* c is merged into the chunk b that ends where c starts.                  *)
Absorb(h, b, c) ==
  [h EXCEPT !.psize = Drop(@, c), !.puse = Drop(@, c), !.use = Drop(@, c),
            !.size = [x \in DOMAIN @ \ {c} |-> IF x = b THEN @[b] + @[c] ELSE @[x]]]

(* One turn of the backward loop: the chunk just linked joins its          *)
(* predecessor, which keeps its own place on the list.                     *)
MergeBack(h, lo, c) ==
  LET b == c - h.psize[c]
  IN IF h.psize[c] < MIN_ALLOC \/ b < lo \/ h.use[b] = INUSE \/ h.size[b] # h.psize[c]
     THEN Panic(h)
     ELSE IF h.puse[b] = FREE THEN Beyond(h) ELSE Absorb(Unlink(h, c), b, c)

(* One turn of the forward loop: the free chunk after f joins it.          *)
MergeForward(h, hi, f) ==
  LET e == EndOf(h, f)
      g == Absorb(Unlink(h, e), f, e)
  IN IF h.size[e] < MIN_ALLOC \/ Unlink(h, e).status # "ok" THEN Panic(h)
     ELSE IF EndOf(g, f) < hi /\ g.use[EndOf(g, f)] = FREE THEN Beyond(h) ELSE g

FreeChunk_NoForward(h, lo, hi, c) ==
  LET linked == Link([h EXCEPT !.use[c] = FREE], c)
      back   == IF h.puse[c] = INUSE THEN linked ELSE MergeBack(linked, lo, c)
  IN UpdateNext(back, hi, IF h.puse[c] = INUSE THEN c ELSE c - h.psize[c], TRUE)

FreeChunk(h, lo, hi, c) ==
  LET linked  == Link([h EXCEPT !.use[c] = FREE], c)
      back    == IF h.puse[c] = INUSE THEN linked ELSE MergeBack(linked, lo, c)
      f       == IF h.puse[c] = INUSE THEN c ELSE c - h.psize[c]
      e       == EndOf(back, f)
  IN CASE h.use[c] = FREE -> Panic(h)
       [] h.use[c] = INUSE /\ h.size[c] < MIN_ALLOC -> Beyond(h)
       [] OTHER ->
            IF linked.status # "ok" THEN linked
            ELSE IF back.status # "ok" THEN back
            ELSE IF e > hi THEN Panic(h)
            ELSE IF e < hi /\ back.use[e] = FREE
                 THEN UpdateNext(MergeForward(back, hi, f), hi, f, FALSE)
                 ELSE UpdateNext(back, hi, f, TRUE)

----------------------------------------------------------------------------
(* The free list as the code walks it: Nth(h)[k] is the k-th chunk, Null   *)
(* past the end.  A walk never takes more steps than there are free chunks.*)
Steps(h) == 0..Cardinality(DOMAIN h.next)

Nth(h) ==
  LET nth[k \in Steps(h)] == IF k = 0 THEN h.head
                             ELSE IF nth[k - 1] = Null THEN Null
                             ELSE h.next[nth[k - 1]]
  IN nth

Listed(h) == {Nth(h)[k] : k \in Steps(h)} \ {Null}

(* The chunks, in address order, that loomHeapIterate visits from lo.      *)
Visited(h, lo, hi) ==
  LET at[k \in Nat] == IF k = 0 THEN lo
                       ELSE IF at[k - 1] >= hi THEN hi
                       ELSE EndOf(h, at[k - 1])
  IN {at[k] : k \in 0..Cardinality(Chunks(h))}

(* loomHeapIterate panics at a chunk that is too small, runs past the end  *)
(* of the arena or is not what the header after it remembers.              *)
Remembered(h, c) ==
  h.psize[EndOf(h, c)] = h.size[c] /\ h.puse[EndOf(h, c)] = h.use[c]

Malformed(h, hi, c) ==
  \/ h.size[c] < MIN_ALLOC
  \/ EndOf(h, c) > hi
  \/ EndOf(h, c) < hi /\ ~Remembered(h, c)

Iterate(h, lo, hi) ==
  IF \E c \in Chunks(h) \cap Visited(h, lo, hi) : Malformed(h, hi, c)
  THEN Panic(h) ELSE h

----------------------------------------------------------------------------
(* What the operations above keep true of an arena, in parts that speak of *)
(* a chunk and its neighbours only, so that each is inductive.             *)

ArenaType(lo, hi, h) ==
  /\ h = [size |-> h.size, use |-> h.use, psize |-> h.psize, puse |-> h.puse,
          prev |-> h.prev, next |-> h.next, head |-> h.head, status |-> h.status]
  /\ Chunks(h) \subseteq lo..(hi - 1)
  /\ h.size \in [Chunks(h) -> Nat] /\ h.use \in [Chunks(h) -> {FREE, INUSE}]
  /\ h.psize \in [Chunks(h) -> Nat] /\ h.puse \in [Chunks(h) -> {FREE, INUSE}]
  /\ h.prev \in [Free(h) -> Free(h) \cup {Null}]
  /\ h.next \in [Free(h) -> Free(h) \cup {Null}]
  /\ h.head \in Free(h) \cup {Null}
  /\ h.status \in {"ok", "panic", "beyond"}

(* Chunks hold MIN_ALLOC, do not run into one another, cover the arena and *)
(* are remembered by the header after them.                                *)
Tiled(lo, hi, h) ==
  /\ lo \in Chunks(h)
  /\ \A c \in Chunks(h) : h.size[c] >= MIN_ALLOC
  /\ \A c, d \in Chunks(h) : c < d => EndOf(h, c) <= d
  /\ \A c \in Chunks(h) :
       EndOf(h, c) = hi \/ (EndOf(h, c) \in Chunks(h) /\ Remembered(h, c))

(* The way back: the previous chunk starts where psize says it does.       *)
TiledBack(lo, h) ==
  /\ h.psize[lo] = 0 /\ h.puse[lo] = INUSE
  /\ \A c \in Chunks(h) \ {lo} :
       /\ c - h.psize[c] \in Chunks(h)
       /\ EndOf(h, c - h.psize[c]) = c

(* No free chunk follows a free chunk.                                     *)
Coalesced(h) == \A c \in Free(h) : h.puse[c] = INUSE

(* Each link is answered by the one in the other direction.                *)
Linked(h) ==
  /\ h.head # Null => h.prev[h.head] = Null
  /\ \A c \in Free(h) :
       /\ h.prev[c] = Null => h.head = c
       /\ h.prev[c] # Null => h.next[h.prev[c]] = c
       /\ h.next[c] # Null => h.prev[h.next[c]] = c

(* Followed back, the links of any free chunk lead to the head.            *)
Rooted(D, prev) == \A S \in SUBSET D : S # {} => \E c \in S : prev[c] \notin S

ArenaInv(lo, hi, h) ==
  /\ ArenaType(lo, hi, h)
  /\ h.status = "ok"
  /\ Tiled(lo, hi, h)
  /\ TiledBack(lo, h)
  /\ Coalesced(h)
  /\ Linked(h)
  /\ Rooted(Free(h), h.prev)
============================================================================
