---------------------------- MODULE SlabInvariant -----------------------------
(***************************************************************************)
(* The inductive invariant of the kernel heap of module Slab; lemmas about *)
(* size arithmetic and about what goes into and out of a list; that the    *)
(* initial state satisfies the invariant; and that the large blocks keep   *)
(* it.  Modules SlabAlloc and SlabFree have the steps of slab::alloc() and *)
(* slab::free(), and SlabProofs has the theorems.                          *)
(***************************************************************************)
EXTENDS Slab, TLAPS

-----------------------------------------------------------------------------
(* The inductive invariant.                                                *)

Chunk == {<<p, i>> : p \in Nat, i \in Nat}
Header == [class : DOMAIN Sizes, free_head : Chunk \cup {Null}, free_chunks : Nat,
           next : Nat, prev : Nat]
Operation == [at : {"idle", "found", "linked"}, slab : Nat, chunk : Chunk \cup {Null}]

\* s[1], ..., s[n] are different chunks, linked from head to Null by lk.
FreeList(s, n, head, lk) ==
    /\ \A i, j \in 1..n : s[i] = s[j] => i = j
    /\ head = IF n = 0 THEN Null ELSE s[1]
    /\ \A i \in 1..n : lk[s[i]] = IF i = n THEN Null ELSE s[i + 1]

\* l[1], ..., l[n] are different slabs, linked both ways by the headers sl.
SlabList(l, n, first, sl) ==
    /\ \A i, j \in 1..n : l[i] = l[j] => i = j
    /\ first = IF n = 0 THEN NoSlab ELSE l[1]
    /\ \A i \in 1..n : sl[l[i]].next = IF i = n THEN NoSlab ELSE l[i + 1]
    /\ \A i \in 1..n : sl[l[i]].prev = IF i = 1 THEN NoSlab ELSE l[i - 1]

Has(s, n, k) == \E i \in 1..n : s[i] = k
SlabsOf(c) == {p \in DOMAIN slabs : slabs[p].class = c}
BeingFreed(k) == \E t \in Threads : op[t].at = "linked" /\ op[t].chunk = k

Types ==
    /\ classes \in [DOMAIN Sizes -> [num_slabs : Nat, first_slab : Nat]]
    /\ next_page \in 1..(MaxPages + 1)
    /\ slabs \in [DOMAIN slabs -> Header]
    /\ link \in [DOMAIN link -> Chunk \cup {Null, Data}]
    /\ op \in [Threads -> Operation]
    /\ DOMAIN link = UNION {ChunksOf(p, slabs[p].class) : p \in DOMAIN slabs}

\* Slabs and large blocks have pages of their own, all below next_page.
PagesApart ==
    /\ DOMAIN slabs \subseteq 1..(next_page - 1)
    /\ large \in [DOMAIN large -> Nat \ {0}]
    /\ DOMAIN large \subseteq Nat \ {0}
    /\ \A p \in DOMAIN large : p + large[p] <= next_page
    /\ \A p, q \in DOMAIN large : p < q => p + large[p] <= q
    /\ \A p \in DOMAIN large, q \in DOMAIN slabs : q < p \/ p + large[p] <= q

\* A block is handed out once, and is a chunk of a slab or a large block.
HeldOnce ==
    /\ held \in [Blocks -> {0, 1}]
    /\ \A b \in Held :
          (\E k \in DOMAIN link : b = {k}) \/ (\E p \in DOMAIN large : b = PageBlock(p, large[p]))

\* Between its two steps, alloc() has the head of the free list and free() a
\* chunk that nobody holds and that points to that head; one thread per class.
OpsApart ==
    /\ \A t \in Threads : op[t] # Idle =>
          /\ op[t].at # "idle"
          /\ op[t].slab \in DOMAIN slabs
          /\ op[t].chunk \in ChunksOf(op[t].slab, slabs[op[t].slab].class)
          /\ op[t].at = "found" => slabs[op[t].slab].free_head = op[t].chunk
          /\ op[t].at = "linked" => /\ link[op[t].chunk] = slabs[op[t].slab].free_head
                                    /\ {op[t].chunk} \notin Held
    /\ \A t, u \in Threads :
          op[t] # Idle /\ op[u] # Idle /\ slabs[op[t].slab].class = slabs[op[u].slab].class => t = u

\* The free list of a slab has the chunks that are neither held nor on their way.
FreeExact(p) ==
    \E s \in [1..slabs[p].free_chunks -> ChunksOf(p, slabs[p].class)] :
        /\ FreeList(s, slabs[p].free_chunks, slabs[p].free_head, link)
        /\ \A k \in ChunksOf(p, slabs[p].class) :
              Has(s, slabs[p].free_chunks, k) <=> {k} \notin Held /\ ~BeingFreed(k)

\* The list of a class has its slabs.
ListExact(c) ==
    \E l \in [1..classes[c].num_slabs -> SlabsOf(c)] :
        /\ SlabList(l, classes[c].num_slabs, classes[c].first_slab, slabs)
        /\ \A p \in SlabsOf(c) : Has(l, classes[c].num_slabs, p)

\* A slab beside another one of its class is in use, or about to be.
NotSpare(p) ==
    classes[slabs[p].class].num_slabs > 1 =>
        \/ \E k \in ChunksOf(p, slabs[p].class) : {k} \in Held
        \/ \E t \in Threads : op[t] # Idle /\ op[t].slab = p

SlabInv ==
    /\ Types
    /\ PagesApart
    /\ HeldOnce
    /\ OpsApart
    /\ \A p \in DOMAIN slabs : FreeExact(p)
    /\ \A c \in DOMAIN Sizes : ListExact(c)
    /\ \A p \in DOMAIN slabs : NotSpare(p)

-----------------------------------------------------------------------------
(* Arithmetic.                                                             *)

\* Multiplication keeps the order.
LEMMA TimesMonotone ==
    ASSUME NEW n \in Nat, NEW a \in Nat, NEW b \in Nat, a <= b
    PROVE  n * a \in Nat /\ n * b \in Nat /\ n * a <= n * b
OBVIOUS

\* \div is the largest number of times.
LEMMA DivAtLeast ==
    ASSUME NEW x \in Nat, NEW n \in Nat, n > 0, NEW k \in Nat, k * n <= x
    PROVE  k <= x \div n
OBVIOUS

\* And no more than that.
LEMMA DivMod ==
    ASSUME NEW x \in Nat, NEW n \in Nat, n > 0
    PROVE  x \div n \in Nat /\ (x \div n) * n <= x
OBVIOUS

-----------------------------------------------------------------------------
(* Chunks and lists.                                                       *)

\* A slab has room for a chunk, and the first class for the most.
LEMMA ChunkCounts ==
    /\ 1 \in DOMAIN Sizes
    /\ \A c \in DOMAIN Sizes :
          chunks_per_slab(c) \in Nat \ {0} /\ chunks_per_slab(c) <= chunks_per_slab(1)
<1> DEFINE room == PAGE_SIZE - HeaderSize
<1>1. 1 \in DOMAIN Sizes
  BY SlabAssumption
<1>2. \A c \in DOMAIN Sizes : Sizes[c] \in Nat \ {0} /\ Sizes[c] <= room /\ Sizes[1] <= Sizes[c]
  BY SlabAssumption
<1>3. room \in Nat
  BY SlabAssumption, <1>1, <1>2
<1>4. ASSUME NEW c \in DOMAIN Sizes
      PROVE  chunks_per_slab(c) \in Nat \ {0} /\ chunks_per_slab(c) <= chunks_per_slab(1)
  <2> HIDE DEF room
  <2>1. /\ room \div Sizes[c] \in Nat
        /\ (room \div Sizes[c]) * Sizes[c] <= room
    BY <1>2, <1>3, DivMod
  <2>2. 1 <= room \div Sizes[c]
    BY <1>2, <1>3, DivAtLeast
  <2>3. (room \div Sizes[c]) * Sizes[1] <= (room \div Sizes[c]) * Sizes[c]
    BY <2>1, <1>1, <1>2, TimesMonotone
  <2>4. (room \div Sizes[c]) * Sizes[1] \in Nat /\ (room \div Sizes[c]) * Sizes[c] \in Nat
    BY <2>1, <1>1, <1>2, TimesMonotone
  <2>5. (room \div Sizes[c]) * Sizes[1] <= room
    BY <2>1, <2>3, <2>4, <1>3
  <2>6. room \div Sizes[c] <= room \div Sizes[1]
    BY <2>1, <2>5, <1>1, <1>2, <1>3, DivAtLeast
  <2> QED
    BY <2>1, <2>2, <2>6 DEF chunks_per_slab, room
<1> QED
  BY <1>1, <1>4

\* A chunk is a pair, so neither the null pointer nor the data of an owner.
LEMMA ChunkParts ==
    ASSUME NEW p, NEW c, NEW k \in ChunksOf(p, c)
    PROVE  k[1] = p /\ k = <<p, k[2]>> /\ k[2] \in 1..chunks_per_slab(c) /\ k # Null /\ k # Data
BY SMT DEF ChunksOf, Null, Data

\* The chunks of different slabs differ.
LEMMA ChunksDiffer ==
    ASSUME NEW p, NEW q, NEW c, NEW d, NEW k \in ChunksOf(p, c), k \in ChunksOf(q, d)
    PROVE  p = q
BY ChunkParts

\* A list without its first element, and with a new one.
Popped(s, n) == [i \in 1..(n - 1) |-> s[i + 1]]
Pushed(k, s, n) == [i \in 1..(n + 1) |-> IF i = 1 THEN k ELSE s[i - 1]]

IsPushed(S, chunk, s, n) ==
    /\ Pushed(chunk, s, n) \in [1..(n + 1) -> S]
    /\ FreeList(Pushed(chunk, s, n), n + 1, chunk, link)
    /\ \A k : Has(Pushed(chunk, s, n), n + 1, k) <=> Has(s, n, k) \/ k = chunk

\* A chunk that points to the head becomes the head: slab::free().
LEMMA PushFree ==
    ASSUME NEW S, NEW n, n \in Nat, NEW s, s \in [1..n -> S], NEW head,
           FreeList(s, n, head, link), NEW chunk, chunk \in S, ~Has(s, n, chunk), link[chunk] = head
    PROVE  IsPushed(S, chunk, s, n)
<1> DEFINE s2 == Pushed(chunk, s, n)
<1> USE DEF Pushed
<1>2. s2 \in [1..(n + 1) -> S]
  OBVIOUS
<1>3. /\ s2[1] = chunk
      /\ \A i \in 2..(n + 1) : s2[i] = s[i - 1] /\ i - 1 \in 1..n /\ s2[i] # chunk
  BY DEF Has
<1> HIDE DEF s2
<1>4. FreeList(s2, n + 1, chunk, link)
  <2>1. ASSUME NEW i \in 1..(n + 1), NEW j \in 1..(n + 1), s2[i] = s2[j] PROVE i = j
    <3>1. CASE i = 1 \/ j = 1
      BY <3>1, <2>1, <1>3
    <3>2. CASE i # 1 /\ j # 1
      <4>1. i - 1 \in 1..n /\ j - 1 \in 1..n /\ s[i - 1] = s[j - 1]
        BY <3>2, <2>1, <1>3
      <4> QED
        BY <4>1 DEF FreeList
    <3> QED
      BY <3>1, <3>2
  <2>3. ASSUME NEW i \in 1..(n + 1) PROVE link[s2[i]] = IF i = n + 1 THEN Null ELSE s2[i + 1]
    <3>1. CASE i = 1
      BY <3>1, <1>3 DEF FreeList
    <3>2. CASE i # 1
      BY <3>2, <1>3 DEF FreeList
    <3> QED
      BY <3>1, <3>2
  <2> QED
    BY <2>1, <1>3, <2>3 DEF FreeList
<1>5. ASSUME NEW k PROVE Has(s2, n + 1, k) <=> Has(s, n, k) \/ k = chunk
  <2>1. Has(s2, n + 1, k) => Has(s, n, k) \/ k = chunk
    BY <1>3 DEF Has
  <2>2. ASSUME Has(s, n, k) PROVE Has(s2, n + 1, k)
    <3>1. PICK i \in 1..n : s[i] = k
      BY <2>2 DEF Has
    <3>2. i + 1 \in 1..(n + 1) /\ s2[i + 1] = k
      BY <3>1, <1>3
    <3> QED
      BY <3>2 DEF Has
  <2>3. k = chunk => Has(s2, n + 1, k)
    BY <1>3 DEF Has
  <2> QED
    BY <2>1, <2>2, <2>3
<1> QED
  BY <1>2, <1>4, <1>5 DEF s2, IsPushed

\* A step writes to no chunk of S but head.
OnlyHead(S, head) == \A k \in S : k # head => link'[k] = link[k]

\* The head of a free list is taken: slab::alloc().
LEMMA PopFree ==
    ASSUME NEW S, NEW n \in Nat, NEW s \in [1..n -> S], NEW head,
           FreeList(s, n, head, link), head # Null, OnlyHead(S, head)
    PROVE  /\ n > 0
           /\ Popped(s, n) \in [1..(n - 1) -> S]
           /\ FreeList(Popped(s, n), n - 1, link[head], link')
           /\ \A k : Has(Popped(s, n), n - 1, k) <=> Has(s, n, k) /\ k # head
<1> DEFINE s2 == Popped(s, n)
<1> USE DEF Popped, OnlyHead
<1>1. n > 0 /\ n - 1 \in Nat /\ head = s[1]
  BY DEF FreeList
<1>2. s2 \in [1..(n - 1) -> S]
  BY <1>1
<1>3. \A i \in 1..(n - 1) : s2[i] = s[i + 1] /\ i + 1 \in 1..n /\ s2[i] # head
  BY <1>1 DEF FreeList
<1>4. FreeList(s2, n - 1, link[head], link')
  <2>1. \A i, j \in 1..(n - 1) : s2[i] = s2[j] => i = j
    BY <1>1, <1>3 DEF FreeList
  <2>2. link[head] = IF n - 1 = 0 THEN Null ELSE s2[1]
    BY <1>1, <1>3 DEF FreeList
  <2>3. ASSUME NEW i \in 1..(n - 1) PROVE link'[s2[i]] = IF i = n - 1 THEN Null ELSE s2[i + 1]
    <3>1. link'[s2[i]] = link[s[i + 1]]
      BY <1>2, <1>3
    <3>2. link[s[i + 1]] = IF i + 1 = n THEN Null ELSE s[(i + 1) + 1]
      BY <1>3 DEF FreeList
    <3> QED
      BY <3>1, <3>2, <1>3
  <2> QED
    BY <2>1, <2>2, <2>3 DEF FreeList
<1>5. ASSUME NEW k PROVE Has(s2, n - 1, k) <=> Has(s, n, k) /\ k # head
  <2>1. Has(s2, n - 1, k) => Has(s, n, k) /\ k # head
    BY <1>3 DEF Has
  <2>2. ASSUME Has(s, n, k), k # head PROVE Has(s2, n - 1, k)
    <3>1. PICK i \in 1..n : s[i] = k
      BY <2>2 DEF Has
    <3>2. i - 1 \in 1..(n - 1) /\ s2[i - 1] = k
      BY <1>1, <2>2, <3>1
    <3> QED
      BY <3>2 DEF Has
  <2> QED
    BY <2>1, <2>2
<1> QED
  BY <1>1, <1>2, <1>4, <1>5

\* The links of a slab p that goes before first, the head of the slabs of S;
\* and the list l[1], ..., l[n] with p in front of it.
PutBefore(S, p, first) ==
    /\ slabs'[p].next = first /\ slabs'[p].prev = NoSlab
    /\ \A q \in S : /\ slabs'[q].next = slabs[q].next
                    /\ slabs'[q].prev = IF q = first THEN p ELSE slabs[q].prev
IsListWith(S, p, l, n) ==
    \E l2 \in [1..(n + 1) -> S \cup {p}] :
        /\ SlabList(l2, n + 1, p, slabs')
        /\ \A q : Has(l2, n + 1, q) <=> Has(l, n, q) \/ q = p

\* A new slab becomes the first of its class: create_slab().
LEMMA PushSlab ==
    ASSUME NEW S, NEW n, n \in Nat, NEW l, l \in [1..n -> S], NEW first,
           SlabList(l, n, first, slabs), NoSlab \notin S, NEW p, p \notin S,
           PutBefore(S, p, first)
    PROVE  IsListWith(S, p, l, n)
<1> USE DEF PutBefore
<1> DEFINE l2 == [i \in 1..(n + 1) |-> IF i = 1 THEN p ELSE l[i - 1]]
<1>2. l2 \in [1..(n + 1) -> S \cup {p}]
  OBVIOUS
<1>3. /\ l2[1] = p
      /\ \A i \in 2..(n + 1) : l2[i] = l[i - 1] /\ i - 1 \in 1..n /\ l2[i] \in S
  OBVIOUS
<1> HIDE DEF l2
<1>4. SlabList(l2, n + 1, p, slabs')
  <2>1. ASSUME NEW i \in 1..(n + 1), NEW j \in 1..(n + 1), l2[i] = l2[j] PROVE i = j
    <3>1. CASE i = 1 \/ j = 1
      BY <3>1, <2>1, <1>3
    <3>2. CASE i # 1 /\ j # 1
      <4>1. i - 1 \in 1..n /\ j - 1 \in 1..n /\ l[i - 1] = l[j - 1]
        BY <3>2, <2>1, <1>3
      <4> QED
        BY <4>1 DEF SlabList
    <3> QED
      BY <3>1, <3>2
  <2>2. ASSUME NEW i \in 1..(n + 1) PROVE slabs'[l2[i]].next = IF i = n + 1 THEN NoSlab ELSE l2[i + 1]
    <3>1. CASE i = 1
      BY <3>1, <1>3 DEF SlabList
    <3>2. CASE i # 1
      <4>1. i - 1 \in 1..n /\ l2[i] = l[i - 1] /\ l[i - 1] \in S
        BY <3>2, <1>3
      <4>2. slabs[l[i - 1]].next = IF i - 1 = n THEN NoSlab ELSE l[(i - 1) + 1]
        BY <4>1 DEF SlabList
      <4>3. i # n + 1 => l2[i + 1] = l[(i - 1) + 1]
        BY <3>2, <1>3
      <4> QED
        BY <4>1, <4>2, <4>3
    <3> QED
      BY <3>1, <3>2
  <2>3. ASSUME NEW i \in 1..(n + 1) PROVE slabs'[l2[i]].prev = IF i = 1 THEN NoSlab ELSE l2[i - 1]
    <3>1. CASE i = 1
      BY <3>1, <1>3
    <3>2. CASE i = 2
      <4>1. l2[2] = l[1] /\ 1 \in 1..n /\ l[1] \in S /\ first = l[1]
        BY <3>2, <1>3 DEF SlabList
      <4> QED
        BY <4>1, <3>2, <1>3
    <3>3. CASE i > 2
      <4>1. /\ l2[i] = l[i - 1] /\ i - 1 \in 1..n /\ l2[i - 1] = l[i - 2] /\ i - 1 # 1 /\ 1 \in 1..n
            /\ l[i - 1] \in S /\ (i - 1) - 1 = i - 2
        BY <3>3, <1>3
      <4>2. l[i - 1] # first
        BY <4>1 DEF SlabList
      <4>3. slabs[l[i - 1]].prev = l[(i - 1) - 1]
        BY <4>1 DEF SlabList
      <4> QED
        BY <4>1, <4>2, <4>3, <3>3
    <3> QED
      BY <3>1, <3>2, <3>3
  <2> QED
    BY <2>1, <1>3, <2>2, <2>3 DEF SlabList
<1>5. ASSUME NEW q PROVE Has(l2, n + 1, q) <=> Has(l, n, q) \/ q = p
  <2>1. Has(l2, n + 1, q) => Has(l, n, q) \/ q = p
    BY <1>3 DEF Has
  <2>2. ASSUME Has(l, n, q) PROVE Has(l2, n + 1, q)
    <3>1. PICK i \in 1..n : l[i] = q
      BY <2>2 DEF Has
    <3>2. i + 1 \in 1..(n + 1) /\ l2[i + 1] = q
      BY <3>1, <1>3
    <3> QED
      BY <3>2 DEF Has
  <2>3. q = p => Has(l2, n + 1, q)
    BY <1>3 DEF Has
  <2> QED
    BY <2>1, <2>2, <2>3
<1> QED
  BY ONLY <1>2, <1>4, <1>5 DEF IsListWith

\* The links of the slabs of S past p; and the list l[1], ..., l[n] without p.
TakeOut(S, p) ==
    \A q \in S : q # p =>
        /\ slabs'[q].next = IF q = slabs[p].prev THEN slabs[p].next ELSE slabs[q].next
        /\ slabs'[q].prev = IF q = slabs[p].next THEN slabs[p].prev ELSE slabs[q].prev
IsListWithout(S, p, first, l, n) ==
    /\ n > 0
    /\ n > 1 => ~(slabs[p].prev = NoSlab /\ slabs[p].next = NoSlab)
    /\ \E l2 \in [1..(n - 1) -> S \ {p}] :
          /\ SlabList(l2, n - 1, IF slabs[p].prev = NoSlab THEN slabs[p].next ELSE first, slabs')
          /\ \A q : Has(l2, n - 1, q) <=> Has(l, n, q) /\ q # p

\* A slab leaves its list: destroy_slab().
LEMMA RemoveSlab ==
    ASSUME NEW S, NEW n, n \in Nat, NEW l, l \in [1..n -> S], NEW first,
           SlabList(l, n, first, slabs), NoSlab \notin S, NEW p, Has(l, n, p), TakeOut(S, p)
    PROVE  IsListWithout(S, p, first, l, n)
<1> USE DEF TakeOut
<1>1. PICK j \in 1..n : l[j] = p
  BY DEF Has
<1>2. \A i, k \in 1..n : l[i] = l[k] => i = k
  BY DEF SlabList
<1>3. /\ slabs[p].prev = IF j = 1 THEN NoSlab ELSE l[j - 1]
      /\ slabs[p].next = IF j = n THEN NoSlab ELSE l[j + 1]
  BY <1>1 DEF SlabList
<1>4. \A i \in 1..n : l[i] \in S /\ l[i] # NoSlab
  OBVIOUS
<1> DEFINE l2 == [i \in 1..(n - 1) |-> IF i < j THEN l[i] ELSE l[i + 1]]
<1>5. /\ \A i \in 1..(n - 1) : i < j => i \in 1..n /\ l2[i] = l[i] /\ l2[i] # p
      /\ \A i \in 1..(n - 1) : i >= j => i + 1 \in 1..n /\ l2[i] = l[i + 1] /\ l2[i] # p
  BY <1>1, <1>2
<1>6. l2 \in [1..(n - 1) -> S \ {p}]
  <2>1. l2 = [i \in 1..(n - 1) |-> l2[i]]
    OBVIOUS
  <2> HIDE DEF l2
  <2>2. ASSUME NEW i \in 1..(n - 1) PROVE l2[i] \in S \ {p}
    <3>1. CASE i < j
      BY <3>1, <1>5, <1>4
    <3>2. CASE i >= j
      BY <3>2, <1>5, <1>4
    <3> QED
      BY ONLY <3>1, <3>2, i \in 1..(n - 1), j \in 1..n, n \in Nat
  <2> QED
    BY ONLY <2>1, <2>2
<1> HIDE DEF l2
<1>7. SlabList(l2, n - 1, IF slabs[p].prev = NoSlab THEN slabs[p].next ELSE first, slabs')
  <2>1. ASSUME NEW i \in 1..(n - 1), NEW k \in 1..(n - 1), l2[i] = l2[k] PROVE i = k
    BY <2>1, <1>1, <1>2, <1>5
  <2>2. (IF slabs[p].prev = NoSlab THEN slabs[p].next ELSE first) = IF n - 1 = 0 THEN NoSlab ELSE l2[1]
    <3>1. first = l[1]
      BY <1>1 DEF SlabList
    <3>2. CASE j = 1
      BY <3>1, <3>2, <1>1, <1>3, <1>5
    <3>3. CASE j # 1
      BY <3>1, <3>3, <1>1, <1>3, <1>4, <1>5
    <3> QED
      BY <3>2, <3>3
  <2>3. ASSUME NEW i \in 1..(n - 1)
        PROVE  slabs'[l2[i]].next = IF i = n - 1 THEN NoSlab ELSE l2[i + 1]
    <3>1. \A k \in 1..n : slabs[l[k]].next = IF k = n THEN NoSlab ELSE l[k + 1]
      BY DEF SlabList
    <3>2. l2[i] \in S /\ l2[i] # p
      BY <1>6
    <3>3. CASE i + 1 < j
      <4>1. l2[i] = l[i] /\ l2[i + 1] = l[i + 1] /\ i \in 1..n /\ i # n - 1 /\ i # n /\ i # j - 1 /\ j - 1 \in 1..n
        BY <3>3, <1>1, <1>5
      <4>2. l[i] # slabs[p].prev
        BY <4>1, <1>2, <1>3, <1>4
      <4> QED
        BY <4>1, <4>2, <3>1, <3>2
    <3>4. CASE i + 1 = j
      <4>1. l2[i] = l[i] /\ i = j - 1 /\ j # 1 /\ slabs[p].prev = l[i]
        BY <3>4, <1>1, <1>3, <1>5
      <4>2. i = n - 1 <=> j = n
        BY <4>1
      <4>3. i # n - 1 => l2[i + 1] = l[j + 1]
        BY <4>1, <1>1, <1>5
      <4> QED
        BY <4>1, <4>2, <4>3, <3>2, <1>3
    <3>5. CASE i >= j
      <4>1. l2[i] = l[i + 1] /\ i + 1 \in 1..n /\ i + 1 # j - 1 /\ j - 1 \in 0..n
        BY <3>5, <1>1, <1>5
      <4>2. l[i + 1] # slabs[p].prev
        BY <4>1, <1>2, <1>3, <1>4
      <4>3. slabs[l[i + 1]].next = IF i + 1 = n THEN NoSlab ELSE l[(i + 1) + 1]
        BY <4>1, <3>1
      <4>4. i # n - 1 => i + 1 \in 1..(n - 1) /\ l2[i + 1] = l[(i + 1) + 1]
        BY <3>5, <1>1, <1>5
      <4> QED
        BY <4>1, <4>2, <4>3, <4>4, <3>2
    <3> QED
      BY <3>3, <3>4, <3>5
  <2>4. ASSUME NEW i \in 1..(n - 1)
        PROVE  slabs'[l2[i]].prev = IF i = 1 THEN NoSlab ELSE l2[i - 1]
    <3>1. \A k \in 1..n : slabs[l[k]].prev = IF k = 1 THEN NoSlab ELSE l[k - 1]
      BY DEF SlabList
    <3>2. l2[i] \in S /\ l2[i] # p
      BY <1>6
    <3>3. CASE i < j
      <4>1. l2[i] = l[i] /\ i \in 1..n /\ i # j + 1
        BY <3>3, <1>1, <1>5
      <4>2. l[i] # slabs[p].next
        BY <4>1, <1>1, <1>2, <1>3, <1>4
      <4>3. i # 1 => l2[i - 1] = l[i - 1]
        BY <3>3, <1>1, <1>5
      <4> QED
        BY <4>1, <4>2, <4>3, <3>1, <3>2
    <3>4. CASE i = j
      <4>1. l2[i] = l[j + 1] /\ j # n /\ slabs[p].next = l[j + 1]
        BY <3>4, <1>1, <1>3, <1>5
      <4>2. i # 1 => l2[i - 1] = l[j - 1]
        BY <3>4, <1>1, <1>5
      <4> QED
        BY <4>1, <4>2, <3>2, <3>4, <1>3
    <3>5. CASE i > j
      <4>1. l2[i] = l[i + 1] /\ i + 1 \in 1..n /\ i + 1 # j + 1 /\ i # 1
        BY <3>5, <1>1, <1>5
      <4>2. l[i + 1] # slabs[p].next
        BY <4>1, <1>1, <1>2, <1>3, <1>4
      <4>3. slabs[l[i + 1]].prev = l[(i + 1) - 1]
        BY <4>1, <3>1
      <4>4. i - 1 \in 1..(n - 1) /\ i - 1 >= j /\ l2[i - 1] = l[(i - 1) + 1]
        BY <3>5, <1>1, <1>5
      <4> QED
        BY <4>1, <4>2, <4>3, <4>4, <3>2
    <3> QED
      BY <3>3, <3>4, <3>5
  <2> QED
    BY <2>1, <2>2, <2>3, <2>4 DEF SlabList
<1>8. ASSUME NEW q PROVE Has(l2, n - 1, q) <=> Has(l, n, q) /\ q # p
  <2>1. Has(l2, n - 1, q) => Has(l, n, q) /\ q # p
    BY <1>5 DEF Has
  <2>2. ASSUME Has(l, n, q), q # p PROVE Has(l2, n - 1, q)
    <3>1. PICK i \in 1..n : l[i] = q
      BY <2>2 DEF Has
    <3>2. i # j
      BY <3>1, <2>2, <1>1
    <3>3. CASE i < j
      <4>1. i \in 1..(n - 1) /\ l2[i] = q
        BY <3>1, <3>3, <1>1, <1>5
      <4> QED
        BY <4>1 DEF Has
    <3>4. CASE i > j
      <4>1. i - 1 \in 1..(n - 1) /\ l2[i - 1] = q
        BY <3>1, <3>4, <1>1, <1>5
      <4> QED
        BY <4>1 DEF Has
    <3> QED
      BY <3>2, <3>3, <3>4
  <2> QED
    BY <2>1, <2>2
<1>9. n > 0 /\ (n > 1 => ~(slabs[p].prev = NoSlab /\ slabs[p].next = NoSlab))
  BY <1>1, <1>3, <1>4
<1> QED
  BY ONLY <1>6, <1>7, <1>8, <1>9, Zenon DEF IsListWithout

-----------------------------------------------------------------------------
(* The invariant and the properties.                                       *)

\* The chunks of a slab are the ones in its page.
LEMMA LinkDomain ==
    ASSUME Types, NEW p \in DOMAIN slabs
    PROVE  \A k : k \in DOMAIN link /\ k[1] = p <=> k \in ChunksOf(p, slabs[p].class)
<1>1. DOMAIN link = UNION {ChunksOf(q, slabs[q].class) : q \in DOMAIN slabs}
  BY DEF Types
<1>2. ASSUME NEW k \in ChunksOf(p, slabs[p].class) PROVE k \in DOMAIN link /\ k[1] = p
  BY <1>1, <1>2, ChunkParts, Zenon
<1>3. ASSUME NEW k \in DOMAIN link, k[1] = p PROVE k \in ChunksOf(p, slabs[p].class)
  <2>1. PICK q \in DOMAIN slabs : k \in ChunksOf(q, slabs[q].class)
    BY <1>1, Zenon
  <2>2. q = p
    BY <2>1, <1>3, ChunkParts, Zenon
  <2> QED
    BY <2>1, <2>2
<1> QED
  BY <1>2, <1>3

\* A thread in the middle of an operation works on a slab that exists.
LEMMA OpFacts ==
    ASSUME Types, OpsApart, NEW t \in Threads, op[t].at # "idle" \/ op[t] # Idle
    PROVE  /\ op[t] # Idle /\ op[t].at \in {"found", "linked"}
           /\ op[t].slab \in DOMAIN slabs
           /\ op[t].chunk \in ChunksOf(op[t].slab, slabs[op[t].slab].class)
           /\ op[t].chunk[1] = op[t].slab
           /\ slabs[op[t].slab].class \in DOMAIN Sizes
<1>1. op[t] # Idle
  BY DEF Idle, Op
<1>2. /\ op[t].at # "idle" /\ op[t].slab \in DOMAIN slabs
      /\ op[t].chunk \in ChunksOf(op[t].slab, slabs[op[t].slab].class)
  BY <1>1, Zenon DEF OpsApart
<1>3. op[t].at \in {"found", "linked"}
  BY <1>2 DEF Types, Operation
<1>4. slabs[op[t].slab].class \in DOMAIN Sizes
  BY <1>2 DEF Types, Header
<1>5. op[t].chunk[1] = op[t].slab
  BY <1>2, ChunkParts
<1> QED
  BY <1>1, <1>2, <1>3, <1>4, <1>5

\* A slab is a page of the heap.
LEMMA SlabPages ==
    ASSUME Types, PagesApart
    PROVE  DOMAIN slabs \subseteq Pages /\ NoSlab \notin DOMAIN slabs
BY SlabAssumption DEF Types, PagesApart, Pages, NoSlab

\* A quiet class has no chunk on its way back.
LEMMA QuietNotFreed ==
    ASSUME Types, OpsApart, NEW p \in DOMAIN slabs, NEW k \in ChunksOf(p, slabs[p].class),
           BeingFreed(k)
    PROVE  \E t \in Threads : op[t] # Idle /\ op[t].slab = p /\ op[t].at = "linked"
<1>1. PICK t \in Threads : op[t].at = "linked" /\ op[t].chunk = k
  BY DEF BeingFreed
<1>2. op[t] # Idle /\ op[t].chunk[1] = op[t].slab
  BY <1>1, OpFacts
<1>3. k[1] = p
  BY ChunkParts
<1> QED
  BY <1>1, <1>2, <1>3

\* No spare slab, and every block in a page that is mapped.
LEMMA InvPages == SlabInv => NoSpareSlab /\ HeldIsMapped
<1> SUFFICES ASSUME SlabInv PROVE NoSpareSlab /\ HeldIsMapped
  OBVIOUS
<1> USE DEF SlabInv
<1>1. ASSUME NEW p \in DOMAIN slabs, Quiet(slabs[p].class),
             classes[slabs[p].class].num_slabs > 1
      PROVE  HeldIn(p) # {}
  <2>1. \A t \in Threads : ~(op[t] # Idle /\ op[t].slab = p)
    BY <1>1 DEF Quiet
  <2>2. PICK k \in ChunksOf(p, slabs[p].class) : {k} \in Held
    BY <1>1, <2>1 DEF NotSpare
  <2>3. k \in DOMAIN link /\ k[1] = p
    BY LinkDomain
  <2> QED
    BY <2>2, <2>3 DEF HeldIn
<1>2. ASSUME NEW b \in Held, NEW k \in b
      PROVE  k[1] \in DOMAIN slabs \/ \E p \in DOMAIN large : k[1] \in p..(p + large[p] - 1)
  <2>1. CASE \E i \in DOMAIN link : b = {i}
    <3>1. k \in DOMAIN link
      BY <2>1
    <3>2. PICK p \in DOMAIN slabs : k \in ChunksOf(p, slabs[p].class)
      BY <3>1 DEF Types
    <3> QED
      BY <3>2, ChunkParts
  <2>2. CASE \E p \in DOMAIN large : b = PageBlock(p, large[p])
    <3>1. PICK p \in DOMAIN large : b = PageBlock(p, large[p])
      BY <2>2
    <3>2. PICK q \in p..(p + large[p] - 1) : k \in Cells(q)
      BY <3>1 DEF PageBlock
    <3>3. k[1] = q
      BY <3>2 DEF Cells
    <3> QED
      BY <3>2, <3>3
  <2> QED
    BY <2>1, <2>2 DEF HeldOnce
<1> QED
  BY <1>1, <1>2 DEF NoSpareSlab, HeldIsMapped

\* The heap starts out empty.
LEMMA InitInv == Init => SlabInv
<1> SUFFICES ASSUME Init PROVE SlabInv
  OBVIOUS
<1> USE DEF Init
<1>1. DOMAIN slabs = {} /\ DOMAIN link = {} /\ DOMAIN large = {}
  OBVIOUS
<1>2. Types
  <2>1. classes \in [DOMAIN Sizes -> [num_slabs : Nat, first_slab : Nat]]
    BY DEF NoSlab
  <2>2. next_page \in 1..(MaxPages + 1)
    BY SlabAssumption
  <2>3. op \in [Threads -> Operation]
    BY DEF Operation, Idle, Op, NoSlab
  <2>4. DOMAIN link = UNION {ChunksOf(p, slabs[p].class) : p \in DOMAIN slabs}
    BY <1>1
  <2>5. slabs \in [DOMAIN slabs -> Header] /\ link \in [DOMAIN link -> Chunk \cup {Null, Data}]
    BY <1>1
  <2> QED
    BY <2>1, <2>2, <2>3, <2>4, <2>5 DEF Types
<1>3. PagesApart
  BY <1>1 DEF PagesApart
<1>4. HeldOnce
  BY DEF HeldOnce, Held
<1>5. OpsApart
  BY DEF OpsApart
<1>6. ASSUME NEW c \in DOMAIN Sizes PROVE ListExact(c)
  <2>1. classes[c].num_slabs = 0 /\ classes[c].first_slab = NoSlab /\ SlabsOf(c) = {}
    BY <1>1 DEF SlabsOf
  <2>2. <<>> \in [1..0 -> SlabsOf(c)]
    OBVIOUS
  <2>3. SlabList(<<>>, 0, NoSlab, slabs)
    BY DEF SlabList
  <2> QED
    BY ONLY <2>1, <2>2, <2>3, Zenon DEF ListExact
<1> QED
  BY <1>1, <1>2, <1>3, <1>4, <1>5, <1>6 DEF SlabInv

-----------------------------------------------------------------------------
(* What a step leaves alone.                                               *)

\* What a step is to the callers of kmalloc() and kfree().
HeapStep == UNCHANGED held \/ \E b \in Blocks : H!Malloc(b) \/ H!Free(b)

\* A block is handed out that was not.
LEMMA HeldMore ==
    ASSUME HeldOnce, NEW b \in Blocks, \A h \in Held : h \cap b = {}, b # {},
           held' = [held EXCEPT ![b] = @ + 1]
    PROVE  /\ held' \in [Blocks -> {0, 1}] /\ Held' = Held \cup {b}
           /\ H!Malloc(b)
<1>1. b \notin Held
  OBVIOUS
<1>2. held[b] = 0 /\ held \in [Blocks -> {0, 1}]
  BY <1>1 DEF Held, HeldOnce
<1>3. held' \in [Blocks -> {0, 1}] /\ held'[b] = 1 /\ \A h \in Blocks : h # b => held'[h] = held[h]
  BY <1>2
<1>4. Held' = Held \cup {b}
  BY <1>2, <1>3 DEF Held
<1>5. H!Malloc(b)
  BY DEF H!Malloc, Held
<1> QED
  BY <1>3, <1>4, <1>5

\* A block is given back.
LEMMA HeldLess ==
    ASSUME HeldOnce, NEW b \in Held, held' = [held EXCEPT ![b] = @ - 1]
    PROVE  /\ held' \in [Blocks -> {0, 1}] /\ Held' = Held \ {b}
           /\ b \in Blocks /\ H!Free(b)
<1>1. b \in Blocks /\ held[b] > 0
  BY DEF Held
<1>2. held[b] = 1 /\ held \in [Blocks -> {0, 1}]
  BY <1>1 DEF HeldOnce
<1>3. held' \in [Blocks -> {0, 1}] /\ held'[b] = 0 /\ \A h \in Blocks : h # b => held'[h] = held[h]
  BY <1>1, <1>2
<1>4. Held' = Held \ {b}
  BY <1>2, <1>3 DEF Held
<1>5. H!Free(b)
  BY <1>1 DEF H!Free
<1> QED
  BY <1>1, <1>3, <1>4, <1>5

\* A slab that no step touches keeps its free list.
LEMMA FreeKept ==
    ASSUME NEW p, FreeExact(p),
           /\ slabs'[p].class = slabs[p].class
           /\ slabs'[p].free_head = slabs[p].free_head
           /\ slabs'[p].free_chunks = slabs[p].free_chunks,
           \A k \in ChunksOf(p, slabs[p].class) :
              /\ link'[k] = link[k]
              /\ {k} \in Held' <=> {k} \in Held
              /\ BeingFreed(k)' <=> BeingFreed(k)
    PROVE  FreeExact(p)'
<1> DEFINE n == slabs[p].free_chunks
           c == slabs[p].class
<1>1. PICK s \in [1..n -> ChunksOf(p, c)] :
        /\ FreeList(s, n, slabs[p].free_head, link)
        /\ \A k \in ChunksOf(p, c) : Has(s, n, k) <=> {k} \notin Held /\ ~BeingFreed(k)
  BY DEF FreeExact
<1>2. \A i \in 1..n : link'[s[i]] = link[s[i]]
  BY Zenon
<1>3. FreeList(s, n, slabs[p].free_head, link')
  BY <1>1, <1>2 DEF FreeList
<1>4. \A k \in ChunksOf(p, c) : Has(s, n, k) <=> {k} \notin Held' /\ ~BeingFreed(k)'
  BY <1>1, Zenon
<1> QED
  BY <1>3, <1>4, Zenon DEF FreeExact

\* Nor does a class that no step touches lose its list.
LEMMA ListKept ==
    ASSUME NEW c, ListExact(c), classes'[c] = classes[c], SlabsOf(c)' = SlabsOf(c),
           \A p \in SlabsOf(c) : slabs'[p].next = slabs[p].next /\ slabs'[p].prev = slabs[p].prev
    PROVE  ListExact(c)'
<1> DEFINE n == classes[c].num_slabs
<1>1. PICK l \in [1..n -> SlabsOf(c)] : SlabList(l, n, classes[c].first_slab, slabs)
                                        /\ \A p \in SlabsOf(c) : Has(l, n, p)
  BY DEF ListExact
<1>2. SlabList(l, n, classes[c].first_slab, slabs')
  BY <1>1 DEF SlabList
<1> QED
  BY <1>1, <1>2 DEF ListExact

\* The cells of a large block.
LEMMA PageBlockCells ==
    ASSUME NEW p \in Nat, NEW n \in Nat \ {0}
    PROVE  /\ \A k \in PageBlock(p, n) : k[1] \in p..(p + n - 1)
           /\ <<p, 1>> \in PageBlock(p, n)
<1>1. \A k \in PageBlock(p, n) : \E q \in p..(p + n - 1) : k \in Cells(q)
  BY DEF PageBlock
<1>2. \A q : \A k \in Cells(q) : k[1] = q
  BY DEF Cells
<1>3. <<p, 1>> \in Cells(p) /\ p \in p..(p + n - 1)
  BY ChunkCounts DEF Cells
<1> QED
  BY <1>1, <1>2, <1>3 DEF PageBlock

\* Blocks callers have lie below next_page.
LEMMA HeldBelow ==
    ASSUME SlabInv, NEW b \in Held, NEW k \in b
    PROVE  k[1] \in Nat /\ k[1] < next_page
<1> USE DEF SlabInv
<1>1. next_page \in Nat
  BY SlabAssumption DEF Types
<1>2. CASE k[1] \in DOMAIN slabs
  BY <1>1, <1>2 DEF PagesApart
<1>3. CASE \E p \in DOMAIN large : k[1] \in p..(p + large[p] - 1)
  <2>1. PICK p \in DOMAIN large : k[1] \in p..(p + large[p] - 1)
    BY <1>3
  <2>2. p \in Nat \ {0} /\ large[p] \in Nat \ {0} /\ p + large[p] <= next_page
    BY DEF PagesApart
  <2> QED
    BY <1>1, <2>1, <2>2
<1> QED
  BY <1>2, <1>3, InvPages DEF HeldIsMapped

\* A chunk of a slab.
LEMMA ChunkInSlab ==
    ASSUME SlabInv, NEW p \in DOMAIN slabs, NEW k \in ChunksOf(p, slabs[p].class)
    PROVE  /\ k \in DOMAIN link /\ k[1] = p /\ k \in Chunk
           /\ {k} \in Blocks
           /\ \A q \in DOMAIN large : {k} # PageBlock(q, large[q])
           /\ \A h \in Held : k \in h => h = {k}
<1> USE DEF SlabInv
<1>1. k \in DOMAIN link /\ k[1] = p
  BY LinkDomain
<1>2. p \in Pages /\ p \in Nat /\ slabs[p].class \in DOMAIN Sizes /\ MaxPages \in Nat
  <2>1. p \in Pages
    BY SlabPages
  <2>2. MaxPages \in Nat
    BY SlabAssumption
  <2>3. slabs[p].class \in DOMAIN Sizes
    BY DEF Types, Header
  <2> QED
    BY <2>1, <2>2, <2>3 DEF Pages
<1>3. k = <<p, k[2]>> /\ k[2] \in 1..chunks_per_slab(1) /\ k[2] \in Nat
  <2>1. k = <<p, k[2]>> /\ k[2] \in 1..chunks_per_slab(slabs[p].class)
    BY ChunkParts
  <2>2. /\ chunks_per_slab(slabs[p].class) \in Nat /\ chunks_per_slab(1) \in Nat
        /\ chunks_per_slab(slabs[p].class) <= chunks_per_slab(1)
    BY <1>2, ChunkCounts
  <2> QED
    BY <2>1, <2>2
<1>4. k \in Chunk
  BY <1>2, <1>3 DEF Chunk
<1>5. k \in Cells(p)
  BY <1>3 DEF Cells
<1>6. {k} \in Blocks
  <2>1. k \in UNION {Cells(q) : q \in Pages}
    BY <1>2, <1>5
  <2> QED
    BY <2>1 DEF Blocks
<1>7. ASSUME NEW q \in DOMAIN large PROVE k \notin PageBlock(q, large[q])
  <2>1. q \in Nat \ {0} /\ large[q] \in Nat \ {0} /\ (p < q \/ q + large[q] <= p)
    BY DEF PagesApart
  <2>2. p \notin q..(q + large[q] - 1)
    BY <1>2, <2>1
  <2> QED
    BY ONLY <1>1, <2>1, <2>2, PageBlockCells, Zenon
<1>8. \A h \in Held : k \in h => h = {k}
  BY <1>7, Zenon DEF HeldOnce
<1> QED
  BY <1>1, <1>4, <1>6, <1>7, <1>8

\* An operation other than the first half of free() frees nothing yet.
LEMMA FreedKept ==
    ASSUME Types, NEW t \in Threads, NEW o, op' = [op EXCEPT ![t] = o],
           op[t].at # "linked", o.at # "linked", NEW k
    PROVE  BeingFreed(k)' <=> BeingFreed(k)
<1>1. op \in [Threads -> Operation]
  BY DEF Types
<1>2. op'[t] = o /\ \A u \in Threads : u # t => op'[u] = op[u]
  BY <1>1
<1> QED
  BY <1>2 DEF BeingFreed

\* A thread that starts on a class finds no other thread there.
LEMMA ClassIsQuiet ==
    ASSUME ~raced', NEW t \in Threads, NEW c, Start(t, c)
    PROVE  op[t] = Idle /\ op[t].at = "idle"
           /\ \A u \in Threads : op[u] # Idle => slabs[op[u].slab].class # c
<1>1. op[t] = Idle /\ \A u \in Threads : op[u] # Idle => slabs[op[u].slab].class # c
  BY Zenon DEF Start, Alone
<1> QED
  BY <1>1 DEF Idle, Op

-----------------------------------------------------------------------------
(* The large blocks.                                                       *)

\* A large block has at least one page.
LEMMA PagesPositive ==
    ASSUME NEW n \in Nat, n > 0
    PROVE  NumPages(n) \in Nat \ {0}
<1>1. n + PAGE_SIZE - 1 \in Nat /\ PAGE_SIZE \in Nat /\ PAGE_SIZE > 0
      /\ 1 * PAGE_SIZE <= n + PAGE_SIZE - 1
  BY SlabAssumption
<1>2. 1 <= (n + PAGE_SIZE - 1) \div PAGE_SIZE
  BY <1>1, DivAtLeast
<1>3. (n + PAGE_SIZE - 1) \div PAGE_SIZE \in Nat
  BY <1>1, DivMod
<1> QED
  BY <1>2, <1>3 DEF NumPages

\* Large blocks come and go: what the slabs need of such a step.
LEMMA LargeKeeps ==
    ASSUME SlabInv, UNCHANGED <<classes, slabs, link, op>>,
           next_page' \in 1..(MaxPages + 1), PagesApart', HeldOnce',
           \A p \in DOMAIN slabs : \A k \in ChunksOf(p, slabs[p].class) :
              {k} \in Held' <=> {k} \in Held
    PROVE  SlabInv'
<1> USE DEF SlabInv
<1>1. Types'
  BY DEF Types, ChunksOf, chunks_per_slab
<1>2. \A k : BeingFreed(k)' <=> BeingFreed(k)
  BY DEF BeingFreed
<1>3. ASSUME NEW p \in DOMAIN slabs' PROVE FreeExact(p)'
  BY <1>2, FreeKept
<1>4. ASSUME NEW c \in DOMAIN Sizes PROVE ListExact(c)'
  BY ListKept DEF SlabsOf
<1>5. ASSUME NEW p \in DOMAIN slabs' PROVE NotSpare(p)'
  BY Zenon DEF NotSpare
<1>6. OpsApart'
  <2>1. ASSUME NEW t \in Threads, op[t] # Idle, op[t].at = "linked" PROVE {op[t].chunk} \notin Held'
    BY <2>1, OpFacts, Zenon DEF OpsApart
  <2> QED
    BY <2>1 DEF OpsApart
<1> QED
  BY <1>1, <1>3, <1>4, <1>5, <1>6

\* alloc_large() hands out pages nobody has.
LEMMA StepAllocKernel ==
    ASSUME SlabInv, NEW bytes \in Nat, alloc_large(bytes)
    PROVE  SlabInv' /\ HeapStep
<1> USE DEF SlabInv
<1> DEFINE n == NumPages(bytes + 8)
           b == PageBlock(next_page, n)
<1>1. /\ next_page + n <= MaxPages + 1
      /\ large' = [p \in DOMAIN large \cup {next_page} |-> IF p = next_page THEN n ELSE large[p]]
      /\ next_page' = next_page + n
      /\ held' = [held EXCEPT ![b] = @ + 1]
      /\ UNCHANGED <<classes, slabs, link, op>>
  BY DEF alloc_large, take_pages
<1>2. n \in Nat \ {0} /\ MaxPages \in Nat
  BY PagesPositive, SlabAssumption
<1>3. next_page \in 1..(MaxPages + 1) /\ next_page \in Nat
  BY <1>2 DEF Types
<1> HIDE DEF n
<1>4. b \in Blocks
  <2>1. n \in 1..(MaxPages + 1 - next_page) /\ next_page \in Pages
    BY <1>1, <1>2, <1>3 DEF Pages
  <2>2. b \in {PageBlock(next_page, m) : m \in 1..(MaxPages + 1 - next_page)}
    BY <2>1, Zenon
  <2> QED
    BY <2>1, <2>2, Zenon DEF Blocks
<1>5. <<next_page, 1>> \in b /\ \A k \in b : k[1] >= next_page /\ k[1] \in Nat
  BY <1>2, <1>3, PageBlockCells
<1> HIDE DEF b
<1>6. \A h \in Held : h \cap b = {}
  BY <1>3, <1>5, HeldBelow
<1>7. held' \in [Blocks -> {0, 1}] /\ Held' = Held \cup {b} /\ H!Malloc(b)
  BY <1>1, <1>4, <1>5, <1>6, HeldMore, Zenon
<1>8. DOMAIN large' = DOMAIN large \cup {next_page} /\ next_page \notin DOMAIN large
      /\ large'[next_page] = n /\ \A p \in DOMAIN large : large'[p] = large[p]
  <2>1. next_page \notin DOMAIN large
    BY <1>3 DEF PagesApart
  <2> QED
    BY <1>1, <2>1
<1>9. PagesApart'
  <2>1. DOMAIN slabs \subseteq 1..(next_page' - 1)
    BY <1>1, <1>2, <1>3 DEF PagesApart
  <2>2. large' \in [DOMAIN large' -> Nat \ {0}] /\ DOMAIN large' \subseteq Nat \ {0}
    BY <1>1, <1>2, <1>3, <1>8 DEF PagesApart
  <2>3. \A p \in DOMAIN large : p \in Nat /\ large[p] \in Nat /\ p < next_page /\ p + large[p] <= next_page
    BY <1>3 DEF PagesApart
  <2>4. \A p \in DOMAIN large' : p + large'[p] <= next_page'
    BY <1>1, <1>2, <1>3, <1>8, <2>3
  <2>5. \A p, q \in DOMAIN large' : p < q => p + large'[p] <= q
    BY <1>3, <1>8, <2>3 DEF PagesApart
  <2>6. \A p \in DOMAIN large', q \in DOMAIN slabs : q < p \/ p + large'[p] <= q
    BY <1>3, <1>8 DEF PagesApart
  <2> QED
    BY <1>1, <2>1, <2>2, <2>4, <2>5, <2>6 DEF PagesApart
<1>10. HeldOnce'
  <2>1. ASSUME NEW h \in Held'
        PROVE  (\E k \in DOMAIN link' : h = {k}) \/ (\E p \in DOMAIN large' : h = PageBlock(p, large'[p]))
    <3>1. CASE h = b
      BY <3>1, <1>8 DEF b
    <3>2. CASE h \in Held
      BY <3>2, <1>1, <1>8 DEF HeldOnce
    <3> QED
      BY <2>1, <3>1, <3>2, <1>7
  <2> QED
    BY ONLY <2>1, <1>7, Zenon DEF HeldOnce, PageBlock, Cells, chunks_per_slab
<1>11. \A p \in DOMAIN slabs : \A k \in ChunksOf(p, slabs[p].class) : {k} \in Held' <=> {k} \in Held
  <2>1. \A p \in DOMAIN slabs : \A k \in ChunksOf(p, slabs[p].class) : k[1] = p /\ p < next_page
    BY <1>3, ChunkParts DEF PagesApart
  <2>2. \A p \in DOMAIN slabs : \A k \in ChunksOf(p, slabs[p].class) : {k} # b
    BY <1>3, <1>5, <2>1
  <2> QED
    BY <1>7, <2>2
<1>12. SlabInv'
  <2>1. next_page' \in 1..(MaxPages + 1)
    BY <1>1, <1>2, <1>3
  <2> QED
    BY <1>1, <2>1, <1>9, <1>10, <1>11, LargeKeeps
<1> QED
  BY <1>4, <1>7, <1>12 DEF HeapStep

\* free_large() gives back the pages of one block.
LEMMA StepFreeKernel ==
    ASSUME SlabInv, NEW p \in DOMAIN large, PageBlock(p, large[p]) \in Held, free_large(p)
    PROVE  SlabInv' /\ HeapStep
<1> USE DEF SlabInv
<1> DEFINE b == PageBlock(p, large[p])
<1>1. /\ held' = [held EXCEPT ![b] = @ - 1]
      /\ large' = [q \in DOMAIN large \ {p} |-> large[q]]
      /\ UNCHANGED <<classes, slabs, link, next_page, op>>
  BY DEF free_large, Restrict
<1>2. held' \in [Blocks -> {0, 1}] /\ Held' = Held \ {b} /\ b \in Blocks /\ H!Free(b)
  BY <1>1, HeldLess, Zenon
<1>3. DOMAIN large' = DOMAIN large \ {p} /\ \A q \in DOMAIN large' : large'[q] = large[q]
  BY <1>1
<1>4. PagesApart'
  BY <1>1, <1>3 DEF PagesApart
<1>5. HeldOnce'
  <2>1. ASSUME NEW h \in Held'
        PROVE  (\E k \in DOMAIN link' : h = {k}) \/ (\E q \in DOMAIN large' : h = PageBlock(q, large'[q]))
    <3>1. h \in Held /\ h # b
      BY <2>1, <1>2
    <3>2. CASE \E k \in DOMAIN link : h = {k}
      BY <3>2, <1>1
    <3>3. CASE \E q \in DOMAIN large : h = PageBlock(q, large[q])
      BY <3>1, <3>3, <1>3
    <3> QED
      BY <3>1, <3>2, <3>3 DEF HeldOnce
  <2> QED
    BY <2>1, <1>2 DEF HeldOnce, PageBlock, Cells, chunks_per_slab
<1>6. \A q \in DOMAIN slabs : \A k \in ChunksOf(q, slabs[q].class) : {k} \in Held' <=> {k} \in Held
  BY <1>2, ChunkInSlab
<1>7. next_page' \in 1..(MaxPages + 1)
  BY <1>1, SMTT(30) DEF Types
<1>8. SlabInv'
  BY <1>1, <1>4, <1>5, <1>6, <1>7, LargeKeeps, ZenonT(30)
<1> QED
  BY <1>2, <1>8 DEF HeapStep

=============================================================================
