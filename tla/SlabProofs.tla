------------------------------ MODULE SlabProofs ------------------------------
(***************************************************************************)
(* Proofs about the kernel heap of module Slab: with no two threads in the *)
(* same size class, slab::alloc(), slab::free(), create_slab() and         *)
(* destroy_slab() keep the free lists, the slab lists and the pages in     *)
(* step with what callers have, and kmalloc() and kfree() are the heap of  *)
(* module HeapBlocks.                                                      *)
(***************************************************************************)
EXTENDS SlabAlloc, SlabFree, FiniteSetTheorems, WellFoundedInduction

-----------------------------------------------------------------------------
(* Counting, and walking along a list.                                     *)

\* A set of natural numbers with an element has a least one.
LEMMA LeastElement ==
    ASSUME NEW T, T \subseteq Nat, T # {}
    PROVE  \E m \in T : \A y \in T : m <= y
<1>1. \E m \in T : \A y \in T : ~(<<y, m>> \in OpToRel(<, Nat))
  BY WFMin, NatLessThanWellFounded, Zenon
<1>2. PICK m \in T : \A y \in T : ~(<<y, m>> \in OpToRel(<, Nat))
  BY <1>1, Zenon
<1>3. \A y \in T : y < m => <<y, m>> \in OpToRel(<, Nat)
  BY Zenon DEF OpToRel
<1>4. \A y \in T : ~(y < m)
  BY <1>2, <1>3, Zenon
<1>5. \A y \in T : m <= y
  BY <1>4
<1> QED
  BY <1>5

\* Two functions that agree at 0 and, wherever they agree, one further on, agree.
LEMMA AgreeStepwise ==
    \A f, g : \A n \in Nat :
        f[0] = g[0] /\ (\A i \in 1..n : f[i - 1] = g[i - 1] => f[i] = g[i])
            => \A i \in 0..n : f[i] = g[i]
<1> SUFFICES ASSUME NEW f, NEW g, NEW n \in Nat, f[0] = g[0],
                    \A i \in 1..n : f[i - 1] = g[i - 1] => f[i] = g[i]
             PROVE  \A i \in 0..n : f[i] = g[i]
  OBVIOUS
<1> DEFINE T == {i \in 0..n : f[i] # g[i]}
<1>1. SUFFICES ASSUME T # {} PROVE FALSE
  OBVIOUS
<1>a. T \subseteq Nat
  OBVIOUS
<1>2. PICK m \in T : \A y \in T : m <= y
  <2> HIDE DEF T
  <2> QED
    BY ONLY <1>1, <1>a, LeastElement, Zenon
<1>3. m \in 1..n /\ m - 1 \in 0..n /\ m - 1 \notin T
  BY <1>2
<1> QED
  BY <1>2, <1>3

\* The walk along a free list, as ChunksAccounted takes it.
LEMMA FreeWalk ==
    ASSUME NEW p, NEW S, NEW n, NEW s, n \in Nat, s \in [1..n -> S], Null \notin S,
           FreeList(s, n, slabs[p].free_head, link)
    PROVE  \A i \in 0..chunks_per_slab(1) :
              FreeChunkAt(p)[i] = IF i < n THEN s[i + 1] ELSE Null
<1>0. PICK N \in Nat : N = chunks_per_slab(1)
  BY ChunkCounts
<1> DEFINE w == [i \in 0..N |-> IF i < n THEN s[i + 1] ELSE Null]
           at == FreeChunkAt(p)
<1>2. w[0] = slabs[p].free_head
  BY DEF FreeList
<1>3. ASSUME NEW i \in 1..N
      PROVE  w[i] = IF w[i - 1] = Null THEN Null ELSE link[w[i - 1]]
  <2>1. i \in 0..N /\ i - 1 \in 0..N
    OBVIOUS
  <2>2. CASE i - 1 < n
    <3>1. i \in 1..n /\ w[i - 1] = s[i] /\ s[i] # Null
      BY <2>1, <2>2
    <3>2. link[s[i]] = IF i = n THEN Null ELSE s[i + 1]
      BY <3>1 DEF FreeList
    <3> QED
      BY <2>1, <3>1, <3>2
  <2>3. CASE ~(i - 1 < n)
    BY <2>1, <2>3
  <2> QED
    BY <2>2, <2>3
<1>4. w = [i \in 0..N |-> IF i = 0 THEN slabs[p].free_head
                          ELSE IF w[i - 1] = Null THEN Null ELSE link[w[i - 1]]]
  <2>1. \A i \in 0..N : w[i] = IF i = 0 THEN slabs[p].free_head
                               ELSE IF w[i - 1] = Null THEN Null ELSE link[w[i - 1]]
    <3> HIDE DEF w
    <3> QED
      BY <1>2, <1>3
  <2> QED
    BY <2>1
<1>5. \A i \in 0..N : w[i] = IF i < n THEN s[i + 1] ELSE Null
  OBVIOUS
<1> HIDE DEF w
<1>6. at = [i \in 0..N |-> IF i = 0 THEN slabs[p].free_head
                           ELSE IF at[i - 1] = Null THEN Null ELSE link[at[i - 1]]]
  BY <1>0, <1>4, Zenon DEF FreeChunkAt
<1> HIDE DEF at
<1>7. at[0] = slabs[p].free_head
  BY <1>6
<1>8. \A i \in 1..N : at[i] = IF at[i - 1] = Null THEN Null ELSE link[at[i - 1]]
  BY <1>6
<1>9. \A i \in 0..N : at[i] = w[i]
  <2>1. at[0] = w[0]
    BY <1>2, <1>7
  <2>2. \A i \in 1..N : at[i - 1] = w[i - 1] => at[i] = w[i]
    BY <1>3, <1>8, Zenon
  <2> QED
    BY ONLY <2>1, <2>2, AgreeStepwise, ZenonT(30)
<1> QED
  BY <1>0, <1>5, <1>9 DEF at

\* The walk along the slabs of a class.
LEMMA SlabWalk ==
    ASSUME NEW c, NEW S, NEW n, NEW l, n \in Nat, l \in [1..n -> S], NoSlab \notin S,
           SlabList(l, n, classes[c].first_slab, slabs)
    PROVE  \A i \in 0..MaxPages : SlabAt(c)[i] = IF i < n THEN l[i + 1] ELSE NoSlab
<1>0. PICK N \in Nat : N = MaxPages
  BY SlabAssumption
<1> DEFINE w == [i \in 0..N |-> IF i < n THEN l[i + 1] ELSE NoSlab]
           at == SlabAt(c)
<1>2. w[0] = classes[c].first_slab
  BY DEF SlabList
<1>3. ASSUME NEW i \in 1..N
      PROVE  w[i] = IF w[i - 1] = NoSlab THEN NoSlab ELSE slabs[w[i - 1]].next
  <2>1. i \in 0..N /\ i - 1 \in 0..N
    OBVIOUS
  <2>2. CASE i - 1 < n
    <3>1. i \in 1..n /\ w[i - 1] = l[i] /\ l[i] # NoSlab
      BY <2>1, <2>2
    <3>2. slabs[l[i]].next = IF i = n THEN NoSlab ELSE l[i + 1]
      BY <3>1 DEF SlabList
    <3> QED
      BY <2>1, <3>1, <3>2
  <2>3. CASE ~(i - 1 < n)
    BY <2>1, <2>3
  <2> QED
    BY <2>2, <2>3
<1>4. w = [i \in 0..N |-> IF i = 0 THEN classes[c].first_slab
                          ELSE IF w[i - 1] = NoSlab THEN NoSlab ELSE slabs[w[i - 1]].next]
  <2>1. \A i \in 0..N : w[i] = IF i = 0 THEN classes[c].first_slab
                               ELSE IF w[i - 1] = NoSlab THEN NoSlab ELSE slabs[w[i - 1]].next
    <3> HIDE DEF w
    <3> QED
      BY <1>2, <1>3
  <2> QED
    BY <2>1
<1>5. \A i \in 0..N : w[i] = IF i < n THEN l[i + 1] ELSE NoSlab
  OBVIOUS
<1> HIDE DEF w
<1>6. at = [i \in 0..N |-> IF i = 0 THEN classes[c].first_slab
                           ELSE IF at[i - 1] = NoSlab THEN NoSlab ELSE slabs[at[i - 1]].next]
  BY <1>0, <1>4, Zenon DEF SlabAt
<1> HIDE DEF at
<1>7. at[0] = classes[c].first_slab
  BY <1>6
<1>8. \A i \in 1..N : at[i] = IF at[i - 1] = NoSlab THEN NoSlab ELSE slabs[at[i - 1]].next
  BY <1>6
<1>9. \A i \in 0..N : at[i] = w[i]
  <2>1. at[0] = w[0]
    BY <1>2, <1>7
  <2>2. \A i \in 1..N : at[i - 1] = w[i - 1] => at[i] = w[i]
    BY <1>3, <1>8, Zenon
  <2> QED
    BY ONLY <2>1, <2>2, AgreeStepwise, Zenon
<1> QED
  BY <1>0, <1>5, <1>9 DEF at

\* A list of different chunks of a slab has no more than there are, and all of
\* them if it has as many.
LEMMA CountChunks ==
    ASSUME NEW p, NEW c \in DOMAIN Sizes, NEW n \in Nat, NEW s \in [1..n -> ChunksOf(p, c)],
           \A i, j \in 1..n : s[i] = s[j] => i = j
    PROVE  /\ n <= chunks_per_slab(c)
           /\ n = chunks_per_slab(c) <=> \A k \in ChunksOf(p, c) : Has(s, n, k)
<1> DEFINE m == chunks_per_slab(c)
           b == [i \in 1..m |-> <<p, i>>]
<1>1. m \in Nat
  BY ChunkCounts
<1>a. b \in [1..m -> ChunksOf(p, c)] /\ \A i, j \in 1..m : b[i] = b[j] => i = j
  BY DEF ChunksOf
<1>b. \A k \in ChunksOf(p, c) : \E i \in 1..m : b[i] = k
  BY DEF ChunksOf
<1> HIDE DEF m, b
<1>2. b \in Bijection(1..m, ChunksOf(p, c))
  BY <1>a, <1>b, Zenon DEF Bijection, Injection, Surjection, IsInjective
<1>3. IsFiniteSet(1..m) /\ Cardinality(1..m) = m /\ IsFiniteSet(1..n) /\ Cardinality(1..n) = n
  BY <1>1, FS_Interval, 1 \in Int, n \in Int, m \in Int
<1>4. ExistsBijection(1..m, ChunksOf(p, c))
  BY <1>2 DEF ExistsBijection
<1>5. IsFiniteSet(ChunksOf(p, c)) /\ Cardinality(ChunksOf(p, c)) = m
  BY <1>3, <1>4, FS_Bijection
<1>6. s \in Injection(1..n, ChunksOf(p, c))
  BY Zenon DEF Injection, IsInjective
<1>7. n <= m /\ (n = m <=> s \in Surjection(1..n, ChunksOf(p, c)))
  BY <1>3, <1>5, <1>6, FS_Injection
<1>8. s \in Surjection(1..n, ChunksOf(p, c)) <=> \A k \in ChunksOf(p, c) : Has(s, n, k)
  BY DEF Surjection, Has
<1> QED
  BY <1>7, <1>8 DEF m

\* The set of a list of different elements has as many as the list.
LEMMA CountList ==
    ASSUME NEW S, NEW n \in Nat, NEW s, DOMAIN s = 1..n, s = [i \in 1..n |-> s[i]],
           \A i, j \in 1..n : s[i] = s[j] => i = j,
           \A k : k \in S <=> Has(s, n, k)
    PROVE  Cardinality(S) = n
<1>1. s \in [1..n -> S] /\ \A k \in S : \E i \in 1..n : s[i] = k
  BY DEF Has
<1>2. s \in Bijection(1..n, S)
  BY <1>1, Zenon DEF Bijection, Injection, Surjection, IsInjective
<1> QED
  BY <1>2, FS_CountingElements DEF ExistsBijection

\* A class has at most one slab per page.
LEMMA CountSlabs ==
    ASSUME NEW S, S \subseteq Pages, NEW n \in Nat, NEW l \in [1..n -> S],
           \A i, j \in 1..n : l[i] = l[j] => i = j
    PROVE  n <= MaxPages
<1>1. MaxPages \in Nat
  BY SlabAssumption
<1>2. IsFiniteSet(1..MaxPages) /\ Cardinality(1..MaxPages) = MaxPages /\ Cardinality(1..n) = n
  BY <1>1, FS_Interval
<1>3. l \in Injection(1..n, 1..MaxPages)
  <2>1. l \in [1..n -> 1..MaxPages]
    BY Zenon DEF Pages
  <2> QED
    BY <2>1, Zenon DEF Injection, IsInjective
<1> QED
  BY <1>2, <1>3, FS_Injection

-----------------------------------------------------------------------------
(* What the invariant implies.                                             *)

\* The number of slabs of a class and its first slab are in bounds.
LEMMA ClassBounds ==
    ASSUME Types, PagesApart, NEW c \in DOMAIN Sizes, ListExact(c)
    PROVE  /\ classes[c].num_slabs \in 0..MaxPages
           /\ classes[c].first_slab \in Pages \cup {NoSlab}
<1> DEFINE n == classes[c].num_slabs
<1>1. PICK l \in [1..n -> SlabsOf(c)] : SlabList(l, n, classes[c].first_slab, slabs)
  BY DEF ListExact
<1>2. n \in Nat
  BY DEF Types
<1>3. SlabsOf(c) \subseteq Pages
  BY SlabPages DEF SlabsOf
<1> HIDE DEF n
<1>4. n <= MaxPages
  BY ONLY <1>1, <1>2, <1>3, CountSlabs, Zenon DEF SlabList
<1>5. classes[c].first_slab \in Pages \cup {NoSlab}
  BY <1>1, <1>2, <1>3 DEF SlabList
<1> QED
  BY <1>2, <1>4, <1>5, SlabAssumption DEF n

\* The invariant gives the types.
LEMMA InvTypes == SlabInv => TypeOK
<1> SUFFICES ASSUME SlabInv PROVE TypeOK
  OBVIOUS
<1> USE DEF SlabInv
<1>1. \A c \in DOMAIN Sizes : /\ classes[c].num_slabs \in 0..MaxPages
                              /\ classes[c].first_slab \in Pages \cup {NoSlab}
  BY ClassBounds
<1>2. classes \in [DOMAIN Sizes -> [num_slabs : 0..MaxPages, first_slab : Pages \cup {NoSlab}]]
  BY <1>1 DEF Types
<1>3. DOMAIN slabs \subseteq Pages
  BY SlabPages
<1>4. DOMAIN large \subseteq Pages
  <2> SUFFICES ASSUME NEW p \in DOMAIN large PROVE p \in Pages
    OBVIOUS
  <2>1. p \in Nat \ {0} /\ large[p] \in Nat \ {0} /\ p + large[p] <= next_page
    BY DEF PagesApart
  <2>2. next_page \in 1..(MaxPages + 1) /\ MaxPages \in Nat
    BY SlabAssumption DEF Types
  <2> QED
    BY <2>1, <2>2 DEF Pages
<1>5. ASSUME NEW p \in DOMAIN slabs
      PROVE  slabs[p].free_chunks \in 0..chunks_per_slab(slabs[p].class)
  <2>1. slabs[p].free_chunks \in Nat /\ slabs[p].class \in DOMAIN Sizes
    BY DEF Types, Header
  <2>2. PICK s \in [1..slabs[p].free_chunks -> ChunksOf(p, slabs[p].class)] :
            FreeList(s, slabs[p].free_chunks, slabs[p].free_head, link)
    BY DEF FreeExact
  <2>3. \A i, j \in 1..slabs[p].free_chunks : s[i] = s[j] => i = j
    BY <2>2 DEF FreeList
  <2>4. slabs[p].free_chunks <= chunks_per_slab(slabs[p].class)
    BY ONLY <2>1, <2>2, <2>3, CountChunks, Zenon
  <2> QED
    BY <2>1, <2>4, ChunkCounts
<1>6. next_page \in 1..(MaxPages + 1)
  BY DEF Types
<1>7. held \in [Blocks -> Nat]
  BY DEF HeldOnce
<1>8. \A t \in Threads : op[t].at \in {"idle", "found", "linked"}
  BY DEF Types, Operation
<1> QED
  BY ONLY <1>2, <1>3, <1>4, <1>5, <1>6, <1>7, <1>8, SMTT(30) DEF TypeOK

\* The free lists.
LEMMA InvChunks == SlabInv => ChunksAccounted
<1> SUFFICES ASSUME SlabInv, NEW p \in DOMAIN slabs, Quiet(slabs[p].class)
             PROVE  LET at == FreeChunkAt(p)
                        n == slabs[p].free_chunks
                        free == {at[i] : i \in 0..(n - 1)}
                    IN  /\ at[n] = Null
                        /\ Cardinality(free) = n
                        /\ free \cap HeldIn(p) = {}
                        /\ free \cup HeldIn(p) = ChunksOf(p, slabs[p].class)
  BY Zenon DEF ChunksAccounted
<1> USE DEF SlabInv
<1> DEFINE at == FreeChunkAt(p)
           n == slabs[p].free_chunks
           c == slabs[p].class
           free == {at[i] : i \in 0..(n - 1)}
<1>1. n \in Nat /\ c \in DOMAIN Sizes
  BY DEF Types, Header
<1>2. PICK s \in [1..n -> ChunksOf(p, c)] :
        /\ FreeList(s, n, slabs[p].free_head, link)
        /\ \A k \in ChunksOf(p, c) : Has(s, n, k) <=> {k} \notin Held /\ ~BeingFreed(k)
  BY DEF FreeExact
<1>3. Null \notin ChunksOf(p, c)
  BY ChunkParts
<1>4. \A k \in ChunksOf(p, c) : ~BeingFreed(k)
  BY QuietNotFreed DEF Quiet
<1>5. \A k : k \in HeldIn(p) <=> k \in ChunksOf(p, c) /\ {k} \in Held
  BY LinkDomain, Zenon DEF HeldIn
<1>6. \A i, j \in 1..n : s[i] = s[j] => i = j
  BY <1>2 DEF FreeList
<1>7. n <= chunks_per_slab(1) /\ chunks_per_slab(1) \in Nat
  <2> HIDE DEF n, c
  <2>1. n <= chunks_per_slab(c)
    BY ONLY <1>1, <1>6, CountChunks, Zenon
  <2>2. /\ chunks_per_slab(c) \in Nat /\ chunks_per_slab(1) \in Nat
        /\ chunks_per_slab(c) <= chunks_per_slab(1)
    BY <1>1, ChunkCounts
  <2> QED
    BY <1>1, <2>1, <2>2
<1>8. \A i \in 0..chunks_per_slab(1) : at[i] = IF i < n THEN s[i + 1] ELSE Null
  BY <1>1, <1>2, <1>3, FreeWalk
<1> HIDE DEF n, c, at
<1>9. at[n] = Null /\ \A i \in 0..(n - 1) : at[i] = s[i + 1] /\ i + 1 \in 1..n
  BY <1>1, <1>7, <1>8
<1>10. free = {s[i] : i \in 1..n}
  <2>1. \A i \in 1..n : i - 1 \in 0..(n - 1) /\ s[i] = at[i - 1]
    BY <1>1, <1>9
  <2> QED
    BY <1>9, <2>1
<1>11. \A k : k \in free <=> Has(s, n, k)
  BY <1>10 DEF Has
<1>12. \A k : Has(s, n, k) => k \in ChunksOf(p, c)
  BY DEF Has
<1>13. \A k : k \in ChunksOf(p, c) => (k \in free <=> k \notin HeldIn(p))
  BY ONLY <1>2, <1>4, <1>5, <1>11, Zenon DEF c
<1> HIDE DEF free
<1>14. free \cap HeldIn(p) = {} /\ free \cup HeldIn(p) = ChunksOf(p, c)
  BY ONLY <1>5, <1>11, <1>12, <1>13, Zenon
<1>15. Cardinality(free) = n
  BY <1>1, <1>6, <1>11, CountList
<1> QED
  BY <1>9, <1>14, <1>15 DEF n, c, at, free

\* The slab lists.
LEMMA InvLists == SlabInv => ListsConsistent
<1> SUFFICES ASSUME SlabInv, NEW c \in DOMAIN Sizes
             PROVE  LET at == SlabAt(c)
                        n == classes[c].num_slabs
                    IN  /\ {at[i] : i \in 0..(n - 1)} = {p \in DOMAIN slabs : slabs[p].class = c}
                        /\ at[n] = NoSlab
                        /\ \A i \in 1..(n - 1) : slabs[at[i]].prev = at[i - 1]
                        /\ n > 0 => slabs[at[0]].prev = NoSlab
  BY DEF ListsConsistent
<1> USE DEF SlabInv
<1> DEFINE at == SlabAt(c)
           n == classes[c].num_slabs
<1>1. n \in Nat /\ n <= MaxPages /\ MaxPages \in Nat
  BY ClassBounds, SlabAssumption
<1>2. PICK l \in [1..n -> SlabsOf(c)] : SlabList(l, n, classes[c].first_slab, slabs)
                                        /\ \A p \in SlabsOf(c) : Has(l, n, p)
  BY DEF ListExact
<1>3. NoSlab \notin SlabsOf(c)
  BY SlabPages DEF SlabsOf
<1>4. \A i \in 0..MaxPages : at[i] = IF i < n THEN l[i + 1] ELSE NoSlab
  BY <1>1, <1>2, <1>3, SlabWalk
<1>5. \A i \in 1..n : slabs[l[i]].prev = IF i = 1 THEN NoSlab ELSE l[i - 1]
  BY <1>2 DEF SlabList
<1> HIDE DEF n, at
<1>6. at[n] = NoSlab /\ \A i \in 0..(n - 1) : at[i] = l[i + 1] /\ i + 1 \in 1..n
  BY <1>1, <1>4
<1>7. {at[i] : i \in 0..(n - 1)} = SlabsOf(c)
  <2>1. \A i \in 0..(n - 1) : at[i] \in SlabsOf(c)
    BY <1>6
  <2>2. ASSUME NEW p \in SlabsOf(c) PROVE \E i \in 0..(n - 1) : at[i] = p
    <3>1. PICK i \in 1..n : l[i] = p
      BY <1>2 DEF Has
    <3>2. i - 1 \in 0..(n - 1) /\ at[i - 1] = p
      BY <1>1, <1>6, <3>1
    <3> QED
      BY <3>2
  <2> QED
    BY <2>1, <2>2
<1>8. \A i \in 1..(n - 1) : slabs[at[i]].prev = at[i - 1]
  <2> TAKE i \in 1..(n - 1)
  <2>1. i \in 0..(n - 1) /\ i - 1 \in 0..(n - 1) /\ i + 1 \in 1..n /\ i + 1 # 1
        /\ (i + 1) - 1 = i /\ (i - 1) + 1 = i
    BY <1>1
  <2>2. at[i] = l[i + 1] /\ at[i - 1] = l[i]
    BY <1>6, <2>1
  <2>3. slabs[l[i + 1]].prev = l[i]
    BY <1>5, <2>1
  <2> QED
    BY <2>2, <2>3
<1>9. n > 0 => slabs[at[0]].prev = NoSlab
  BY <1>1, <1>5, <1>6
<1> QED
  BY <1>6, <1>7, <1>8, <1>9 DEF n, at, SlabsOf

\* The invariant is as strong as the property.
LEMMA InvConsistent == SlabInv => HeapConsistent
BY InvTypes, InvChunks, InvLists, InvPages DEF HeapConsistent

-----------------------------------------------------------------------------
(* Every step keeps the invariant.                                         *)

\* free(), second step: the free list with the chunk, and the threads elsewhere.
LEMMA Counting ==
    ASSUME SlabInv, NEW t \in Threads, op[t].at = "linked", op' = [op EXCEPT ![t] = Idle],
           NEW p, NEW chunk, NEW c, NEW n,
           p = op[t].slab, chunk = op[t].chunk, c = slabs[p].class, n = slabs[p].free_chunks
    PROVE  Counted(t, p, chunk, c, n)
<1> USE DEF SlabInv
<1>1. p \in DOMAIN slabs /\ chunk \in ChunksOf(p, c) /\ op[t] # Idle /\ link[chunk] = slabs[p].free_head
      /\ {chunk} \notin Held
  BY OpFacts, Zenon DEF OpsApart
<1>2. c \in DOMAIN Sizes /\ n \in Nat
  BY <1>1 DEF Types, Header
<1>3. op'[t] = Idle /\ (\A u \in Threads : u # t => op'[u] = op[u]) /\ op' \in [Threads -> Operation]
      /\ Idle.at = "idle"
  <2>1. Idle \in Operation /\ Idle.at = "idle"
    BY DEF Idle, Op, Operation, NoSlab
  <2> QED
    BY <2>1 DEF Types
<1>4. \A u \in Threads : u # t /\ op[u] # Idle => slabs[op[u].slab].class # c
  BY <1>1 DEF OpsApart
<1>5. ASSUME NEW k PROVE BeingFreed(k)' <=> BeingFreed(k) /\ k # chunk
  <2>1. ASSUME NEW u \in Threads, u # t, op[u].at = "linked", op[u].chunk = chunk PROVE FALSE
    <3>1. op[u] # Idle /\ op[u].slab = chunk[1]
      BY <2>1, OpFacts
    <3>2. chunk[1] = p
      BY <1>1, ChunkParts
    <3> QED
      BY <2>1, <3>1, <3>2, <1>4
  <2>2. BeingFreed(k)' => BeingFreed(k) /\ k # chunk
    BY <2>1, <1>3 DEF BeingFreed
  <2>3. BeingFreed(k) /\ k # chunk => BeingFreed(k)'
    BY <1>3 DEF BeingFreed
  <2> QED
    BY <2>2, <2>3
<1>6. PICK m \in Nat : m = n
  BY <1>2
<1>7. PICK s \in [1..m -> ChunksOf(p, c)] :
        /\ FreeList(s, m, slabs[p].free_head, link)
        /\ \A k \in ChunksOf(p, c) : Has(s, m, k) <=> {k} \notin Held /\ ~BeingFreed(k)
  BY <1>1, <1>6, Zenon DEF FreeExact
<1>8. ~Has(s, m, chunk) /\ BeingFreed(chunk)
  BY <1>1, <1>7 DEF BeingFreed
<1>9. PICK s2 : s2 = Pushed(chunk, s, m)
  OBVIOUS
<1>10. /\ s2 \in [1..(m + 1) -> ChunksOf(p, c)]
       /\ FreeList(s2, m + 1, chunk, link)
       /\ \A k : Has(s2, m + 1, k) <=> Has(s, m, k) \/ k = chunk
  <2>1. chunk \in ChunksOf(p, c) /\ FreeList(s, m, slabs[p].free_head, link) /\ ~Has(s, m, chunk)
        /\ link[chunk] = slabs[p].free_head /\ m \in Nat /\ s \in [1..m -> ChunksOf(p, c)]
    BY ONLY SlabInv, <1>1, <1>7, <1>8
  <2>2. IsPushed(ChunksOf(p, c), chunk, s, m)
    BY ONLY <2>1, PushFree
  <2> QED
    BY ONLY <2>2, <1>9 DEF IsPushed
<1>11. \A k \in ChunksOf(p, c) : Has(s2, m + 1, k) <=> {k} \notin Held /\ ~BeingFreed(k)'
  BY ONLY <1>1, <1>5, <1>7, <1>10, Zenon
<1>12. m + 1 = chunks_per_slab(c) <=> \A k \in ChunksOf(p, c) : Has(s2, m + 1, k)
  <2>1. m + 1 \in Nat
    OBVIOUS
  <2>2. \A i, j \in 1..(m + 1) : s2[i] = s2[j] => i = j
    BY <1>10 DEF FreeList
  <2> QED
    BY ONLY <1>2, <1>10, <2>1, <2>2, CountChunks, SMTT(30)
<1>13. n + 1 = chunks_per_slab(c) <=> \A k \in ChunksOf(p, c) : {k} \notin Held /\ ~BeingFreed(k)'
  BY ONLY <1>6, <1>11, <1>12, Zenon
<1>14. \E r \in [1..(n + 1) -> ChunksOf(p, c)] :
         /\ FreeList(r, n + 1, chunk, link)
         /\ \A k \in ChunksOf(p, c) : Has(r, n + 1, k) <=> {k} \notin Held /\ ~BeingFreed(k)'
  BY ONLY <1>6, <1>10, <1>11, Zenon
<1> QED
  BY ONLY <1>1, <1>2, <1>3, <1>4, <1>5, <1>13, <1>14, ZenonT(30) DEF Counted

\* free(), second step.
LEMMA StepCount ==
    ASSUME SlabInv, NEW t \in Threads, free_count(t)
    PROVE  SlabInv' /\ UNCHANGED held
<1>0. PICK p, chunk, c, sl : /\ p = op[t].slab /\ chunk = op[t].chunk /\ c = slabs[p].class
                             /\ sl = WithFreed(p, chunk)
  BY Zenon
<1>1. /\ op[t].at = "linked"
      /\ \/ /\ chunks_per_slab(c) - sl[p].free_chunks \in {0} /\ classes[c].num_slabs > 1
            /\ destroy_slab(sl, c, p)
         \/ /\ ~(chunks_per_slab(c) - sl[p].free_chunks \in {0} /\ classes[c].num_slabs > 1)
            /\ slabs' = sl /\ UNCHANGED <<classes, link>>
      /\ op' = [op EXCEPT ![t] = Idle]
      /\ UNCHANGED <<large, next_page, held>>
  BY <1>0, Zenon DEF free_count, CountFreed, WithFreed
<1>2. p \in DOMAIN slabs /\ c \in DOMAIN Sizes /\ slabs[p].free_chunks \in Nat /\ slabs[p] \in Header
      /\ p \in SlabsOf(c)
  <2>1. p \in DOMAIN slabs
    BY <1>0, <1>1, OpFacts, Zenon DEF SlabInv
  <2> QED
    BY <1>0, <2>1 DEF SlabInv, Types, Header, SlabsOf
<1>3. /\ DOMAIN sl = DOMAIN slabs /\ \A q \in DOMAIN slabs \ {p} : sl[q] = slabs[q]
      /\ sl[p].prev = slabs[p].prev /\ sl[p].next = slabs[p].next
      /\ sl[p].free_chunks = slabs[p].free_chunks + 1
  BY <1>0, <1>2, WithFreedHeaders
<1>4. chunks_per_slab(c) - sl[p].free_chunks \in {0} <=> slabs[p].free_chunks + 1 = chunks_per_slab(c)
  BY <1>2, <1>3, ChunkCounts
<1>a. Counted(t, op[t].slab, op[t].chunk, slabs[op[t].slab].class, slabs[op[t].slab].free_chunks)
  BY <1>1, Counting, Zenon
<1>5. CASE ~(slabs[p].free_chunks + 1 = chunks_per_slab(c) /\ classes[c].num_slabs > 1)
  <2>1. slabs' = sl /\ UNCHANGED <<classes, link, large, next_page, held>>
    BY <1>1, <1>4, <1>5
  <2>2. slabs' = [slabs EXCEPT ![op[t].slab].free_head = op[t].chunk, ![op[t].slab].free_chunks = @ + 1]
    BY <2>1, <1>0 DEF WithFreed
  <2>3. ~(/\ slabs[op[t].slab].free_chunks + 1 = chunks_per_slab(slabs[op[t].slab].class)
          /\ classes[slabs[op[t].slab].class].num_slabs > 1)
    BY <1>0, <1>5, Zenon
  <2> QED
    BY <2>1, <2>2, <2>3, <1>1, <1>a, StepKeep, ZenonT(30)
<1>6. CASE slabs[p].free_chunks + 1 = chunks_per_slab(c) /\ classes[c].num_slabs > 1
  <2>1. destroy_slab(sl, c, p) /\ UNCHANGED <<large, next_page, held>>
    BY <1>1, <1>4, <1>6
  <2>2. ~(slabs[p].prev = NoSlab /\ slabs[p].next = NoSlab)
    BY <1>2, <1>6, HasNeighbour
  <2>3. destroy_slab(WithFreed(p, chunk), c, p)
    BY <1>0, <2>1
  <2>5. Destroyed(p, c)
    BY <1>2, <2>2, <2>3, DestroyShape
  <2> QED
    BY <1>0, <1>1, <1>6, <2>1, <2>5, <1>a, StepDestroy, ZenonT(30)
<1> QED
  BY <1>5, <1>6

\* get_size_class() of a request that can_alloc() accepts is a class.
LEMMA SizeClass ==
    ASSUME NEW bytes \in Nat, can_alloc(bytes)
    PROVE  get_size_class(bytes) \in DOMAIN Sizes
<1> DEFINE T == {c \in DOMAIN Sizes : bytes <= Sizes[c]}
<1>1. Len(Sizes) \in Nat /\ DOMAIN Sizes = 1..Len(Sizes) /\ Len(Sizes) # 0
      /\ \A i \in DOMAIN Sizes : Sizes[i] \in Nat
  BY SlabAssumption
<1>2. T \subseteq Nat /\ Len(Sizes) \in T
  BY <1>1 DEF can_alloc
<1>3. PICK m \in T : \A y \in T : m <= y
  BY <1>2, LeastElement, Zenon
<1>4. m \in DOMAIN Sizes /\ bytes <= Sizes[m] /\ \A d \in 1..(m - 1) : Sizes[d] < bytes
  BY <1>1, <1>2, <1>3
<1> QED
  BY <1>4 DEF get_size_class

\* alloc(), first step.
LEMMA StepFind ==
    ASSUME SlabInv, ~raced', NEW t \in Threads, NEW c \in DOMAIN Sizes, alloc_find(t, c)
    PROVE  SlabInv' /\ UNCHANGED held
<1>0. PICK n \in Nat : n = classes[c].num_slabs
  BY DEF SlabInv, Types
<1>1. PICK l \in [1..n -> SlabsOf(c)] :
        SlabList(l, n, classes[c].first_slab, slabs) /\ \A q \in SlabsOf(c) : Has(l, n, q)
  BY <1>0 DEF SlabInv, ListExact
<1>2. NoSlab \notin SlabsOf(c)
  BY SlabPages DEF SlabInv, SlabsOf
<1>3. \A i \in 0..MaxPages : SlabAt(c)[i] = IF i < n THEN l[i + 1] ELSE NoSlab
  <2>1. SlabList(l, n, classes[c].first_slab, slabs)
    BY <1>1
  <2> QED
    BY ONLY <2>1, <1>2, n \in Nat, l \in [1..n -> SlabsOf(c)], SlabWalk, ZenonT(30)
<1>4. n <= MaxPages /\ MaxPages \in Nat
  <2>1. ListExact(c) /\ Types /\ PagesApart
    BY DEF SlabInv
  <2> QED
    BY <2>1, <1>0, ClassBounds, SlabAssumption
<1>5. PICK at : at = SlabAt(c)
  BY Zenon
<1>6. CASE \E i \in 0..MaxPages :
             /\ at[i] # NoSlab /\ slabs[at[i]].free_head # Null
             /\ op' = [op EXCEPT ![t] = Op("found", at[i], slabs[at[i]].free_head)]
             /\ UNCHANGED heap
  <2>1. PICK i \in 0..MaxPages :
             /\ at[i] # NoSlab /\ slabs[at[i]].free_head # Null
             /\ op' = [op EXCEPT ![t] = Op("found", at[i], slabs[at[i]].free_head)]
             /\ UNCHANGED heap
    BY ONLY <1>6, Zenon
  <2>2. at[i] \in SlabsOf(c)
    BY <2>1, <1>3, <1>5, SMTT(30)
  <2>3. Start(t, c) /\ UNCHANGED <<heap, held>>
    BY <2>1 DEF alloc_find
  <2> QED
    BY <2>1, <2>2, <2>3, StepFound, Zenon
<1>7. CASE /\ \A i \in 0..MaxPages : at[i] # NoSlab => slabs[at[i]].free_head = Null
           /\ create_slab(c)
           /\ op' = [op EXCEPT ![t] = Op("found", next_page, <<next_page, 1>>)]
           /\ UNCHANGED large
  <2>1. \A q \in SlabsOf(c) : slabs[q].free_head = Null
    <3> TAKE q \in SlabsOf(c)
    <3>1. PICK j \in 1..n : l[j] = q
      BY <1>1 DEF Has
    <3>2. j - 1 \in 0..MaxPages /\ at[j - 1] = q
      BY ONLY <3>1, <1>3, <1>4, <1>5, SMTT(30)
    <3> QED
      BY <3>2, <1>2, <1>7
  <2>2. Start(t, c) /\ UNCHANGED <<large, held>>
    BY <1>7 DEF alloc_find
  <2> QED
    BY <2>1, <2>2, <1>7, StepCreate, ZenonT(30)
<1> QED
  BY <1>5, <1>6, <1>7 DEF alloc_find

\* Every step of the heap keeps the invariant and is a step of HeapBlocks.
LEMMA NextStep ==
    ASSUME SlabInv, ~raced', [Next]_vars
    PROVE  SlabInv' /\ HeapStep
<1>1. CASE UNCHANGED vars
  <2>1. UNCHANGED <<classes, slabs, link, large, next_page, held, op>>
    BY <1>1 DEF vars, heap
  <2>2. Types' /\ PagesApart'
    BY <2>1 DEF SlabInv, Types, PagesApart, ChunksOf, chunks_per_slab
  <2>3. Held' = Held
    BY <2>1 DEF Held, Blocks, PageBlock, Cells, Pages, chunks_per_slab
  <2>a. ASSUME NEW k PROVE BeingFreed(k)' <=> BeingFreed(k)
    BY ONLY <2>1 DEF BeingFreed
  <2>4. HeldOnce'
    BY <2>1, <2>3 DEF SlabInv, HeldOnce, Blocks, PageBlock, Cells, Pages, chunks_per_slab
  <2>5. OpsApart'
    BY <2>1, <2>3, Zenon DEF SlabInv, OpsApart, ChunksOf, chunks_per_slab
  <2>6. \A p \in DOMAIN slabs' : FreeExact(p)'
    BY <2>1, <2>3, <2>a, FreeKept DEF SlabInv
  <2>7. \A c \in DOMAIN Sizes : ListExact(c)'
    BY <2>1, ListKept DEF SlabInv, SlabsOf
  <2>8. \A p \in DOMAIN slabs' : NotSpare(p)'
    BY <2>1, <2>3, Zenon DEF SlabInv, NotSpare, ChunksOf, chunks_per_slab
  <2> QED
    BY <2>1, <2>2, <2>4, <2>5, <2>6, <2>7, <2>8, SMTT(30) DEF SlabInv, HeapStep
<1>2. ASSUME NEW t \in Threads, NEW bytes \in Requests, kmalloc(t, bytes)
      PROVE  SlabInv' /\ HeapStep
  <2>1. bytes \in Nat
    BY SlabAssumption
  <2>2. CASE can_alloc(bytes) /\ alloc_find(t, get_size_class(bytes))
    BY <2>1, <2>2, SizeClass, StepFind DEF HeapStep
  <2>3. CASE alloc_large(bytes)
    BY <2>1, <2>3, StepAllocKernel
  <2> QED
    BY <1>2, <2>2, <2>3 DEF kmalloc
<1>3. ASSUME NEW t \in Threads, NEW b \in Held, kfree(t, b)
      PROVE  SlabInv' /\ HeapStep
  <2>1. ASSUME NEW chunk \in DOMAIN link, b = {chunk}, is_slab(chunk[1]), free_link(t, chunk)
        PROVE  SlabInv' /\ HeapStep
    BY <2>1, StepLink DEF is_slab
  <2>2. ASSUME NEW p \in DOMAIN large, b = PageBlock(p, large[p]), free_large(p)
        PROVE  SlabInv' /\ HeapStep
    BY <2>2, StepFreeKernel
  <2> QED
    BY <1>3, <2>1, <2>2 DEF kfree
<1>4. ASSUME NEW t \in Threads, alloc_take(t) PROVE SlabInv' /\ HeapStep
  BY <1>4, StepTake
<1>5. ASSUME NEW t \in Threads, free_count(t) PROVE SlabInv' /\ HeapStep
  BY <1>5, StepCount DEF HeapStep
<1> QED
  BY <1>1, <1>2, <1>3, <1>4, <1>5, SMTT(30) DEF Next

-----------------------------------------------------------------------------
(* The theorems.                                                           *)

\* Nothing undoes a race.
LEMMA RaceStays ==
    ASSUME raced, [Next]_vars
    PROVE  raced'
BY Zenon DEF Next, vars, kmalloc, kfree, alloc_find, alloc_large, take_pages, free_link,
             free_large, alloc_take, free_count, CountFreed, Start

\* The invariant holds until two threads have been inside one size class.
THEOREM HeapInvariant == Spec => [](raced \/ SlabInv)
<1>1. Init => SlabInv
  BY InitInv
<1>2. (raced \/ SlabInv) /\ [Next]_vars => (raced \/ SlabInv)'
  BY NextStep, RaceStays, Zenon
<1> QED
  BY <1>1, <1>2, PTL DEF Spec

\* kmalloc() and kfree(), wherever threads are preempted: until two of them have been
\* inside one size class, the free lists, the slab lists and the pages agree with what
\* callers have.
THEOREM HeapIsConsistent == Spec => []HeapConsistent
<1>1. raced \/ SlabInv => HeapConsistent
  BY InvConsistent, Zenon DEF HeapConsistent
<1> QED
  BY <1>1, HeapInvariant, PTL

\* kmalloc() and kfree() implement the heap of HeapBlocks, in which no two callers share
\* a cell, until two threads have been inside one size class.
THEOREM HeapIsRefined == Spec => IsHeap
<1>1. Init => H!HeapInit
  BY DEF Init, H!HeapInit
<1>2. (raced \/ SlabInv) /\ [Next]_vars
        => [raced' \/ \E b \in Blocks : H!Malloc(b) \/ H!Free(b)]_held
  <2>1. ASSUME raced \/ SlabInv, [Next]_vars, ~raced'
        PROVE  [\E b \in Blocks : H!Malloc(b) \/ H!Free(b)]_held
    BY <2>1, NextStep, RaceStays, Zenon DEF HeapStep
  <2> QED
    BY <2>1, Zenon
<1> QED
  BY <1>1, <1>2, HeapInvariant, PTL DEF Spec, IsHeap

=============================================================================
