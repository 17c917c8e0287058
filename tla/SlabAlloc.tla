------------------------------ MODULE SlabAlloc -------------------------------
(***************************************************************************)
(* The two steps of slab::alloc() keep the invariant of SlabInvariant: a   *)
(* chunk at the head of a free list is found, in a slab of the class or in *)
(* a new one, and then taken from the list.                                *)
(***************************************************************************)
EXTENDS SlabInvariant

\* A free list that is not empty starts with a chunk of the slab.
LEMMA HeadIsChunk ==
    ASSUME SlabInv, NEW p \in DOMAIN slabs, slabs[p].free_head # Null
    PROVE  /\ slabs[p].free_head \in ChunksOf(p, slabs[p].class)
           /\ slabs[p].free_chunks > 0
           /\ {slabs[p].free_head} \notin Held /\ ~BeingFreed(slabs[p].free_head)
<1>1. slabs[p].free_chunks \in Nat
  BY DEF SlabInv, Types, Header
<1>2. PICK s \in [1..slabs[p].free_chunks -> ChunksOf(p, slabs[p].class)] :
        /\ FreeList(s, slabs[p].free_chunks, slabs[p].free_head, link)
        /\ \A k \in ChunksOf(p, slabs[p].class) :
              Has(s, slabs[p].free_chunks, k) <=> {k} \notin Held /\ ~BeingFreed(k)
  BY DEF SlabInv, FreeExact
<1>3. slabs[p].free_chunks > 0 /\ slabs[p].free_head = s[1]
  BY <1>1, <1>2 DEF FreeList
<1>4. slabs[p].free_head \in ChunksOf(p, slabs[p].class) /\ Has(s, slabs[p].free_chunks, slabs[p].free_head)
  BY <1>1, <1>3 DEF Has
<1> QED
  BY ONLY <1>2, <1>3, <1>4, Zenon

\* An empty free list: every chunk is held or on its way back.
LEMMA FullSlab ==
    ASSUME SlabInv, NEW p \in DOMAIN slabs, slabs[p].free_head = Null,
           NEW k \in ChunksOf(p, slabs[p].class)
    PROVE  {k} \in Held \/ BeingFreed(k)
<1> DEFINE n == slabs[p].free_chunks
<1>1. n \in Nat
  BY DEF SlabInv, Types, Header
<1>2. PICK s \in [1..n -> ChunksOf(p, slabs[p].class)] :
        /\ FreeList(s, n, slabs[p].free_head, link)
        /\ \A i \in ChunksOf(p, slabs[p].class) : Has(s, n, i) <=> {i} \notin Held /\ ~BeingFreed(i)
  BY Zenon DEF SlabInv, FreeExact
<1>3. n = 0
  <2>1. n # 0 => s[1] \in ChunksOf(p, slabs[p].class) /\ slabs[p].free_head = s[1]
    BY <1>1, <1>2 DEF FreeList
  <2> QED
    BY <2>1, ChunkParts
<1>4. ~Has(s, n, k)
  BY <1>3 DEF Has
<1> QED
  BY <1>2, <1>4

\* alloc(), first step, with a slab that has a free chunk.
LEMMA StepFound ==
    ASSUME SlabInv, ~raced', NEW t \in Threads, NEW c, Start(t, c),
           NEW p \in SlabsOf(c), slabs[p].free_head # Null,
           op' = [op EXCEPT ![t] = Op("found", p, slabs[p].free_head)],
           UNCHANGED <<heap, held>>
    PROVE  SlabInv'
<1> USE DEF SlabInv
<1> DEFINE o == Op("found", p, slabs[p].free_head)
<1>1. UNCHANGED <<classes, slabs, link, large, next_page, held>>
  BY DEF heap
<1>2. p \in DOMAIN slabs /\ slabs[p].class = c
  BY DEF SlabsOf
<1>3. slabs[p].free_head \in ChunksOf(p, c)
  BY <1>2, HeadIsChunk, Zenon
<1>4. op[t] = Idle /\ op[t].at = "idle" /\ \A u \in Threads : op[u] # Idle => slabs[op[u].slab].class # c
  BY ClassIsQuiet
<1>5. o.at = "found" /\ o.slab = p /\ o.chunk = slabs[p].free_head /\ o \in Operation /\ o # Idle
  <2>1. p \in Nat
    BY <1>2 DEF PagesApart
  <2>2. slabs[p].free_head \in Chunk \cup {Null}
    BY <1>2 DEF Types, Header
  <2> QED
    BY <2>1, <2>2 DEF Op, Operation, Idle
<1> HIDE DEF o
<1>6. op'[t] = o /\ (\A u \in Threads : u # t => op'[u] = op[u]) /\ op' \in [Threads -> Operation]
  BY <1>5 DEF Types, o
<1>7. \A k : BeingFreed(k)' <=> BeingFreed(k)
  BY <1>4, <1>5, FreedKept, Zenon DEF o
<1>8. Types'
  BY <1>1, <1>6 DEF Types, ChunksOf, chunks_per_slab
<1>9. PagesApart' /\ HeldOnce' /\ Held' = Held
  BY <1>1 DEF PagesApart, HeldOnce, Held, PageBlock, Cells, chunks_per_slab
<1>10. OpsApart'
  <2>1. ASSUME NEW u \in Threads, op'[u] # Idle
        PROVE  /\ op'[u].at # "idle" /\ op'[u].slab \in DOMAIN slabs
               /\ op'[u].chunk \in ChunksOf(op'[u].slab, slabs[op'[u].slab].class)
               /\ op'[u].at = "found" => slabs[op'[u].slab].free_head = op'[u].chunk
               /\ op'[u].at = "linked" => /\ link[op'[u].chunk] = slabs[op'[u].slab].free_head
                                          /\ {op'[u].chunk} \notin Held
    <3>1. CASE u = t
      BY <3>1, <1>2, <1>3, <1>5, <1>6
    <3>2. CASE u # t
      BY <3>2, <2>1, <1>6, Zenon DEF OpsApart
    <3> QED
      BY ONLY <3>1, <3>2
  <2>2. ASSUME NEW u \in Threads, NEW v \in Threads, op'[u] # Idle, op'[v] # Idle,
               slabs[op'[u].slab].class = slabs[op'[v].slab].class
        PROVE  u = v
    <3>1. CASE u # t /\ v # t
      BY <3>1, <2>2, <1>6 DEF OpsApart
    <3>2. CASE u = t \/ v = t
      BY <3>2, <2>2, <1>2, <1>4, <1>5, <1>6
    <3> QED
      BY <3>1, <3>2
  <2> QED
    BY ONLY <1>1, <1>9, <2>1, <2>2 DEF OpsApart
<1>11. ASSUME NEW q \in DOMAIN slabs' PROVE FreeExact(q)'
  BY <1>1, <1>7, <1>9, FreeKept
<1>12. ASSUME NEW d \in DOMAIN Sizes PROVE ListExact(d)'
  BY <1>1, ListKept DEF SlabsOf
<1>13. ASSUME NEW q \in DOMAIN slabs' PROVE NotSpare(q)'
  <2>1. \A u \in Threads : op[u] # Idle => op'[u] = op[u]
    BY <1>4, <1>6
  <2>2. NotSpare(q)
    BY <1>1
  <2> QED
    BY ONLY <1>1, <1>9, <2>1, <2>2, Zenon DEF NotSpare
<1> QED
  BY <1>8, <1>9, <1>10, <1>11, <1>12, <1>13

\* alloc(), first step, with a new slab: every other slab of the class is full.
LEMMA StepCreate ==
    ASSUME SlabInv, ~raced', NEW t \in Threads, NEW c \in DOMAIN Sizes, Start(t, c),
           \A q \in SlabsOf(c) : slabs[q].free_head = Null,
           create_slab(c),
           op' = [op EXCEPT ![t] = Op("found", next_page, <<next_page, 1>>)],
           UNCHANGED <<large, held>>
    PROVE  SlabInv'
<1> USE DEF SlabInv
<1> DEFINE p == next_page
           n == chunks_per_slab(c)
           first == classes[c].first_slab
           o == Op("found", p, <<p, 1>>)
<1>1. /\ p <= MaxPages /\ next_page' = p + 1
      /\ link' = [k \in DOMAIN link \cup ChunksOf(p, c) |->
                    IF k \notin ChunksOf(p, c) THEN link[k]
                    ELSE IF k[2] < n THEN <<p, k[2] + 1>> ELSE Null]
      /\ slabs' = [q \in DOMAIN slabs \cup {p} |->
                     IF q = p THEN [class |-> c, free_head |-> <<p, 1>>, free_chunks |-> n,
                                    next |-> first, prev |-> NoSlab]
                     ELSE [slabs[q] EXCEPT !.prev = IF q = first THEN p ELSE @]]
      /\ classes' = [classes EXCEPT ![c].first_slab = p, ![c].num_slabs = @ + 1]
  BY DEF create_slab
<1>2. /\ p \in Nat \ {0} /\ MaxPages \in Nat /\ n \in Nat \ {0} /\ first \in Nat
      /\ p \notin DOMAIN slabs /\ p \notin DOMAIN large
  <2>1. p \in Nat \ {0} /\ MaxPages \in Nat
    BY ONLY SlabInv, SlabAssumption DEF Types
  <2>2. n \in Nat \ {0} /\ first \in Nat
    BY ChunkCounts DEF Types
  <2>3. p \notin DOMAIN slabs /\ p \notin DOMAIN large
    BY <2>1 DEF PagesApart
  <2> QED
    BY <2>1, <2>2, <2>3
<1>3. op[t] = Idle /\ op[t].at = "idle" /\ \A u \in Threads : op[u] # Idle => slabs[op[u].slab].class # c
  BY ClassIsQuiet
<1> HIDE DEF p, n, first
<1>4. /\ DOMAIN slabs' = DOMAIN slabs \cup {p}
      /\ slabs'[p] = [class |-> c, free_head |-> <<p, 1>>, free_chunks |-> n, next |-> first, prev |-> NoSlab]
      /\ \A q \in DOMAIN slabs :
            /\ slabs'[q].class = slabs[q].class /\ slabs'[q].free_head = slabs[q].free_head
            /\ slabs'[q].free_chunks = slabs[q].free_chunks /\ slabs'[q].next = slabs[q].next
            /\ slabs'[q].prev = IF q = first THEN p ELSE slabs[q].prev
            /\ slabs'[q] \in Header
  <2>1. \A q \in DOMAIN slabs : slabs[q] \in Header
    BY DEF Types
  <2> QED
    BY <1>1, <1>2, <2>1 DEF Header
<1>5. <<p, 1>> \in ChunksOf(p, c) /\ ChunksOf(p, c) \subseteq Chunk
      /\ \A k \in ChunksOf(p, c) : k = <<p, k[2]>> /\ k[2] \in 1..n
  <2>1. \A k \in ChunksOf(p, c) : k = <<p, k[2]>> /\ k[2] \in 1..n
    BY ChunkParts DEF n
  <2> QED
    BY <1>2, <2>1 DEF ChunksOf, Chunk, n
<1>6. \A q \in DOMAIN slabs : \A k \in ChunksOf(q, slabs[q].class) :
         k \notin ChunksOf(p, c) /\ k \in DOMAIN link /\ link'[k] = link[k]
  <2>1. \A q \in DOMAIN slabs : \A k \in ChunksOf(q, slabs[q].class) : k \notin ChunksOf(p, c)
    BY <1>2, ChunksDiffer
  <2>2. \A q \in DOMAIN slabs : \A k \in ChunksOf(q, slabs[q].class) : k \in DOMAIN link
    BY LinkDomain
  <2> QED
    BY <1>1, <2>1, <2>2
<1>7. o.at = "found" /\ o.slab = p /\ o.chunk = <<p, 1>> /\ o \in Operation /\ o # Idle
  <2>1. <<p, 1>> \in Chunk
    BY <1>5
  <2> QED
    BY <1>2, <2>1 DEF Op, Operation, Idle
<1>8. op' = [op EXCEPT ![t] = o]
  BY DEF p
<1> HIDE DEF o
<1>9. op'[t] = o /\ (\A u \in Threads : u # t => op'[u] = op[u]) /\ op' \in [Threads -> Operation]
  BY <1>7, <1>8 DEF Types
<1>10. \A k : BeingFreed(k)' <=> BeingFreed(k)
  BY <1>3, <1>7, <1>8, FreedKept, Zenon
<1>11. Types'
  <2>1. classes' \in [DOMAIN Sizes -> [num_slabs : Nat, first_slab : Nat]]
    BY <1>1, <1>2 DEF Types
  <2>2. next_page' \in 1..(MaxPages + 1)
    BY <1>1, <1>2
  <2>3. slabs' \in [DOMAIN slabs' -> Header]
    <3>1. slabs'[p] \in Header
      BY <1>2, <1>4, <1>5 DEF Header, NoSlab
    <3> QED
      BY <1>1, <1>4, <3>1
  <2>4. link' \in [DOMAIN link' -> Chunk \cup {Null, Data}]
    <3>1. \A k \in ChunksOf(p, c) : k[2] < n => <<p, k[2] + 1>> \in Chunk
      BY <1>2, <1>5 DEF Chunk
    <3>2. \A k \in DOMAIN link : link[k] \in Chunk \cup {Null, Data}
      BY DEF Types
    <3> QED
      BY <1>1, <3>1, <3>2
  <2>5. DOMAIN link' = UNION {ChunksOf(q, slabs'[q].class) : q \in DOMAIN slabs'}
    <3>1. DOMAIN link' = DOMAIN link \cup ChunksOf(p, c)
      BY <1>1
    <3>2. \A k : k \in DOMAIN link <=> \E q \in DOMAIN slabs : k \in ChunksOf(q, slabs[q].class)
      BY DEF Types
    <3>3. \A q \in DOMAIN slabs : ChunksOf(q, slabs'[q].class) = ChunksOf(q, slabs[q].class)
      BY <1>4
    <3>4. ChunksOf(p, slabs'[p].class) = ChunksOf(p, c)
      BY <1>4
    <3>5. \A k : k \in DOMAIN link' <=> \E q \in DOMAIN slabs' : k \in ChunksOf(q, slabs'[q].class)
      BY <1>4, <3>1, <3>2, <3>3, <3>4, Zenon
    <3> QED
      BY ONLY <3>5
  <2> QED
    BY ONLY <1>9, <2>1, <2>2, <2>3, <2>4, <2>5 DEF Types, ChunksOf, chunks_per_slab
<1>12. PagesApart'
  <2>1. \A q \in DOMAIN large : q + large[q] <= p
    BY DEF PagesApart, p
  <2>2. DOMAIN slabs' \subseteq 1..(next_page' - 1)
    BY <1>1, <1>2, <1>4 DEF PagesApart, p
  <2>3. \A q \in DOMAIN large : q + large[q] <= next_page'
    BY <1>1, <1>2, <2>1 DEF PagesApart
  <2>4. \A q \in DOMAIN large, r \in DOMAIN slabs' : r < q \/ q + large[q] <= r
    BY <1>4, <2>1 DEF PagesApart
  <2> QED
    BY <2>2, <2>3, <2>4 DEF PagesApart
<1>13. Held' = Held /\ HeldOnce'
  <2>1. DOMAIN link \subseteq DOMAIN link'
    BY <1>1
  <2> QED
    BY <2>1 DEF HeldOnce, Held, PageBlock, Cells, chunks_per_slab
<1>14. \A k \in ChunksOf(p, c) : {k} \notin Held /\ ~BeingFreed(k)
  <2> SUFFICES ASSUME NEW k \in ChunksOf(p, c) PROVE {k} \notin Held /\ ~BeingFreed(k)
    OBVIOUS
  <2>1. k[1] = p
    BY ChunkParts
  <2>2. {k} \notin Held
    BY <1>2, <2>1, HeldBelow DEF p
  <2>3. ASSUME NEW u \in Threads, op[u].at = "linked", op[u].chunk = k PROVE FALSE
    BY <1>2, <2>1, <2>3, OpFacts
  <2> QED
    BY <2>2, <2>3 DEF BeingFreed
<1>15. OpsApart'
  <2>1. ASSUME NEW u \in Threads, op'[u] # Idle
        PROVE  /\ op'[u].at # "idle" /\ op'[u].slab \in DOMAIN slabs'
               /\ op'[u].chunk \in ChunksOf(op'[u].slab, slabs'[op'[u].slab].class)
               /\ op'[u].at = "found" => slabs'[op'[u].slab].free_head = op'[u].chunk
               /\ op'[u].at = "linked" => /\ link'[op'[u].chunk] = slabs'[op'[u].slab].free_head
                                          /\ {op'[u].chunk} \notin Held
    <3>1. CASE u = t
      BY <3>1, <1>4, <1>5, <1>7, <1>9
    <3>2. CASE u # t
      <4>1. op'[u] = op[u] /\ op[u].slab \in DOMAIN slabs
            /\ op[u].chunk \in ChunksOf(op[u].slab, slabs[op[u].slab].class)
        BY <3>2, <2>1, <1>9, OpFacts
      <4>2. /\ op[u].at # "idle"
            /\ op[u].at = "found" => slabs[op[u].slab].free_head = op[u].chunk
            /\ op[u].at = "linked" => /\ link[op[u].chunk] = slabs[op[u].slab].free_head
                                      /\ {op[u].chunk} \notin Held
        BY <4>1, <2>1, ZenonT(30) DEF OpsApart
      <4>3. /\ slabs'[op[u].slab].free_head = slabs[op[u].slab].free_head
            /\ slabs'[op[u].slab].class = slabs[op[u].slab].class
            /\ link'[op[u].chunk] = link[op[u].chunk]
        BY <4>1, <1>4, <1>6
      <4> QED
        BY ONLY <4>1, <4>2, <4>3, <1>4
    <3> QED
      BY ONLY <3>1, <3>2, Zenon
  <2>2. ASSUME NEW u \in Threads, NEW v \in Threads, op'[u] # Idle, op'[v] # Idle,
               slabs'[op'[u].slab].class = slabs'[op'[v].slab].class
        PROVE  u = v
    <3>0. \A w \in Threads : w # t /\ op'[w] # Idle =>
             op'[w] = op[w] /\ op[w] # Idle /\ slabs'[op[w].slab].class = slabs[op[w].slab].class
      BY <1>4, <1>9, OpFacts
    <3>1. CASE u # t /\ v # t
      BY <3>0, <3>1, <2>2 DEF OpsApart
    <3>2. CASE u = t \/ v = t
      <4>1. slabs'[op'[t].slab].class = c
        BY <1>4, <1>7, <1>9
      <4> QED
        BY <3>0, <3>2, <4>1, <2>2, <1>3, SMTT(30)
    <3> QED
      BY <3>1, <3>2
  <2> QED
    BY ONLY <1>13, <2>1, <2>2, Zenon DEF OpsApart, ChunksOf, chunks_per_slab
<1>16. ASSUME NEW q \in DOMAIN slabs' PROVE FreeExact(q)'
  <2>1. CASE q \in DOMAIN slabs
    BY <2>1, <1>4, <1>6, <1>10, <1>13, FreeKept
  <2>2. CASE q = p
    <3> DEFINE s == [i \in 1..n |-> <<p, i>>]
    <3>1. s \in [1..n -> ChunksOf(p, c)] /\ \A i \in 1..n : s[i] = <<p, i>>
      BY DEF ChunksOf, n
    <3> HIDE DEF s
    <3>2. \A i \in 1..n : link'[<<p, i>>] = IF i < n THEN <<p, i + 1>> ELSE Null
      <4> TAKE i \in 1..n
      <4>1. <<p, i>> \in ChunksOf(p, c) /\ <<p, i>>[2] = i
        BY DEF ChunksOf, n
      <4> QED
        BY <1>1, <4>1
    <3>3. \A i, j \in 1..n : s[i] = s[j] => i = j
      BY <3>1
    <3>4. FreeList(s, n, <<p, 1>>, link')
      <4>1. <<p, 1>> = IF n = 0 THEN Null ELSE s[1]
        BY <1>2, <3>1
      <4>2. \A i \in 1..n : link'[s[i]] = IF i = n THEN Null ELSE s[i + 1]
        <5> TAKE i \in 1..n
        <5>1. i # n => i + 1 \in 1..n /\ i < n
          BY <1>2
        <5>2. i = n => ~(i < n)
          BY <1>2
        <5> QED
          BY ONLY <3>1, <3>2, <5>1, <5>2, Zenon
      <4> QED
        BY <3>3, <4>1, <4>2 DEF FreeList
    <3>5. \A k \in ChunksOf(p, c) : Has(s, n, k)
      BY <1>5, <3>1 DEF Has
    <3>6. \A k \in ChunksOf(p, c) : Has(s, n, k) <=> {k} \notin Held' /\ ~BeingFreed(k)'
      BY <3>5, <1>10, <1>13, <1>14
    <3>7. slabs'[q].class = c /\ slabs'[q].free_head = <<p, 1>> /\ slabs'[q].free_chunks = n
      BY <2>2, <1>4
    <3> QED
      BY ONLY <2>2, <3>1, <3>4, <3>6, <3>7, Zenon DEF FreeExact
  <2> QED
    BY ONLY <2>1, <2>2, <1>4
<1>17. ASSUME NEW d \in DOMAIN Sizes PROVE ListExact(d)'
  <2>1. CASE d # c
    <3>1. SlabsOf(d)' = SlabsOf(d)
      BY <2>1, <1>2, <1>4 DEF SlabsOf
    <3>2. classes'[d] = classes[d]
      BY <2>1, <1>1 DEF Types
    <3>3. first \notin SlabsOf(d)
      <4>1. PICK l \in [1..classes[c].num_slabs -> SlabsOf(c)] : SlabList(l, classes[c].num_slabs, first, slabs)
        BY DEF ListExact, first
      <4>2. classes[c].num_slabs \in Nat
        BY DEF Types
      <4>3. first = NoSlab \/ first \in SlabsOf(c)
        BY <4>1, <4>2, SMTT(30) DEF SlabList
      <4> QED
        BY <2>1, <4>3, SlabPages DEF SlabsOf
    <3>4. \A q \in SlabsOf(d) : slabs'[q].next = slabs[q].next /\ slabs'[q].prev = slabs[q].prev
      BY <1>4, <3>3, SMTT(30) DEF SlabsOf
    <3> QED
      BY <3>1, <3>2, <3>4, ListKept
  <2>2. CASE d = c
    <3> DEFINE m == classes[c].num_slabs
    <3>1. PICK l \in [1..m -> SlabsOf(c)] : SlabList(l, m, first, slabs) /\ \A q \in SlabsOf(c) : Has(l, m, q)
      BY DEF ListExact, first
    <3>2. m \in Nat /\ classes'[c].num_slabs = m + 1 /\ classes'[c].first_slab = p
      BY <1>1 DEF Types
    <3>3. NoSlab \notin SlabsOf(c) /\ p \notin SlabsOf(c) /\ SlabsOf(c) \subseteq DOMAIN slabs
      BY <1>2, SlabPages DEF SlabsOf
    <3>4. SlabsOf(c)' = SlabsOf(c) \cup {p}
      BY <1>2, <1>4, SMTT(30) DEF SlabsOf
    <3>5. slabs'[p].next = first /\ slabs'[p].prev = NoSlab
      BY <1>4
    <3>6. \A q \in SlabsOf(c) : /\ slabs'[q].next = slabs[q].next
                                /\ slabs'[q].prev = IF q = first THEN p ELSE slabs[q].prev
      BY <1>4, <3>3
    <3> HIDE DEF m
    <3>7. PICK l2 \in [1..(m + 1) -> SlabsOf(c) \cup {p}] :
              /\ SlabList(l2, m + 1, p, slabs')
              /\ \A q : Has(l2, m + 1, q) <=> Has(l, m, q) \/ q = p
      <4>1. PutBefore(SlabsOf(c), p, first)
        BY ONLY <3>5, <3>6 DEF PutBefore
      <4>2. IsListWith(SlabsOf(c), p, l, m)
        <5> HIDE DEF first
        <5> QED
          BY ONLY <3>1, <3>2, <3>3, <4>1, l \in [1..m -> SlabsOf(c)], PushSlab
      <4> QED
        BY ONLY <4>2 DEF IsListWith
    <3>8. \A q \in SlabsOf(c)' : Has(l2, m + 1, q)
      BY <3>1, <3>4, <3>7
    <3> QED
      BY <2>2, <3>2, <3>4, <3>7, <3>8, SMTT(30) DEF ListExact
  <2> QED
    BY <2>1, <2>2
<1>18. ASSUME NEW q \in DOMAIN slabs' PROVE NotSpare(q)'
  <2>1. CASE q = p
    BY <2>1, <1>7, <1>9 DEF NotSpare
  <2>2. CASE q \in DOMAIN slabs /\ slabs[q].class = c
    <3>1. slabs[q].free_head = Null
      BY <2>2 DEF SlabsOf
    <3>2. <<q, 1>> \in ChunksOf(q, c)
      BY <1>2 DEF ChunksOf, n
    <3>3. ~BeingFreed(<<q, 1>>)
      BY <2>2, <3>2, <1>3, QuietNotFreed
    <3>4. {<<q, 1>>} \in Held
      BY <2>2, <3>1, <3>2, <3>3, FullSlab
    <3> QED
      BY ONLY <2>2, <3>2, <3>4, <1>4, <1>13, Zenon DEF NotSpare
  <2>3. CASE q \in DOMAIN slabs /\ slabs[q].class # c
    <3>1. classes'[slabs[q].class] = classes[slabs[q].class]
      BY <2>3, <1>1 DEF Types, Header
    <3>2. \A u \in Threads : op[u] # Idle => op'[u] = op[u]
      BY <1>3, <1>9
    <3>3. NotSpare(q) /\ slabs'[q].class = slabs[q].class
      BY <2>3, <1>4
    <3> QED
      BY ONLY <1>13, <3>1, <3>2, <3>3, Zenon DEF NotSpare
  <2> QED
    BY <2>1, <2>2, <2>3, <1>4
<1> QED
  BY <1>11, <1>12, <1>13, <1>15, <1>16, <1>17, <1>18

\* alloc(), second step.
LEMMA StepTake ==
    ASSUME SlabInv, NEW t \in Threads, alloc_take(t)
    PROVE  SlabInv' /\ HeapStep
<1> USE DEF SlabInv
<1>0. PICK p, chunk, c : p = op[t].slab /\ chunk = op[t].chunk /\ c = slabs[p].class
  BY Zenon
<1>1. /\ op[t].at = "found"
      /\ slabs' = [slabs EXCEPT ![p].free_head = link[chunk], ![p].free_chunks = @ - 1]
      /\ link' = [link EXCEPT ![chunk] = Data]
      /\ held' = [held EXCEPT ![{chunk}] = @ + 1]
      /\ op' = [op EXCEPT ![t] = Idle]
      /\ UNCHANGED <<classes, large, next_page>>
  BY <1>0 DEF alloc_take
<1>2. p \in DOMAIN slabs /\ chunk \in ChunksOf(p, c) /\ op[t] # Idle /\ slabs[p].free_head = chunk
  BY <1>0, <1>1, OpFacts, Zenon DEF OpsApart
<1>3. chunk # Null /\ chunk \in DOMAIN link /\ {chunk} \in Blocks /\ {chunk} \notin Held
      /\ \A h \in Held : h \cap {chunk} = {}
  <2>1. chunk # Null /\ chunk \in DOMAIN link /\ {chunk} \in Blocks
    BY <1>0, <1>2, ChunkParts, ChunkInSlab
  <2>2. {chunk} \notin Held
    BY <1>0, <1>2, <2>1, HeadIsChunk
  <2>3. \A h \in Held : chunk \notin h
    BY <1>0, <1>2, <2>2, ChunkInSlab, Zenon
  <2> QED
    BY <2>1, <2>2, <2>3
<1>4. held' \in [Blocks -> {0, 1}] /\ Held' = Held \cup {{chunk}} /\ H!Malloc({chunk})
  BY <1>1, <1>3, HeldMore, Zenon
<1>5. PICK n \in Nat : n = slabs[p].free_chunks
  BY <1>0, <1>2 DEF Types, Header
<1>6. PICK s \in [1..n -> ChunksOf(p, c)] :
        /\ FreeList(s, n, chunk, link)
        /\ \A k \in ChunksOf(p, c) : Has(s, n, k) <=> {k} \notin Held /\ ~BeingFreed(k)
  BY <1>0, <1>2, <1>5, ZenonT(30) DEF FreeExact
<1>7. \A k \in DOMAIN link : k # chunk => link'[k] = link[k]
  BY <1>1
<1>8. \A q \in DOMAIN slabs : \A k \in ChunksOf(q, slabs[q].class) : k # chunk => link'[k] = link[k]
  BY <1>7, LinkDomain
<1>9. PICK s2 : s2 = Popped(s, n)
  OBVIOUS
<1>10. /\ n > 0
       /\ s2 \in [1..(n - 1) -> ChunksOf(p, c)]
       /\ FreeList(s2, n - 1, link[chunk], link')
       /\ \A k : Has(s2, n - 1, k) <=> Has(s, n, k) /\ k # chunk
  <2>1. OnlyHead(ChunksOf(p, c), chunk)
    BY <1>0, <1>2, <1>8 DEF OnlyHead
  <2>2. FreeList(s, n, chunk, link) /\ chunk # Null
    BY <1>3, <1>6
  <2> QED
    BY ONLY <2>1, <2>2, <1>9, PopFree, Zenon
<1>11. n - 1 \in Nat /\ link[chunk] \in Chunk \cup {Null}
  <2>1. n - 1 \in Nat
    BY <1>10
  <2>2. link[chunk] = Null \/ link[chunk] \in ChunksOf(p, c)
    <3>1. link[chunk] = IF n - 1 = 0 THEN Null ELSE s2[1]
      BY <1>10 DEF FreeList
    <3>2. n - 1 # 0 => 1 \in 1..(n - 1)
      BY <2>1
    <3> QED
      BY <3>1, <3>2, <1>10
  <2> QED
    BY <2>1, <2>2, <1>0, <1>2, ChunkInSlab, Zenon
<1>12. /\ DOMAIN slabs' = DOMAIN slabs
       /\ slabs'[p].class = c /\ slabs'[p].free_head = link[chunk] /\ slabs'[p].free_chunks = n - 1
       /\ slabs'[p].next = slabs[p].next /\ slabs'[p].prev = slabs[p].prev
       /\ slabs'[p] \in Header
       /\ \A q \in DOMAIN slabs : q # p => slabs'[q] = slabs[q]
  <2>1. slabs \in [DOMAIN slabs -> Header] /\ slabs[p] \in Header
    BY <1>2 DEF Types
  <2> QED
    BY ONLY <2>1, <1>0, <1>1, <1>2, <1>5, <1>11, Zenon DEF Header
<1>13. \A q \in DOMAIN slabs : slabs'[q].class = slabs[q].class
  BY <1>0, <1>12
<1>14. op'[t] = Idle /\ (\A u \in Threads : u # t => op'[u] = op[u]) /\ op' \in [Threads -> Operation]
       /\ Idle.at = "idle"
  <2>1. Idle \in Operation /\ Idle.at = "idle"
    BY DEF Idle, Op, Operation, NoSlab
  <2> QED
    BY <1>1, <2>1 DEF Types
<1>15. \A k : BeingFreed(k)' <=> BeingFreed(k)
  BY <1>1, <1>14, FreedKept, Zenon
<1>16. Types'
  <2>1. slabs' \in [DOMAIN slabs' -> Header]
    <3>1. \A q \in DOMAIN slabs : slabs[q] \in Header
      BY DEF Types
    <3>2. slabs' = [q \in DOMAIN slabs |-> slabs'[q]]
      BY ONLY <1>1, Zenon DEF Types
    <3> QED
      BY <3>1, <3>2, <1>12
  <2>2. link' \in [DOMAIN link' -> Chunk \cup {Null, Data}] /\ DOMAIN link' = DOMAIN link
    BY <1>1, Zenon DEF Types
  <2>3. DOMAIN link' = UNION {ChunksOf(q, slabs'[q].class) : q \in DOMAIN slabs'}
    <3>1. \A k : k \in DOMAIN link <=> \E q \in DOMAIN slabs : k \in ChunksOf(q, slabs[q].class)
      BY DEF Types
    <3>2. \A k : k \in DOMAIN link' <=> \E q \in DOMAIN slabs' : k \in ChunksOf(q, slabs'[q].class)
      BY <2>2, <3>1, <1>12, <1>13, Zenon
    <3> QED
      BY ONLY <3>2, Zenon
  <2> QED
    BY <1>1, <1>14, <2>1, <2>2, <2>3, Zenon DEF Types, ChunksOf, chunks_per_slab
<1>17. PagesApart'
  BY <1>1, <1>12 DEF PagesApart
<1>18. HeldOnce'
  <2>1. DOMAIN link' = DOMAIN link
    BY <1>1
  <2>2. \A b \in Held' : (\E k \in DOMAIN link : b = {k}) \/ (\E q \in DOMAIN large : b = PageBlock(q, large[q]))
    BY <1>3, <1>4, Zenon DEF HeldOnce
  <2> QED
    BY ONLY <1>1, <1>4, <2>1, <2>2, Zenon DEF HeldOnce, PageBlock, Cells, chunks_per_slab
<1>19. \A q \in DOMAIN slabs : q # p => \A k \in ChunksOf(q, slabs[q].class) :
          k # chunk /\ link'[k] = link[k] /\ ({k} \in Held' <=> {k} \in Held)
  <2>1. \A q \in DOMAIN slabs : q # p => \A k \in ChunksOf(q, slabs[q].class) : k # chunk
    BY <1>2, ChunksDiffer
  <2> QED
    BY <2>1, <1>4, <1>8
<1>20. \A u \in Threads : u # t /\ op[u] # Idle => op[u].slab # p
  BY <1>0, <1>2, OpFacts, Zenon DEF OpsApart
<1>21. OpsApart'
  <2>1. ASSUME NEW u \in Threads, op'[u] # Idle
        PROVE  /\ op'[u].at # "idle" /\ op'[u].slab \in DOMAIN slabs'
               /\ op'[u].chunk \in ChunksOf(op'[u].slab, slabs'[op'[u].slab].class)
               /\ op'[u].at = "found" => slabs'[op'[u].slab].free_head = op'[u].chunk
               /\ op'[u].at = "linked" => /\ link'[op'[u].chunk] = slabs'[op'[u].slab].free_head
                                          /\ {op'[u].chunk} \notin Held'
    <3>1. u # t /\ op'[u] = op[u] /\ op[u] # Idle
      BY <2>1, <1>14
    <3>2. /\ op[u].slab \in DOMAIN slabs /\ op[u].slab # p
          /\ op[u].chunk \in ChunksOf(op[u].slab, slabs[op[u].slab].class)
      BY <3>1, <1>20, OpFacts
    <3>3. /\ op[u].at # "idle"
          /\ op[u].at = "found" => slabs[op[u].slab].free_head = op[u].chunk
          /\ op[u].at = "linked" => /\ link[op[u].chunk] = slabs[op[u].slab].free_head
                                    /\ {op[u].chunk} \notin Held
      BY <3>1, Zenon DEF OpsApart
    <3>4. /\ slabs'[op[u].slab] = slabs[op[u].slab]
          /\ link'[op[u].chunk] = link[op[u].chunk]
          /\ {op[u].chunk} \in Held' <=> {op[u].chunk} \in Held
      BY ONLY <3>2, <1>12, <1>19, Zenon
    <3> QED
      BY <3>1, <3>2, <3>3, <3>4, <1>12
  <2>2. ASSUME NEW u \in Threads, NEW v \in Threads, op'[u] # Idle, op'[v] # Idle,
               slabs'[op'[u].slab].class = slabs'[op'[v].slab].class
        PROVE  u = v
    <3>1. \A w \in Threads : op'[w] # Idle =>
             op'[w] = op[w] /\ op[w] # Idle /\ slabs'[op[w].slab].class = slabs[op[w].slab].class
      BY <1>13, <1>14, OpFacts
    <3> QED
      BY <3>1, <2>2 DEF OpsApart
  <2> QED
    BY ONLY <2>1, <2>2, Zenon DEF OpsApart, ChunksOf, chunks_per_slab
<1>22. ASSUME NEW q \in DOMAIN slabs' PROVE FreeExact(q)'
  <2>1. CASE q # p
    BY <2>1, <1>12, <1>15, <1>19, FreeKept, Zenon
  <2>2. CASE q = p
    <3>1. \A k \in ChunksOf(p, c) : Has(s2, n - 1, k) <=> {k} \notin Held' /\ ~BeingFreed(k)'
      BY <1>4, <1>6, <1>10, <1>15
    <3>2. slabs'[q].class = c /\ slabs'[q].free_head = link[chunk] /\ slabs'[q].free_chunks = n - 1
      BY <2>2, <1>12
    <3> QED
      BY ONLY <2>2, <3>1, <3>2, <1>10, Zenon DEF FreeExact
  <2> QED
    BY <2>1, <2>2
<1>23. ASSUME NEW d \in DOMAIN Sizes PROVE ListExact(d)'
  <2>1. SlabsOf(d)' = SlabsOf(d) /\ SlabsOf(d) \subseteq DOMAIN slabs
    BY <1>12, <1>13 DEF SlabsOf
  <2>2. \A q \in SlabsOf(d) : slabs'[q].next = slabs[q].next /\ slabs'[q].prev = slabs[q].prev
    BY <2>1, <1>12
  <2> QED
    BY <1>1, <2>1, <2>2, ListKept
<1>24. ASSUME NEW q \in DOMAIN slabs' PROVE NotSpare(q)'
  <2>1. CASE q = p
    BY <2>1, <1>2, <1>4, <1>12 DEF NotSpare
  <2>2. CASE q # p
    <3>1. NotSpare(q) /\ q \in DOMAIN slabs /\ slabs'[q].class = slabs[q].class
      BY <1>12, <1>13
    <3>2. \A u \in Threads : op[u] # Idle /\ op[u].slab = q => op'[u] = op[u]
      BY <2>2, <1>0, <1>14
    <3> QED
      BY ONLY <1>1, <1>4, <3>1, <3>2, Zenon DEF NotSpare
  <2> QED
    BY <2>1, <2>2, SMTT(30)
<1> QED
  BY <1>3, <1>4, <1>16, <1>17, <1>18, <1>21, <1>22, <1>23, <1>24 DEF HeapStep

=============================================================================
