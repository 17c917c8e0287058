------------------------------- MODULE SlabFree -------------------------------
(***************************************************************************)
(* The two steps of slab::free() keep the invariant of SlabInvariant: the  *)
(* chunk is linked to the head of the list, and then counted, where a slab *)
(* that is whole again and has a neighbour is destroyed.  What is known of *)
(* the count (Counted) is shown in SlabProofs.                             *)
(***************************************************************************)
EXTENDS SlabInvariant

\* free(), first step.
LEMMA StepLink ==
    ASSUME SlabInv, ~raced', NEW t \in Threads, NEW chunk \in DOMAIN link,
           {chunk} \in Held, chunk[1] \in DOMAIN slabs, free_link(t, chunk)
    PROVE  SlabInv' /\ HeapStep
<1> USE DEF SlabInv
<1>0. PICK p, c, o : p = chunk[1] /\ c = slabs[p].class /\ o = Op("linked", p, chunk)
  BY Zenon
<1>1. /\ Start(t, c)
      /\ link' = [link EXCEPT ![chunk] = slabs[p].free_head]
      /\ held' = [held EXCEPT ![{chunk}] = @ - 1]
      /\ op' = [op EXCEPT ![t] = o]
      /\ UNCHANGED <<classes, slabs, large, next_page>>
  BY <1>0 DEF free_link
<1>2. p \in DOMAIN slabs /\ chunk \in ChunksOf(p, c) /\ p \in Nat /\ chunk \in Chunk
  <2>1. p \in DOMAIN slabs /\ chunk \in ChunksOf(p, c)
    BY <1>0, LinkDomain
  <2>2. p \in Nat
    BY <2>1 DEF PagesApart
  <2>3. chunk \in Chunk
    BY <1>0, <2>1, ChunkInSlab, Zenon
  <2> QED
    BY <2>1, <2>2, <2>3
<1>3. op[t] = Idle /\ op[t].at = "idle" /\ \A u \in Threads : op[u] # Idle => slabs[op[u].slab].class # c
  BY <1>1, ClassIsQuiet
<1>4. held' \in [Blocks -> {0, 1}] /\ Held' = Held \ {{chunk}} /\ {chunk} \in Blocks /\ H!Free({chunk})
  BY <1>1, HeldLess, Zenon
<1>5. o.at = "linked" /\ o.slab = p /\ o.chunk = chunk /\ o \in Operation /\ o # Idle
  BY <1>0, <1>2 DEF Op, Operation, Idle
<1>6. op'[t] = o /\ (\A u \in Threads : u # t => op'[u] = op[u]) /\ op' \in [Threads -> Operation]
  BY <1>1, <1>5 DEF Types
<1>7. \A k : BeingFreed(k)' <=> BeingFreed(k) \/ k = chunk
  BY <1>3, <1>5, <1>6 DEF BeingFreed
<1>8. DOMAIN link' = DOMAIN link /\ link'[chunk] = slabs[p].free_head
      /\ \A k \in DOMAIN link : k # chunk => link'[k] = link[k]
  BY <1>1, SMTT(30)
<1>9. Types'
  <2>1. slabs[p].free_head \in Chunk \cup {Null}
    BY <1>2 DEF Types, Header
  <2>2. link' \in [DOMAIN link' -> Chunk \cup {Null, Data}]
    BY <1>1, <2>1 DEF Types
  <2> QED
    BY <1>1, <1>6, <1>8, <2>2 DEF Types, ChunksOf, chunks_per_slab
<1>10. PagesApart'
  BY <1>1 DEF PagesApart
<1>11. HeldOnce'
  <2>1. \A b \in Held' : (\E k \in DOMAIN link : b = {k}) \/ (\E q \in DOMAIN large : b = PageBlock(q, large[q]))
    BY <1>4, Zenon DEF HeldOnce
  <2> QED
    BY <1>1, <1>4, <1>8, <2>1 DEF HeldOnce, PageBlock, Cells, chunks_per_slab
<1>12. \A q \in DOMAIN slabs : q # p => \A k \in ChunksOf(q, slabs[q].class) :
          k # chunk /\ link'[k] = link[k] /\ ({k} \in Held' <=> {k} \in Held)
  <2>1. \A q \in DOMAIN slabs : q # p => \A k \in ChunksOf(q, slabs[q].class) : k # chunk /\ k \in DOMAIN link
    BY <1>2, ChunksDiffer, LinkDomain
  <2> QED
    BY <2>1, <1>4, <1>8
<1>13. \A u \in Threads : op[u] # Idle => op[u].slab # p
  BY <1>0, <1>3
<1>14. OpsApart'
  <2>1. ASSUME NEW u \in Threads, op'[u] # Idle
        PROVE  /\ op'[u].at # "idle" /\ op'[u].slab \in DOMAIN slabs
               /\ op'[u].chunk \in ChunksOf(op'[u].slab, slabs[op'[u].slab].class)
               /\ op'[u].at = "found" => slabs[op'[u].slab].free_head = op'[u].chunk
               /\ op'[u].at = "linked" => /\ link'[op'[u].chunk] = slabs[op'[u].slab].free_head
                                          /\ {op'[u].chunk} \notin Held'
    <3>1. CASE u = t
      BY <3>1, <1>0, <1>2, <1>4, <1>5, <1>6, <1>8
    <3>2. CASE u # t
      <4>1. op'[u] = op[u] /\ op[u] # Idle
        BY <2>1, <3>2, <1>6
      <4>2. /\ op[u].slab \in DOMAIN slabs /\ op[u].slab # p
            /\ op[u].chunk \in ChunksOf(op[u].slab, slabs[op[u].slab].class)
        BY <4>1, <1>13, OpFacts
      <4>3. /\ op[u].at # "idle"
            /\ op[u].at = "found" => slabs[op[u].slab].free_head = op[u].chunk
            /\ op[u].at = "linked" => /\ link[op[u].chunk] = slabs[op[u].slab].free_head
                                      /\ {op[u].chunk} \notin Held
        BY <4>1, Zenon DEF OpsApart
      <4>4. link'[op[u].chunk] = link[op[u].chunk] /\ ({op[u].chunk} \in Held' <=> {op[u].chunk} \in Held)
        BY <4>2, <1>12
      <4> QED
        BY <4>1, <4>2, <4>3, <4>4
    <3> QED
      BY ONLY <3>1, <3>2, Zenon
  <2>2. ASSUME NEW u \in Threads, NEW v \in Threads, op'[u] # Idle, op'[v] # Idle,
               slabs[op'[u].slab].class = slabs[op'[v].slab].class
        PROVE  u = v
    <3>1. CASE u # t /\ v # t
      BY <3>1, <2>2, <1>6 DEF OpsApart
    <3>2. CASE u = t \/ v = t
      <4>1. slabs[op'[t].slab].class = c
        BY <1>0, <1>5, <1>6
      <4>2. \A w \in Threads : w # t /\ op'[w] # Idle => slabs[op'[w].slab].class # c
        BY <1>3, <1>6
      <4> QED
        BY <4>1, <4>2, <3>2, <2>2
    <3> QED
      BY <3>1, <3>2
  <2>3. slabs' = slabs
    BY <1>1
  <2> QED
    BY ONLY <2>1, <2>2, <2>3, Zenon DEF OpsApart, ChunksOf, chunks_per_slab
<1>15. ASSUME NEW q \in DOMAIN slabs' PROVE FreeExact(q)'
  <2>1. CASE q # p
    BY <2>1, <1>1, <1>7, <1>12, FreeKept, Zenon
  <2>2. CASE q = p
    <3>1. PICK n \in Nat : n = slabs[p].free_chunks
      BY <1>2 DEF Types, Header
    <3>2. PICK s \in [1..n -> ChunksOf(p, c)] :
            /\ FreeList(s, n, slabs[p].free_head, link)
            /\ \A k \in ChunksOf(p, c) : Has(s, n, k) <=> {k} \notin Held /\ ~BeingFreed(k)
      BY <1>0, <1>2, <3>1, Zenon DEF FreeExact
    <3>3. ~Has(s, n, chunk)
      BY <1>2, <3>2, Zenon
    <3>4. \A i \in 1..n : link'[s[i]] = link[s[i]]
      <4> TAKE i \in 1..n
      <4>1. s[i] # chunk /\ s[i] \in ChunksOf(p, c)
        BY <3>3 DEF Has
      <4>2. s[i] \in DOMAIN link
        BY <4>1, <1>0, <1>2, LinkDomain
      <4> QED
        BY <4>1, <4>2, <1>8
    <3>5. FreeList(s, n, slabs[p].free_head, link')
      BY <3>2, <3>4 DEF FreeList
    <3>6. \A k \in ChunksOf(p, c) : Has(s, n, k) <=> {k} \notin Held' /\ ~BeingFreed(k)'
      BY <1>4, <1>7, <3>2, <3>3
    <3>7. slabs'[q].class = c /\ slabs'[q].free_head = slabs[p].free_head /\ slabs'[q].free_chunks = n
      BY <2>2, <1>0, <1>1, <3>1
    <3> QED
      BY ONLY <2>2, <3>2, <3>5, <3>6, <3>7, Zenon DEF FreeExact
  <2> QED
    BY <2>1, <2>2
<1>16. ASSUME NEW d \in DOMAIN Sizes PROVE ListExact(d)'
  BY <1>1, ListKept DEF SlabsOf
<1>17. ASSUME NEW q \in DOMAIN slabs' PROVE NotSpare(q)'
  <2>1. CASE q = p
    BY <2>1, <1>5, <1>6 DEF NotSpare
  <2>2. CASE q # p
    <3>1. NotSpare(q) /\ q \in DOMAIN slabs
      BY <1>1
    <3>2. \A u \in Threads : op[u] # Idle => op'[u] = op[u]
      BY <1>3, <1>6
    <3> QED
      BY ONLY <2>2, <1>1, <1>12, <3>1, <3>2, Zenon DEF NotSpare
  <2> QED
    BY <2>1, <2>2
<1> QED
  BY <1>4, <1>9, <1>10, <1>11, <1>14, <1>15, <1>16, <1>17 DEF HeapStep

\* In its second step free() puts the chunk at the head of the list of slab p, with n
\* chunks in it before; no other thread is in the class.
Counted(t, p, chunk, c, n) ==
    /\ p \in DOMAIN slabs /\ c \in DOMAIN Sizes /\ n \in Nat /\ chunk \in ChunksOf(p, c)
    /\ op'[t] = Idle /\ (\A u \in Threads : u # t => op'[u] = op[u])
    /\ op' \in [Threads -> Operation]
    /\ \A u \in Threads : u # t /\ op[u] # Idle => slabs[op[u].slab].class # c
    /\ \A k : BeingFreed(k)' <=> BeingFreed(k) /\ k # chunk
    /\ \E s \in [1..(n + 1) -> ChunksOf(p, c)] :
          /\ FreeList(s, n + 1, chunk, link)
          /\ \A k \in ChunksOf(p, c) :
                Has(s, n + 1, k) <=> {k} \notin Held /\ ~BeingFreed(k)'
    /\ n + 1 = chunks_per_slab(c) <=>
          \A k \in ChunksOf(p, c) : {k} \notin Held /\ ~BeingFreed(k)'

\* free(), second step, where the slab stays.
LEMMA StepKeep ==
    ASSUME SlabInv, NEW t \in Threads, op[t].at = "linked", op' = [op EXCEPT ![t] = Idle],
           Counted(t, op[t].slab, op[t].chunk, slabs[op[t].slab].class, slabs[op[t].slab].free_chunks),
           slabs' = [slabs EXCEPT ![op[t].slab].free_head = op[t].chunk,
                                  ![op[t].slab].free_chunks = @ + 1],
           ~(/\ slabs[op[t].slab].free_chunks + 1 = chunks_per_slab(slabs[op[t].slab].class)
             /\ classes[slabs[op[t].slab].class].num_slabs > 1),
           UNCHANGED <<classes, link, large, next_page, held>>
    PROVE  SlabInv'
<1>0. PICK p, chunk, c, n : p = op[t].slab /\ chunk = op[t].chunk /\ c = slabs[p].class
                            /\ n = slabs[p].free_chunks
  BY Zenon
<1>a. Counted(t, p, chunk, c, n)
  BY <1>0, Zenon
<1>1. /\ p \in DOMAIN slabs /\ c \in DOMAIN Sizes /\ n \in Nat /\ chunk \in ChunksOf(p, c)
      /\ op'[t] = Idle /\ (\A u \in Threads : u # t => op'[u] = op[u])
      /\ op' \in [Threads -> Operation]
      /\ \A u \in Threads : u # t /\ op[u] # Idle => slabs[op[u].slab].class # c
  BY ONLY <1>a DEF Counted
<1>2. \A k : BeingFreed(k)' <=> BeingFreed(k) /\ k # chunk
  BY ONLY <1>a DEF Counted
<1>b. \E s \in [1..(n + 1) -> ChunksOf(p, c)] :
        /\ FreeList(s, n + 1, chunk, link)
        /\ \A k \in ChunksOf(p, c) : Has(s, n + 1, k) <=> {k} \notin Held /\ ~BeingFreed(k)'
  BY ONLY <1>a, Zenon DEF Counted
<1>3. PICK s \in [1..(n + 1) -> ChunksOf(p, c)] :
        /\ FreeList(s, n + 1, chunk, link)
        /\ \A k \in ChunksOf(p, c) : Has(s, n + 1, k) <=> {k} \notin Held /\ ~BeingFreed(k)'
  BY ONLY <1>b, Zenon
<1>4. n + 1 = chunks_per_slab(c) <=>
         \A k \in ChunksOf(p, c) : {k} \notin Held /\ ~BeingFreed(k)'
  BY ONLY <1>a, Zenon DEF Counted
<1> USE DEF SlabInv
<1>5. chunk \in Chunk
  BY <1>0, <1>1, ChunkInSlab, ZenonT(30)
<1>6. /\ DOMAIN slabs' = DOMAIN slabs
      /\ slabs'[p] = [slabs[p] EXCEPT !.free_head = chunk, !.free_chunks = n + 1]
      /\ \A q \in DOMAIN slabs : q # p => slabs'[q] = slabs[q]
  BY <1>0, <1>1
<1>7. /\ slabs'[p].class = c /\ slabs'[p].free_head = chunk /\ slabs'[p].free_chunks = n + 1
      /\ slabs'[p].next = slabs[p].next /\ slabs'[p].prev = slabs[p].prev /\ slabs'[p] \in Header
  <2>1. slabs[p] \in Header
    BY <1>1 DEF Types
  <2>2. chunk \in Chunk \cup {Null} /\ n + 1 \in Nat /\ slabs[p].class = c
    BY ONLY <1>0, <1>1, <1>5
  <2>3. slabs'[p] = [slabs[p] EXCEPT !.free_head = chunk, !.free_chunks = n + 1]
    BY ONLY <1>6
  <2> QED
    BY ONLY <2>1, <2>2, <2>3, Zenon DEF Header
<1>8. \A q \in DOMAIN slabs : slabs'[q].class = slabs[q].class
                              /\ slabs'[q].next = slabs[q].next /\ slabs'[q].prev = slabs[q].prev
  BY ONLY <1>0, <1>6, <1>7, ZenonT(30)
<1>9. Held' = Held
  BY DEF Held, Blocks, Cells, PageBlock, Pages, chunks_per_slab
<1>10. Types'
  <2>1. slabs' \in [DOMAIN slabs' -> Header]
    <3>1. \A q \in DOMAIN slabs' : slabs'[q] \in Header
      BY <1>6, <1>7, Zenon DEF Types
    <3> QED
      BY <3>1, Zenon
  <2>2. \A q \in DOMAIN slabs : ChunksOf(q, slabs'[q].class) = ChunksOf(q, slabs[q].class)
    BY ONLY <1>8
  <2>3. DOMAIN link = UNION {ChunksOf(q, slabs'[q].class) : q \in DOMAIN slabs'}
    <3>1. \A k : k \in DOMAIN link <=> \E q \in DOMAIN slabs : k \in ChunksOf(q, slabs[q].class)
      BY DEF Types
    <3>2. \A k : k \in DOMAIN link <=> \E q \in DOMAIN slabs' : k \in ChunksOf(q, slabs'[q].class)
      BY <1>6, <2>2, <3>1, Zenon
    <3> QED
      BY ONLY <3>2, Zenon
  <2> QED
    BY <1>1, <2>1, <2>3, Zenon DEF Types, ChunksOf, chunks_per_slab
<1>11. PagesApart'
  BY <1>6, Zenon DEF PagesApart
<1>12. HeldOnce'
  BY <1>9, Zenon DEF HeldOnce, PageBlock, Cells, chunks_per_slab
<1>13. OpsApart'
  <2>1. ASSUME NEW u \in Threads, op'[u] # Idle
        PROVE  u # t /\ op'[u] = op[u] /\ op[u].slab \in DOMAIN slabs /\ op[u].slab # p
    <3>1. u # t /\ op'[u] = op[u] /\ op[u] # Idle
      BY <2>1, <1>1
    <3>2. slabs[op[u].slab].class # c /\ op[u].slab \in DOMAIN slabs
      BY <3>1, <1>1, OpFacts, Zenon
    <3> QED
      BY ONLY <3>1, <3>2, <1>0
  <2>2. ASSUME NEW u \in Threads, op'[u] # Idle PROVE slabs'[op'[u].slab] = slabs[op[u].slab]
    BY ONLY <2>1, <2>2, <1>6
  <2>3. ASSUME NEW u \in Threads, op'[u] # Idle
        PROVE  /\ op'[u].at # "idle"
               /\ op'[u].chunk \in ChunksOf(op'[u].slab, slabs'[op'[u].slab].class)
               /\ op'[u].at = "found" => slabs'[op'[u].slab].free_head = op'[u].chunk
               /\ op'[u].at = "linked" => /\ link[op'[u].chunk] = slabs'[op'[u].slab].free_head
                                          /\ {op'[u].chunk} \notin Held
    <3>1. op'[u] = op[u] /\ op[u] # Idle /\ slabs'[op'[u].slab] = slabs[op[u].slab]
      BY ONLY <2>1, <2>2, <2>3
    <3> QED
      BY <3>1, ZenonT(30) DEF OpsApart
  <2>4. ASSUME NEW u \in Threads, NEW v \in Threads, op'[u] # Idle, op'[v] # Idle,
               slabs'[op'[u].slab].class = slabs'[op'[v].slab].class
        PROVE  u = v
    <3>1. op'[u] = op[u] /\ op'[v] = op[v] /\ slabs[op[u].slab].class = slabs[op[v].slab].class
      BY ONLY <2>1, <2>2, <2>4
    <3> QED
      BY <2>4, <3>1, Zenon DEF OpsApart
  <2>5. link' = link
    OBVIOUS
  <2> QED
    BY ONLY <2>1, <2>3, <2>4, <2>5, <1>6, <1>9, Zenon DEF OpsApart, ChunksOf, chunks_per_slab
<1>14. ASSUME NEW q \in DOMAIN slabs' PROVE FreeExact(q)'
  <2>1. CASE q # p
    <3>1. \A k \in ChunksOf(q, slabs[q].class) : k # chunk
      BY ONLY <2>1, <1>1, ChunksDiffer
    <3> QED
      BY <2>1, <1>2, <1>6, <1>9, <3>1, FreeKept, Zenon
  <2>2. CASE q = p
    <3>1. slabs'[q].class = c /\ slabs'[q].free_head = chunk /\ slabs'[q].free_chunks = n + 1 /\ link' = link
      BY <2>2, <1>7, Zenon
    <3>2. \A k \in ChunksOf(p, c) : Has(s, n + 1, k) <=> {k} \notin Held' /\ ~BeingFreed(k)'
      BY ONLY <1>3, <1>9, Zenon
    <3>3. FreeList(s, n + 1, chunk, link')
      BY ONLY <1>3, <3>1
    <3> QED
      BY ONLY <2>2, <3>1, <3>2, <3>3, <1>3, ZenonT(30) DEF FreeExact
  <2> QED
    BY ONLY <2>1, <2>2
<1>15. ASSUME NEW d \in DOMAIN Sizes PROVE ListExact(d)'
  <2>1. SlabsOf(d)' = SlabsOf(d)
    BY ONLY <1>6, <1>8 DEF SlabsOf
  <2>2. \A q \in SlabsOf(d) : slabs'[q].next = slabs[q].next /\ slabs'[q].prev = slabs[q].prev
    BY ONLY <1>8 DEF SlabsOf
  <2> QED
    BY <2>1, <2>2, ListKept, Zenon
<1>16. ASSUME NEW q \in DOMAIN slabs' PROVE NotSpare(q)'
  <2>1. CASE q = p
    <3>1. ASSUME classes[c].num_slabs > 1 PROVE \E k \in ChunksOf(p, c) : {k} \in Held
      <4>2. n + 1 # chunks_per_slab(c)
        BY <3>1, <1>0, Zenon
      <4>3. PICK k \in ChunksOf(p, c) : {k} \in Held \/ BeingFreed(k)'
        BY ONLY <4>2, <1>4, Zenon
      <4>4. ~BeingFreed(k)'
        <5>1. SUFFICES ASSUME BeingFreed(k)' PROVE FALSE
          BY Zenon
        <5>2. PICK u \in Threads : op'[u].at = "linked" /\ op'[u].chunk = k
          BY ONLY <5>1 DEF BeingFreed
        <5>3. u # t /\ op'[u] = op[u] /\ op[u] # Idle
          BY ONLY <5>2, <1>1 DEF Idle, Op
        <5>4. op[u].slab = k[1] /\ k[1] = p
          BY ONLY SlabInv, <5>2, <5>3, OpFacts, ChunkParts
        <5> QED
          BY <5>3, <5>4, <1>0, <1>1
      <4> QED
        BY ONLY <4>3, <4>4, Zenon
    <3>2. slabs'[q].class = c /\ classes' = classes
      BY <2>1, <1>7, Zenon
    <3> QED
      BY ONLY <3>1, <3>2, <2>1, <1>9, Zenon DEF NotSpare, ChunksOf, chunks_per_slab
  <2>2. CASE q # p
    <3>1. q \in DOMAIN slabs /\ slabs'[q] = slabs[q] /\ NotSpare(q)
      BY <2>2, <1>6, Zenon
    <3>2. \A u \in Threads : op[u] # Idle /\ op[u].slab = q => op'[u] = op[u]
      BY <2>2, <1>0, <1>1
    <3> QED
      BY <3>1, <3>2, <1>9, Zenon DEF NotSpare, ChunksOf, chunks_per_slab
  <2> QED
    BY ONLY <2>1, <2>2
<1> QED
  BY <1>10, <1>11, <1>12, <1>13, <1>14, <1>15, <1>16

\* The neighbours of a slab in its list are slabs of its class.
LEMMA Neighbours ==
    ASSUME SlabInv, NEW c \in DOMAIN Sizes, NEW p \in SlabsOf(c)
    PROVE  slabs[p].prev \in SlabsOf(c) \cup {NoSlab} /\ slabs[p].next \in SlabsOf(c) \cup {NoSlab}
<1>1. PICK n \in Nat : n = classes[c].num_slabs
  BY DEF SlabInv, Types
<1>2. PICK l \in [1..n -> SlabsOf(c)] :
        SlabList(l, n, classes[c].first_slab, slabs) /\ \A q \in SlabsOf(c) : Has(l, n, q)
  BY <1>1 DEF SlabInv, ListExact
<1>3. PICK i \in 1..n : l[i] = p
  BY <1>2 DEF Has
<1>4. /\ slabs[p].next = IF i = n THEN NoSlab ELSE l[i + 1]
      /\ slabs[p].prev = IF i = 1 THEN NoSlab ELSE l[i - 1]
  BY <1>2, <1>3 DEF SlabList
<1> QED
  BY <1>3, <1>4

\* What destroy_slab() does when slab p of class c has a neighbour.
Destroyed(p, c) ==
    /\ DOMAIN slabs' = DOMAIN slabs \ {p}
    /\ slabs' \in [DOMAIN slabs \ {p} -> Header]
    /\ \A q \in DOMAIN slabs \ {p} :
          /\ slabs'[q].class = slabs[q].class /\ slabs'[q].free_head = slabs[q].free_head
          /\ slabs'[q].free_chunks = slabs[q].free_chunks
          /\ slabs'[q].next = IF q = slabs[p].prev THEN slabs[p].next ELSE slabs[q].next
          /\ slabs'[q].prev = IF q = slabs[p].next THEN slabs[p].prev ELSE slabs[q].prev
    /\ \A k : k \in DOMAIN link' <=> k \in DOMAIN link /\ k[1] # p
    /\ link' \in [DOMAIN link' -> Chunk \cup {Null, Data}]
    /\ \A k \in DOMAIN link' : link'[k] = link[k]
    /\ classes'[c].num_slabs = classes[c].num_slabs - 1
    /\ classes'[c].first_slab = IF slabs[p].prev = NoSlab THEN slabs[p].next ELSE classes[c].first_slab
    /\ \A d \in DOMAIN Sizes : d # c => classes'[d] = classes[d]
    /\ classes' \in [DOMAIN Sizes -> [num_slabs : Int, first_slab : Nat]]

\* free(), second step, where the slab is destroyed.
LEMMA StepDestroy ==
    ASSUME SlabInv, NEW t \in Threads, op[t].at = "linked", op' = [op EXCEPT ![t] = Idle],
           Counted(t, op[t].slab, op[t].chunk, slabs[op[t].slab].class, slabs[op[t].slab].free_chunks),
           NEW p, NEW c, p = op[t].slab, c = slabs[p].class,
           slabs[p].free_chunks + 1 = chunks_per_slab(c), Destroyed(p, c),
           UNCHANGED <<large, next_page, held>>
    PROVE  SlabInv'
<1>0. PICK chunk, n : chunk = op[t].chunk /\ n = slabs[p].free_chunks
  BY Zenon
<1>a. Counted(t, p, chunk, c, n)
  BY <1>0, Zenon
<1>1. /\ p \in DOMAIN slabs /\ c \in DOMAIN Sizes /\ n \in Nat /\ chunk \in ChunksOf(p, c)
      /\ op'[t] = Idle /\ (\A u \in Threads : u # t => op'[u] = op[u])
      /\ op' \in [Threads -> Operation]
      /\ \A u \in Threads : u # t /\ op[u] # Idle => slabs[op[u].slab].class # c
  BY ONLY <1>a DEF Counted
<1>2. \A k : BeingFreed(k)' <=> BeingFreed(k) /\ k # chunk
  BY ONLY <1>a DEF Counted
<1>3. \A k \in ChunksOf(p, c) : {k} \notin Held
  <2>1. n + 1 = chunks_per_slab(c)
    BY <1>0
  <2> QED
    BY ONLY <1>a, <2>1, Zenon DEF Counted
<1>4. p \in SlabsOf(c) /\ NoSlab \notin DOMAIN slabs
  <2>1. NoSlab \notin DOMAIN slabs
    BY SlabPages DEF SlabInv
  <2> QED
    BY <1>1, <2>1 DEF SlabsOf
<1>b. slabs[p].prev \in SlabsOf(c) \cup {NoSlab} /\ slabs[p].next \in SlabsOf(c) \cup {NoSlab}
  BY <1>1, <1>4, Neighbours
<1>5. PICK prev, next : prev = slabs[p].prev /\ next = slabs[p].next
                        /\ prev \in SlabsOf(c) \cup {NoSlab} /\ next \in SlabsOf(c) \cup {NoSlab}
  BY ONLY <1>b, Zenon
<1>6. /\ DOMAIN slabs' = DOMAIN slabs \ {p}
      /\ slabs' \in [DOMAIN slabs \ {p} -> Header]
      /\ \A q \in DOMAIN slabs \ {p} :
            /\ slabs'[q].class = slabs[q].class /\ slabs'[q].free_head = slabs[q].free_head
            /\ slabs'[q].free_chunks = slabs[q].free_chunks
            /\ slabs'[q].next = IF q = prev THEN next ELSE slabs[q].next
            /\ slabs'[q].prev = IF q = next THEN prev ELSE slabs[q].prev
  BY <1>5, ZenonT(30) DEF Destroyed
<1>7. /\ \A k : k \in DOMAIN link' <=> k \in DOMAIN link /\ k[1] # p
      /\ link' \in [DOMAIN link' -> Chunk \cup {Null, Data}]
      /\ \A k \in DOMAIN link' : link'[k] = link[k]
  BY Zenon DEF Destroyed
<1>8. \A q \in DOMAIN slabs \ {p} : \A k \in ChunksOf(q, slabs[q].class) :
         k # chunk /\ k \in DOMAIN link' /\ link'[k] = link[k]
  <2>1. \A q \in DOMAIN slabs \ {p} : \A k \in ChunksOf(q, slabs[q].class) :
           k # chunk /\ k \in DOMAIN link /\ k[1] = q
    <3>1. Types /\ chunk \in ChunksOf(p, c)
      BY <1>1 DEF SlabInv
    <3>2. \A q \in DOMAIN slabs \ {p} : \A k \in ChunksOf(q, slabs[q].class) : k # chunk
      BY ONLY <3>1, ChunksDiffer
    <3> QED
      BY ONLY <3>1, <3>2, LinkDomain
  <2> QED
    BY <2>1, <1>7
<1>9. Held' = Held
  BY DEF Held, Blocks, Cells, PageBlock, Pages, chunks_per_slab
<1>10. PICK m \in Nat : m = classes[c].num_slabs
  BY <1>1 DEF SlabInv, Types
<1>11. PICK l \in [1..m -> SlabsOf(c)] :
        SlabList(l, m, classes[c].first_slab, slabs) /\ \A q \in SlabsOf(c) : Has(l, m, q)
  BY <1>1, <1>10, Zenon DEF SlabInv, ListExact
<1>12. /\ m > 0
       /\ \E l2 \in [1..(m - 1) -> SlabsOf(c) \ {p}] :
             /\ SlabList(l2, m - 1, IF slabs[p].prev = NoSlab THEN slabs[p].next
                                    ELSE classes[c].first_slab, slabs')
             /\ \A q : Has(l2, m - 1, q) <=> Has(l, m, q) /\ q # p
  <2>1. \A q \in SlabsOf(c) : q # p =>
           /\ slabs'[q].next = IF q = slabs[p].prev THEN slabs[p].next ELSE slabs[q].next
           /\ slabs'[q].prev = IF q = slabs[p].next THEN slabs[p].prev ELSE slabs[q].prev
    BY ONLY <1>5, <1>6 DEF SlabsOf
  <2>2. Has(l, m, p) /\ NoSlab \notin SlabsOf(c) /\ SlabList(l, m, classes[c].first_slab, slabs)
    BY ONLY <1>4, <1>11 DEF SlabsOf
  <2>3. TakeOut(SlabsOf(c), p)
    BY ONLY <2>1 DEF TakeOut
  <2>4. IsListWithout(SlabsOf(c), p, classes[c].first_slab, l, m)
    BY ONLY <2>2, <2>3, m \in Nat, l \in [1..m -> SlabsOf(c)], RemoveSlab, ZenonT(30)
  <2> QED
    BY ONLY <2>4, Zenon DEF IsListWithout
<1> USE DEF SlabInv
<1>13. /\ classes'[c].num_slabs = m - 1
       /\ classes'[c].first_slab = IF prev = NoSlab THEN next ELSE classes[c].first_slab
       /\ \A d \in DOMAIN Sizes : d # c => classes'[d] = classes[d]
       /\ classes' \in [DOMAIN Sizes -> [num_slabs : Nat, first_slab : Nat]]
  <2>1. classes'[c].num_slabs = m - 1 /\ m - 1 \in Nat
    <3>1. classes'[c].num_slabs = classes[c].num_slabs - 1
      BY Zenon DEF Destroyed
    <3>2. m > 0 /\ m \in Nat /\ classes[c].num_slabs = m
      BY ONLY <1>10, <1>12
    <3> QED
      BY ONLY <3>1, <3>2
  <2>2. \A d \in DOMAIN Sizes : d # c => classes'[d] = classes[d]
    BY Zenon DEF Destroyed
  <2>3. classes' \in [DOMAIN Sizes -> [num_slabs : Int, first_slab : Nat]]
        /\ classes'[c].first_slab = IF prev = NoSlab THEN next ELSE classes[c].first_slab
    BY <1>5, Zenon DEF Destroyed
  <2>4. classes \in [DOMAIN Sizes -> [num_slabs : Nat, first_slab : Nat]]
    BY DEF Types
  <2> QED
    BY ONLY <2>1, <2>2, <2>3, <2>4, Zenon
<1>14. Types'
  <2>1. slabs' \in [DOMAIN slabs' -> Header]
    BY ONLY <1>6
  <2>2. \A k \in DOMAIN link' : link'[k] \in Chunk \cup {Null, Data}
    BY <1>7 DEF Types
  <2>3. link' \in [DOMAIN link' -> Chunk \cup {Null, Data}]
    BY <1>7
  <2>4. DOMAIN link' = UNION {ChunksOf(q, slabs'[q].class) : q \in DOMAIN slabs'}
    <3>1. \A k : k \in DOMAIN link <=> \E q \in DOMAIN slabs : k \in ChunksOf(q, slabs[q].class)
      BY DEF Types
    <3>2. \A q : \A k \in ChunksOf(q, slabs[q].class) : k[1] = q
      BY ChunkParts
    <3>3. \A q \in DOMAIN slabs' : ChunksOf(q, slabs'[q].class) = ChunksOf(q, slabs[q].class)
      BY <1>6
    <3>4. \A k : k \in DOMAIN link' <=> \E q \in DOMAIN slabs' : k \in ChunksOf(q, slabs'[q].class)
      BY ONLY <1>6, <1>7, <3>1, <3>2, <3>3
    <3> QED
      BY ONLY <3>4, Zenon
  <2> QED
    BY <1>1, <1>13, <2>1, <2>3, <2>4, Zenon DEF Types, ChunksOf, chunks_per_slab
<1>15. PagesApart'
  BY <1>6 DEF PagesApart
<1>16. HeldOnce'
  <2>1. ASSUME NEW k \in DOMAIN link, {k} \in Held PROVE k \in DOMAIN link'
    <3>1. k[1] # p
      BY <2>1, <1>1, <1>3, LinkDomain
    <3> QED
      BY <3>1, <1>7, Zenon
  <2>2. \A b \in Held : (\E k \in DOMAIN link' : b = {k}) \/ (\E q \in DOMAIN large : b = PageBlock(q, large[q]))
    BY <2>1, Zenon DEF HeldOnce
  <2> QED
    BY <1>9, <2>2, Zenon DEF HeldOnce, PageBlock, Cells, chunks_per_slab
<1>17. OpsApart'
  <2>1. ASSUME NEW u \in Threads, op'[u] # Idle
        PROVE  /\ op'[u] = op[u] /\ op[u].slab \in DOMAIN slabs \ {p}
               /\ op[u].chunk \in ChunksOf(op[u].slab, slabs[op[u].slab].class)
    <3>1. u # t /\ op'[u] = op[u] /\ op[u] # Idle
      BY <2>1, <1>1
    <3>2. /\ slabs[op[u].slab].class # c /\ op[u].slab \in DOMAIN slabs
          /\ op[u].chunk \in ChunksOf(op[u].slab, slabs[op[u].slab].class)
      BY <3>1, <1>1, OpFacts
    <3> QED
      BY <3>1, <3>2
  <2>2. ASSUME NEW u \in Threads, op'[u] # Idle
        PROVE  /\ op'[u].at # "idle" /\ op'[u].slab \in DOMAIN slabs'
               /\ op'[u].chunk \in ChunksOf(op'[u].slab, slabs'[op'[u].slab].class)
               /\ op'[u].at = "found" => slabs'[op'[u].slab].free_head = op'[u].chunk
               /\ op'[u].at = "linked" => /\ link'[op'[u].chunk] = slabs'[op'[u].slab].free_head
                                          /\ {op'[u].chunk} \notin Held
    <3>1. op'[u] = op[u] /\ op[u] # Idle /\ op[u].slab \in DOMAIN slabs \ {p}
      BY ONLY <2>1, <2>2
    <3>2. link'[op[u].chunk] = link[op[u].chunk]
      BY <2>1, <2>2, <1>8, SMTT(30)
    <3>3. slabs'[op[u].slab].class = slabs[op[u].slab].class
          /\ slabs'[op[u].slab].free_head = slabs[op[u].slab].free_head
      BY <3>1, <1>6
    <3>4. /\ op[u].at # "idle"
          /\ op[u].chunk \in ChunksOf(op[u].slab, slabs[op[u].slab].class)
          /\ op[u].at = "found" => slabs[op[u].slab].free_head = op[u].chunk
          /\ op[u].at = "linked" => /\ link[op[u].chunk] = slabs[op[u].slab].free_head
                                    /\ {op[u].chunk} \notin Held
      BY <3>1, Zenon DEF OpsApart
    <3> QED
      BY ONLY <3>1, <3>2, <3>3, <3>4, <1>6
  <2>3. ASSUME NEW u \in Threads, NEW v \in Threads, op'[u] # Idle, op'[v] # Idle,
               slabs'[op'[u].slab].class = slabs'[op'[v].slab].class
        PROVE  u = v
    <3>1. op'[u] = op[u] /\ op'[v] = op[v] /\ op[u].slab \in DOMAIN slabs \ {p}
          /\ op[v].slab \in DOMAIN slabs \ {p}
      BY <2>1, <2>3
    <3>2. slabs[op[u].slab].class = slabs[op[v].slab].class
      BY ONLY <2>3, <3>1, <1>6, SMTT(30)
    <3> QED
      BY <2>3, <3>1, <3>2, ZenonT(30) DEF OpsApart
  <2> QED
    BY ONLY <2>2, <2>3, <1>9, Zenon DEF OpsApart, ChunksOf, chunks_per_slab
<1>18. ASSUME NEW q \in DOMAIN slabs' PROVE FreeExact(q)'
  <2>1. q \in DOMAIN slabs \ {p} /\ FreeExact(q)
    BY <1>6, ZenonT(30)
  <2> QED
    BY <2>1, <1>2, <1>6, <1>8, <1>9, FreeKept
<1>19. ASSUME NEW d \in DOMAIN Sizes PROVE ListExact(d)'
  <2>1. CASE d # c
    <3>1. SlabsOf(d)' = SlabsOf(d) /\ p \notin SlabsOf(d)
      BY ONLY <2>1, <1>4, <1>6 DEF SlabsOf
    <3>2. \A q \in SlabsOf(d) : q # prev /\ q # next /\ q \in DOMAIN slabs \ {p}
      BY ONLY <2>1, <1>4, <1>5 DEF SlabsOf
    <3>3. \A q \in SlabsOf(d) : slabs'[q].next = slabs[q].next /\ slabs'[q].prev = slabs[q].prev
      BY ONLY <3>2, <1>6, Zenon
    <3> QED
      BY <2>1, <3>1, <3>3, <1>13, ListKept, Zenon
  <2>2. CASE d = c
    <3>1. SlabsOf(c)' = SlabsOf(c) \ {p}
      BY <1>6 DEF SlabsOf
    <3>2. PICK l2 \in [1..(m - 1) -> SlabsOf(c) \ {p}] :
             /\ SlabList(l2, m - 1, IF prev = NoSlab THEN next ELSE classes[c].first_slab, slabs')
             /\ \A q : Has(l2, m - 1, q) <=> Has(l, m, q) /\ q # p
      BY ONLY <1>5, <1>12
    <3>3. \A q \in SlabsOf(c) \ {p} : Has(l2, m - 1, q)
      BY ONLY <3>2, <1>11
    <3> QED
      BY ONLY <2>2, <3>1, <3>2, <3>3, <1>13, SMTT(30) DEF ListExact
  <2> QED
    BY <2>1, <2>2
<1>20. ASSUME NEW q \in DOMAIN slabs' PROVE NotSpare(q)'
  <2>1. q \in DOMAIN slabs \ {p} /\ NotSpare(q) /\ slabs'[q].class = slabs[q].class
        /\ slabs[q].class \in DOMAIN Sizes
    BY <1>6 DEF Types, Header
  <2>2. classes'[slabs[q].class].num_slabs > 1 => classes[slabs[q].class].num_slabs > 1
    <3>1. CASE slabs[q].class = c
      BY ONLY <3>1, <1>10, <1>13, m \in Nat
    <3>2. CASE slabs[q].class # c
      BY ONLY <3>2, <2>1, <1>13
    <3> QED
      BY <3>1, <3>2
  <2>3. \A u \in Threads : op[u] # Idle /\ op[u].slab = q => op'[u] = op[u]
    BY <2>1, <1>1
  <2> QED
    BY ONLY <2>1, <2>2, <2>3, <1>9, Zenon DEF NotSpare, ChunksOf, chunks_per_slab
<1> QED
  BY <1>14, <1>15, <1>16, <1>17, <1>18, <1>19, <1>20

\* The headers with the chunk at the head of the free list of slab p.
WithFreed(p, chunk) == [slabs EXCEPT ![p].free_head = chunk, ![p].free_chunks = @ + 1]

\* Only the free list of p changes there.
LEMMA WithFreedHeaders ==
    ASSUME SlabInv, NEW p \in DOMAIN slabs, NEW chunk
    PROVE  /\ DOMAIN WithFreed(p, chunk) = DOMAIN slabs
           /\ \A q \in DOMAIN slabs \ {p} : WithFreed(p, chunk)[q] = slabs[q]
           /\ WithFreed(p, chunk)[p].prev = slabs[p].prev
           /\ WithFreed(p, chunk)[p].next = slabs[p].next
           /\ WithFreed(p, chunk)[p].free_chunks = slabs[p].free_chunks + 1
<1>1. slabs[p] \in Header /\ p \in DOMAIN slabs
  BY DEF SlabInv, Types
<1> QED
  BY ONLY <1>1, Zenon DEF WithFreed, Header

\* destroy_slab() of a slab with a neighbour.
LEMMA DestroyShape ==
    ASSUME SlabInv, NEW c \in DOMAIN Sizes, NEW p \in SlabsOf(c), NEW chunk,
           ~(slabs[p].prev = NoSlab /\ slabs[p].next = NoSlab),
           destroy_slab(WithFreed(p, chunk), c, p)
    PROVE  Destroyed(p, c)
<1>a. PICK sl, prev, next : sl = WithFreed(p, chunk) /\ prev = slabs[p].prev /\ next = slabs[p].next
  BY Zenon
<1>b. DOMAIN sl = DOMAIN slabs /\ (\A q \in DOMAIN slabs \ {p} : sl[q] = slabs[q])
      /\ sl[p].prev = prev /\ sl[p].next = next
  BY <1>a, WithFreedHeaders DEF SlabsOf
<1>c. destroy_slab(sl, c, p) /\ ~(prev = NoSlab /\ next = NoSlab)
  BY <1>a
<1>d. /\ slabs' = [q \in DOMAIN sl \ {p} |->
                     [sl[q] EXCEPT !.next = IF q = prev THEN next ELSE @,
                                   !.prev = IF q = next THEN prev ELSE @]]
      /\ classes' = [classes EXCEPT ![c].num_slabs = @ - 1,
                                    ![c].first_slab = IF prev = NoSlab THEN next ELSE @]
      /\ link' = Restrict(link, {k \in DOMAIN link : k[1] # p})
  BY ONLY <1>b, <1>c, Zenon DEF destroy_slab
<1>1. slabs \in [DOMAIN slabs -> Header] /\ link \in [DOMAIN link -> Chunk \cup {Null, Data}]
      /\ classes \in [DOMAIN Sizes -> [num_slabs : Nat, first_slab : Nat]] /\ p \in DOMAIN slabs
  BY DEF SlabInv, Types, SlabsOf
<1>2. prev \in Nat /\ next \in Nat
  BY <1>1, <1>a DEF Header
<1>3. DOMAIN slabs' = DOMAIN slabs \ {p}
      /\ \A q \in DOMAIN slabs \ {p} :
            slabs'[q] = [slabs[q] EXCEPT !.next = IF q = prev THEN next ELSE @,
                                         !.prev = IF q = next THEN prev ELSE @]
  BY ONLY <1>b, <1>d, Zenon
<1>4. \A q \in DOMAIN slabs \ {p} :
         /\ slabs'[q].class = slabs[q].class /\ slabs'[q].free_head = slabs[q].free_head
         /\ slabs'[q].free_chunks = slabs[q].free_chunks
         /\ slabs'[q].next = IF q = prev THEN next ELSE slabs[q].next
         /\ slabs'[q].prev = IF q = next THEN prev ELSE slabs[q].prev
         /\ slabs'[q] \in Header
  <2> SUFFICES ASSUME NEW q \in DOMAIN slabs \ {p}
               PROVE  /\ slabs'[q].class = slabs[q].class /\ slabs'[q].free_head = slabs[q].free_head
                      /\ slabs'[q].free_chunks = slabs[q].free_chunks
                      /\ slabs'[q].next = IF q = prev THEN next ELSE slabs[q].next
                      /\ slabs'[q].prev = IF q = next THEN prev ELSE slabs[q].prev
                      /\ slabs'[q] \in Header
    OBVIOUS
  <2>1. PICK r, a, b : /\ r = slabs[q] /\ a = (IF q = prev THEN next ELSE slabs[q].next)
                       /\ b = (IF q = next THEN prev ELSE slabs[q].prev)
    BY Zenon
  <2>2. r \in Header
    BY <2>1, <1>1
  <2>3. a \in Nat /\ b \in Nat
    BY ONLY <2>1, <2>2, <1>2 DEF Header
  <2>4. slabs'[q] = [r EXCEPT !.next = a, !.prev = b]
    BY ONLY <2>1, <1>3, q \in DOMAIN slabs \ {p}, Zenon
  <2> QED
    BY ONLY <2>1, <2>2, <2>3, <2>4, Zenon DEF Header
<1>5. slabs' \in [DOMAIN slabs \ {p} -> Header]
  <2>1. slabs' = [q \in DOMAIN slabs \ {p} |-> slabs'[q]]
    BY ONLY <1>b, <1>d, Zenon
  <2> QED
    BY ONLY <2>1, <1>4
<1>6. /\ \A k : k \in DOMAIN link' <=> k \in DOMAIN link /\ k[1] # p
      /\ link' \in [DOMAIN link' -> Chunk \cup {Null, Data}]
      /\ \A k \in DOMAIN link' : link'[k] = link[k]
  <2>1. link' = [k \in {k \in DOMAIN link : k[1] # p} |-> link[k]]
    BY ONLY <1>d, Zenon DEF Restrict
  <2> QED
    BY ONLY <2>1, <1>1
<1>7. /\ classes'[c].num_slabs = classes[c].num_slabs - 1
      /\ classes'[c].first_slab = IF prev = NoSlab THEN next ELSE classes[c].first_slab
      /\ \A d \in DOMAIN Sizes : d # c => classes'[d] = classes[d]
      /\ classes' \in [DOMAIN Sizes -> [num_slabs : Int, first_slab : Nat]]
  <2>1. classes' = [classes EXCEPT ![c].num_slabs = @ - 1,
                                   ![c].first_slab = IF prev = NoSlab THEN next ELSE @]
    BY ONLY <1>d, Zenon
  <2>2. DOMAIN classes' = DOMAIN Sizes /\ \A d \in DOMAIN Sizes : d # c => classes'[d] = classes[d]
    BY <1>1, <2>1
  <2>3. classes'[c] = [classes[c] EXCEPT !.num_slabs = @ - 1,
                                         !.first_slab = IF prev = NoSlab THEN next ELSE @]
    BY <1>1, <2>1
  <2>4. classes[c] \in [num_slabs : Nat, first_slab : Nat]
    BY <1>1
  <2>5. PICK r, x, y : /\ r = classes[c] /\ x = r.num_slabs - 1
                       /\ y = (IF prev = NoSlab THEN next ELSE r.first_slab)
    BY Zenon
  <2>6. r.num_slabs \in Nat /\ r.first_slab \in Nat /\ x \in Int /\ y \in Nat
    BY ONLY <2>4, <2>5, <1>2
  <2>7. classes'[c] = [r EXCEPT !.num_slabs = x, !.first_slab = y]
    BY ONLY <2>3, <2>4, <2>5
  <2>8. classes'[c].num_slabs = x /\ classes'[c].first_slab = y
        /\ classes'[c] \in [num_slabs : Int, first_slab : Nat]
    BY ONLY <2>4, <2>5, <2>6, <2>7, Zenon
  <2>9. \A d \in DOMAIN Sizes : classes'[d] \in [num_slabs : Int, first_slab : Nat]
    <3>1. \A d \in DOMAIN Sizes : classes[d] \in [num_slabs : Int, first_slab : Nat]
      BY ONLY <1>1
    <3> QED
      BY ONLY <3>1, <2>2, <2>8
  <2>10. classes' = [d \in DOMAIN Sizes |-> classes'[d]]
    BY ONLY <1>1, <2>1, Zenon
  <2>11. classes' \in [DOMAIN Sizes -> [num_slabs : Int, first_slab : Nat]]
    BY ONLY <2>9, <2>10
  <2> QED
    BY ONLY <2>2, <2>5, <2>8, <2>11
<1>8. prev = slabs[p].prev /\ next = slabs[p].next
  BY ONLY <1>a
<1> QED
  BY ONLY <1>3, <1>4, <1>5, <1>6, <1>7, <1>8, Zenon DEF Destroyed

\* A slab beside another one of its class has a neighbour in the list.
LEMMA HasNeighbour ==
    ASSUME SlabInv, NEW c \in DOMAIN Sizes, NEW p \in SlabsOf(c), classes[c].num_slabs > 1
    PROVE  ~(slabs[p].prev = NoSlab /\ slabs[p].next = NoSlab)
<1>1. PICK n \in Nat : n = classes[c].num_slabs
  BY DEF SlabInv, Types
<1>2. PICK l \in [1..n -> SlabsOf(c)] :
        SlabList(l, n, classes[c].first_slab, slabs) /\ \A q \in SlabsOf(c) : Has(l, n, q)
  BY <1>1 DEF SlabInv, ListExact
<1>3. PICK i \in 1..n : l[i] = p
  BY <1>2 DEF Has
<1>4. /\ slabs[p].next = IF i = n THEN NoSlab ELSE l[i + 1]
      /\ slabs[p].prev = IF i = 1 THEN NoSlab ELSE l[i - 1]
  BY <1>2, <1>3 DEF SlabList
<1>5. NoSlab \notin SlabsOf(c)
  BY SlabPages DEF SlabInv, SlabsOf
<1>6. i # n => l[i + 1] \in SlabsOf(c)
  BY <1>3
<1>7. i # 1 => l[i - 1] \in SlabsOf(c)
  BY <1>3
<1>8. i # n \/ i # 1
  BY <1>1, <1>3
<1> QED
  BY ONLY <1>4, <1>5, <1>6, <1>7, <1>8

=============================================================================
