--------------------------------- MODULE Slab ---------------------------------
(***************************************************************************)
(* The kernel heap: kmalloc() and kfree() (lib/memory/memory.cpp), the     *)
(* slabs behind small blocks (lib/memory/slab.cpp) and the pages behind    *)
(* large ones (alloc_kernel(), free_kernel() of arch/x64/memory/vmm.cpp).  *)
(*                                                                         *)
(* A page is named by its place in the kernel heap: advance_heap() only    *)
(* moves forward, so a page given back is never mapped again.  A chunk is  *)
(* <<page, index>>, and link holds the pointer that a free chunk carries   *)
(* in its first bytes.  There is no lock: alloc() and free() are two steps *)
(* each, between which the thread can be preempted (a kthread and a system *)
(* call that has blocked run with interrupts on).  Another thread may then *)
(* start on the same size class: raced remembers that one has, and from    *)
(* there on chunks are lost, handed out twice or unmapped in use.          *)
(***************************************************************************)
EXTENDS Integers, FiniteSets, Sequences, Functions

CONSTANTS Threads,
          PAGE_SIZE, HeaderSize,  \* 4096 and sizeof(Slab)
          Sizes,                  \* SIZE_32, ..., SIZE_1024
          Requests,               \* bound: the sizes asked for
          MaxPages                \* bound: pages of the kernel heap

ASSUME SlabAssumption ==
    /\ PAGE_SIZE \in Nat \ {0} /\ HeaderSize \in Nat
    /\ Sizes \in Seq(Nat \ {0}) /\ Sizes # <<>>
    /\ \A i \in DOMAIN Sizes : HeaderSize + Sizes[i] <= PAGE_SIZE
    /\ \A i, j \in DOMAIN Sizes : i < j => Sizes[i] < Sizes[j]
    /\ Requests \subseteq Nat /\ MaxPages \in Nat

Pages == 1..MaxPages
NoSlab == 0            \* nullptr as a Slab*
Null == <<>>           \* nullptr as a chunk
Data == <<"data">>     \* what the owner of a chunk wrote over the pointer
chunks_per_slab(c) == (PAGE_SIZE - HeaderSize) \div Sizes[c]
ChunksOf(p, c) == {<<p, i>> : i \in 1..chunks_per_slab(c)}

VARIABLES classes,    \* SizeClass: num_slabs and first_slab of each class
          slabs,      \* the header of every slab
          link,       \* what the first bytes of each chunk hold
          large,      \* num_pages in the hidden header of a large block
          next_page,  \* kheap: the next page of the kernel heap
          held,       \* history: how many callers have each block
          raced,      \* history: two threads were inside one size class
          op          \* what each thread is in the middle of

heap == <<classes, slabs, link, large, next_page>>
vars == <<heap, held, raced, op>>

Op(at, p, chunk) == [at |-> at, slab |-> p, chunk |-> chunk]
Idle == Op("idle", NoSlab, Null)

\* Blocks as the sets of their cells: a chunk is one cell, a page as many as
\* the slab with the most chunks.
Cells(p) == {<<p, i>> : i \in 1..chunks_per_slab(1)}
PageBlock(p, n) == UNION {Cells(q) : q \in p..(p + n - 1)}
Blocks == {{k} : k \in UNION {Cells(p) : p \in Pages}}
             \cup UNION {{PageBlock(p, n) : n \in 1..(MaxPages + 1 - p)} : p \in Pages}

Init ==
    /\ classes = [c \in DOMAIN Sizes |-> [num_slabs |-> 0, first_slab |-> NoSlab]]
    /\ slabs = <<>> /\ link = <<>> /\ large = <<>>
    /\ next_page = 1
    /\ held = [b \in Blocks |-> 0]
    /\ raced = FALSE
    /\ op = [t \in Threads |-> Idle]

Held == {b \in Blocks : held[b] > 0}

\* No thread is in the middle of an operation on class c.
Alone(c) == \A u \in Threads : op[u] # Idle => slabs[op[u].slab].class # c

\* A thread starts an operation on class c; nothing keeps it from doing so where
\* another thread has been preempted.
Start(t, c) ==
    /\ op[t] = Idle
    /\ raced' = (raced \/ ~Alone(c))

\* What a thread goes on with is still there.  Where it is not, the access to an
\* unmapped page, or through what a caller wrote over the pointer, ends in a page
\* fault and the kernel stops.
StillThere(t) == op[t].slab \in DOMAIN slabs /\ op[t].chunk \in DOMAIN link

-----------------------------------------------------------------------------
(* Pages.                                                                  *)

can_alloc(bytes) == bytes <= Sizes[Len(Sizes)]

\* get_size_class(): the first class that is large enough.
get_size_class(bytes) ==
    CHOOSE c \in DOMAIN Sizes :
        bytes <= Sizes[c] /\ \A d \in 1..(c - 1) : Sizes[d] < bytes

\* map_heap_pages(): the pages for n bytes, for a block of bytes.
NumPages(n) == (n + PAGE_SIZE - 1) \div PAGE_SIZE
take_pages(bytes, n) ==
    /\ next_page + NumPages(bytes) <= MaxPages + 1
    /\ large' = [p \in DOMAIN large \cup {next_page} |->
                    IF p = next_page THEN NumPages(bytes) ELSE large[p]]
    /\ next_page' = next_page + NumPages(n)
    /\ held' = [held EXCEPT ![PageBlock(next_page, NumPages(bytes))] = @ + 1]
    /\ UNCHANGED <<classes, slabs, link, raced, op>>

\* Mutant: the heap moves on by the pages of the block without its header.
Bug_header_forgotten(bytes) == take_pages(bytes + 8, bytes)

\* alloc_kernel(): the block and its hidden header.
alloc_large(bytes) == take_pages(bytes + 8, bytes + 8)

\* free_kernel(): as many pages as the hidden header says.
free_large(p) ==
    /\ held' = [held EXCEPT ![PageBlock(p, large[p])] = @ - 1]
    /\ large' = Restrict(large, DOMAIN large \ {p})
    /\ UNCHANGED <<classes, slabs, link, next_page, raced, op>>

-----------------------------------------------------------------------------
(* Slabs.                                                                  *)

\* The n-th slab of a class, counted from 0, and NoSlab behind the last.
SlabAt(c) ==
    LET nth[n \in 0..MaxPages] ==
            IF n = 0 THEN classes[c].first_slab
            ELSE IF nth[n - 1] = NoSlab THEN NoSlab ELSE slabs[nth[n - 1]].next
    IN  nth

\* The n-th chunk of a slab's free list, likewise.
FreeChunkAt(p) ==
    LET nth[n \in 0..chunks_per_slab(1)] ==
            IF n = 0 THEN slabs[p].free_head
            ELSE IF nth[n - 1] = Null THEN Null ELSE link[nth[n - 1]]
    IN  nth

\* A fresh page, its chunks linked in order, at the head of the list of the
\* class.
create_slab(c) ==
    LET p == next_page
        n == chunks_per_slab(c)
        first == classes[c].first_slab
        header == [class |-> c, free_head |-> <<p, 1>>, free_chunks |-> n,
                   next |-> first, prev |-> NoSlab]
    IN  /\ p <= MaxPages
        /\ next_page' = p + 1
        /\ link' = [k \in DOMAIN link \cup ChunksOf(p, c) |->
                       IF k \notin ChunksOf(p, c) THEN link[k]
                       ELSE IF k[2] < n THEN <<p, k[2] + 1>> ELSE Null]
        /\ slabs' = [q \in DOMAIN slabs \cup {p} |->
                       IF q = p THEN header
                       ELSE [slabs[q] EXCEPT !.prev = IF q = first THEN p ELSE @]]
        /\ classes' = [classes EXCEPT ![c].first_slab = p, ![c].num_slabs = @ + 1]

\* Slab p leaves the list of class c and its page is unmapped; the only slab of
\* a list is refused.
destroy_slab(sl, c, p) ==
    LET prev == sl[p].prev
        next == sl[p].next
    IN  \/ /\ prev = NoSlab /\ next = NoSlab
           /\ slabs' = sl /\ UNCHANGED <<classes, link>>
        \/ /\ ~(prev = NoSlab /\ next = NoSlab)
           /\ slabs' = [q \in DOMAIN sl \ {p} |->
                           [sl[q] EXCEPT !.next = IF q = prev THEN next ELSE @,
                                         !.prev = IF q = next THEN prev ELSE @]]
           /\ classes' = [classes EXCEPT ![c].num_slabs = @ - 1,
                                         ![c].first_slab = IF prev = NoSlab THEN next ELSE @]
           /\ link' = Restrict(link, {k \in DOMAIN link : k[1] # p})

\* alloc(), first step: the first slab from the head that has a free chunk, or
\* a new one.
alloc_find(t, c) ==
    LET at == SlabAt(c)
        full(n) == slabs[at[n]].free_head = Null
    IN  /\ Start(t, c)
        /\ \/ \E n \in 0..MaxPages :
                /\ at[n] # NoSlab /\ ~full(n) /\ \A m \in 0..(n - 1) : full(m)
                /\ op' = [op EXCEPT ![t] = Op("found", at[n], slabs[at[n]].free_head)]
                /\ UNCHANGED heap
           \/ /\ \A n \in 0..MaxPages : at[n] # NoSlab => full(n)
              /\ create_slab(c)
              /\ op' = [op EXCEPT ![t] = Op("found", next_page, <<next_page, 1>>)]
              /\ UNCHANGED large
        /\ UNCHANGED held

\* alloc(), second step: the chunk is taken off the free list and returned; its
\* owner writes to it.
alloc_take(t) ==
    LET p == op[t].slab
        chunk == op[t].chunk
    IN  /\ op[t].at = "found" /\ StillThere(t)
        /\ slabs' = [slabs EXCEPT ![p].free_head = link[chunk], ![p].free_chunks = @ - 1]
        /\ link' = [link EXCEPT ![chunk] = Data]
        /\ held' = [held EXCEPT ![{chunk}] = @ + 1]
        /\ op' = [op EXCEPT ![t] = Idle]
        /\ UNCHANGED <<classes, large, next_page, raced>>

\* free(), first step: the chunk points to the old head of the free list.
free_link(t, chunk) ==
    /\ Start(t, slabs[chunk[1]].class)
    /\ link' = [link EXCEPT ![chunk] = slabs[chunk[1]].free_head]
    /\ held' = [held EXCEPT ![{chunk}] = @ - 1]
    /\ op' = [op EXCEPT ![t] = Op("linked", chunk[1], chunk)]
    /\ UNCHANGED <<classes, slabs, large, next_page>>

\* free(), second step: the chunk becomes the head; a slab that is empty now (the
\* chunks in use are few) and is not the only one of its class is destroyed.
CountFreed(t, few) ==
    LET p == op[t].slab
        c == slabs[p].class
        counted == [slabs EXCEPT ![p].free_head = op[t].chunk, ![p].free_chunks = @ + 1]
        empty == chunks_per_slab(c) - counted[p].free_chunks \in few
    IN  /\ op[t].at = "linked" /\ StillThere(t)
        /\ \/ empty /\ classes[c].num_slabs > 1 /\ destroy_slab(counted, c, p)
           \/ /\ ~(empty /\ classes[c].num_slabs > 1)
              /\ slabs' = counted /\ UNCHANGED <<classes, link>>
        /\ op' = [op EXCEPT ![t] = Idle]
        /\ UNCHANGED <<large, next_page, held, raced>>

\* Mutant: a slab is taken for empty one chunk too early.
Bug_too_early(t) == CountFreed(t, {0, 1})

free_count(t) == CountFreed(t, {0})

-----------------------------------------------------------------------------

\* kmalloc(): 0 bytes get no block, small blocks come from a slab.
kmalloc(t, bytes) ==
    /\ bytes # 0
    /\ \/ can_alloc(bytes) /\ alloc_find(t, get_size_class(bytes))
       \/ ~can_alloc(bytes) /\ op[t] = Idle /\ alloc_large(bytes)

\* is_slab(): the page begins with the magic of a slab header.
is_slab(p) == p \in DOMAIN slabs

\* kfree(): the first bytes of the page tell a slab from a large block (magic,
\* or the number of its pages).
kfree(t, b) ==
    \/ \E chunk \in DOMAIN link : b = {chunk} /\ is_slab(chunk[1]) /\ free_link(t, chunk)
    \/ \E p \in DOMAIN large :
          b = PageBlock(p, large[p]) /\ ~is_slab(p) /\ op[t] = Idle /\ free_large(p)

Next == \E t \in Threads :
    \/ \E bytes \in Requests : kmalloc(t, bytes)
    \/ \E b \in Held : kfree(t, b)
    \/ alloc_take(t)
    \/ free_count(t)

Spec == Init /\ [][Next]_vars

-----------------------------------------------------------------------------
(* Properties.                                                             *)

TypeOK ==
    /\ classes \in [DOMAIN Sizes -> [num_slabs : 0..MaxPages, first_slab : Pages \cup {NoSlab}]]
    /\ DOMAIN slabs \subseteq Pages /\ DOMAIN large \subseteq Pages
    /\ \A p \in DOMAIN slabs : slabs[p].free_chunks \in 0..chunks_per_slab(slabs[p].class)
    /\ next_page \in 1..(MaxPages + 1)
    /\ held \in [Blocks -> Nat]
    /\ \A t \in Threads : op[t].at \in {"idle", "found", "linked"}

Quiet(c) == \A t \in Threads : op[t] # Idle => slabs[op[t].slab].class # c
HeldIn(p) == {k \in DOMAIN link : k[1] = p /\ {k} \in Held}

\* The chunks of a slab are its free list and the blocks callers have: the list
\* built through the chunks' own bytes has no cycle, ends after free_chunks
\* steps and names no chunk in use, so none is lost and none is handed out twice.
ChunksAccounted ==
    \A p \in DOMAIN slabs : Quiet(slabs[p].class) =>
        LET at == FreeChunkAt(p)
            n == slabs[p].free_chunks
            free == {at[i] : i \in 0..(n - 1)}
        IN  /\ at[n] = Null
            /\ Cardinality(free) = n
            /\ free \cap HeldIn(p) = {}
            /\ free \cup HeldIn(p) = ChunksOf(p, slabs[p].class)

\* The doubly linked list of a class runs through exactly its slabs, both ways,
\* and num_slabs counts them: destroying a slab anywhere in it loses no other.
ListsConsistent ==
    \A c \in DOMAIN Sizes :
        LET at == SlabAt(c)
            n == classes[c].num_slabs
        IN  /\ {at[i] : i \in 0..(n - 1)} = {p \in DOMAIN slabs : slabs[p].class = c}
            /\ at[n] = NoSlab
            /\ \A i \in 1..(n - 1) : slabs[at[i]].prev = at[i - 1]
            /\ n > 0 => slabs[at[0]].prev = NoSlab

\* "Empty slabs are destroyed and returned to the VMM (unless it's the only slab
\* in the SizeClass)": between operations no class keeps an empty slab beside
\* another one.
NoSpareSlab ==
    \A p \in DOMAIN slabs :
        Quiet(slabs[p].class) /\ classes[slabs[p].class].num_slabs > 1 => HeldIn(p) # {}

\* A block lies in a page that is mapped, as a slab or as part of a large block:
\* destroy_slab() and free_kernel() never unmap a page somebody still uses.
HeldIsMapped ==
    \A b \in Held : \A k \in b :
        \/ k[1] \in DOMAIN slabs
        \/ \E p \in DOMAIN large : k[1] \in p..(p + large[p] - 1)

\* The free lists, the slab lists and the pages behind them agree with what
\* callers have, wherever threads were preempted, until two of them have been
\* inside one size class: slab::alloc(), slab::free(), create_slab() and
\* destroy_slab() keep them so.
HeapConsistent ==
    raced \/ (TypeOK /\ ChunksAccounted /\ ListsConsistent /\ NoSpareSlab /\ HeldIsMapped)

H == INSTANCE HeapBlocks WITH Blocks <- Blocks, held <- held

\* kmalloc() and kfree() are a heap, in which no two callers share a cell, until
\* two threads have been inside one size class.
IsHeap == H!HeapInit /\ [][raced' \/ \E b \in Blocks : H!Malloc(b) \/ H!Free(b)]_held

\* "sequential slab allocs return different addresses": a block that a caller has
\* is not handed out again.  alloc() breaks this when a thread is preempted
\* between reading free_head and storing its successor.
OneHolder == \A b \in Blocks : held[b] <= 1

=============================================================================
