---------------------------------- MODULE Pmm ----------------------------------
(***************************************************************************)
(* The physical memory manager (lib/memory/pmm.cpp) and the boot code that *)
(* hands it the memory map (init_memory() of lib/boot/limine-boot.cpp).    *)
(*                                                                         *)
(* Addresses are counted in frames: the regions of the map begin and end   *)
(* on frame boundaries.  Every function runs under g_pmm_spinlock with     *)
(* interrupts masked and is one step.                                      *)
(***************************************************************************)
EXTENDS Integers, FiniteSets, Sequences

CONSTANTS MAX_NUM_FRAMES,  \* frames the bitmap has a bit for
          Top,             \* bound: no region of the map reaches beyond Top
          MaxRegions       \* bound: usable regions in the map

ASSUME PmmAssumption ==
    /\ MAX_NUM_FRAMES \in Nat \ {0} /\ MAX_NUM_FRAMES % 2 = 0
    /\ Top \in Nat /\ MaxRegions \in Nat

VARIABLES regions,      \* usable regions of the map still to be added
          usable,       \* the frames of all of them
          used,         \* frame_bitmap: the bits that are 1
          start,        \* frame_bitmap_start
          end,          \* frame_bitmap_end
          total_frames,
          free_frames,
          panicked,     \* kpanic("PMM: Out of physical memory")
          taken,        \* history: the frames callers have
          unserved      \* history: frames of the region that was added last
                        \* and that no caller was ever given

counters == <<total_frames, free_frames>>
pmmVars == <<regions, usable, used, start, end, counters, panicked, taken, unserved>>

\* A region: frames lo, ..., hi - 1.  The map is sorted and its regions are
\* disjoint.
Region == {r \in [lo : 0..Top, hi : 0..Top] : r.lo < r.hi}

Map ==
    {m \in UNION {[1..n -> Region] : n \in 1..MaxRegions} :
        \A i \in 1..(Len(m) - 1) : m[i].hi <= m[i + 1].lo}

FramesOf(m) == UNION {m[i].lo..(m[i].hi - 1) : i \in DOMAIN m}

PmmTypeOK ==
    /\ usable \subseteq 0..Top /\ taken \cup unserved \subseteq 0..(MAX_NUM_FRAMES - 1)
    /\ used \subseteq 0..(MAX_NUM_FRAMES - 1)
    /\ start \in 0..MAX_NUM_FRAMES /\ end \in 0..MAX_NUM_FRAMES
    /\ total_frames \in Nat /\ free_frames \in Nat
    /\ panicked \in BOOLEAN

\* init(): all frames are used, the counters and the cursor are 0.
PmmInit ==
    /\ regions \in Map
    /\ usable = FramesOf(regions)
    /\ used = 0..(MAX_NUM_FRAMES - 1)
    /\ start = 0 /\ end = 0
    /\ total_frames = 0 /\ free_frames = 0
    /\ panicked = FALSE
    /\ taken = {} /\ unserved = {}

-----------------------------------------------------------------------------
(* The memory map.                                                         *)

ClearBit0(n) == n - (n % 2)

\* Mutant: frame 0 stays free.
Bug_keep_frame_0(r) ==
    LET last == IF r.hi >= MAX_NUM_FRAMES THEN MAX_NUM_FRAMES ELSE r.hi
    IN  /\ used' = used \ (r.lo..last)
        /\ start' = r.lo /\ end' = last
        /\ free_frames' = free_frames + last - r.lo
        /\ unserved' = r.lo..(last - 1)
        /\ UNCHANGED total_frames

\* add_free_memory() of a region that begins below the limit, with
\* set_addr_free() and set_frame_used(0).  frame_end is included in the loop,
\* so a region cut at the limit clears bit 0 of the word behind the bitmap:
\* of the module's own variables that can be the cursor or a counter.
AddRegion(r) ==
    LET last == IF r.hi >= MAX_NUM_FRAMES THEN MAX_NUM_FRAMES ELSE r.hi
        len == last - r.lo
        total == total_frames + len + 1
        free == free_frames + total + len
        overrun == last = MAX_NUM_FRAMES
    IN  /\ used' = (used \ (r.lo..last)) \cup {0}
        /\ end' = last
        /\ unserved' = (r.lo..(last - 1)) \ {0}
        /\ \E hit \in IF overrun THEN {"start", "total", "free", "none"} ELSE {"none"} :
              /\ start' = IF hit = "start" THEN ClearBit0(r.lo) ELSE r.lo
              /\ total_frames' = IF hit = "total" THEN ClearBit0(total) ELSE total
              /\ free_frames' = IF hit = "free" THEN ClearBit0(free) ELSE free

\* init_memory() adds the next usable region; one that begins beyond the limit
\* is ignored.
add_free_memory ==
    /\ regions # <<>>
    /\ regions' = Tail(regions)
    /\ \/ Head(regions).lo >= MAX_NUM_FRAMES
          /\ UNCHANGED <<used, start, end, counters, unserved>>
       \/ Head(regions).lo < MAX_NUM_FRAMES /\ AddRegion(Head(regions))
    /\ UNCHANGED <<usable, taken, panicked>>

-----------------------------------------------------------------------------
(* Callers, once the map has been read.                                    *)

Candidates == {f \in start..(end - 1) : f \notin used}

\* alloc_frame(): the first free frame from the cursor on; the cursor moves
\* to the frame step frames further.
TakeFirst(step) ==
    /\ regions = <<>> /\ ~panicked
    /\ \/ \E f \in Candidates :
             /\ \A g \in Candidates : f <= g
             /\ used' = used \cup {f}
             /\ start' = f + step
             /\ free_frames' = free_frames - 1
             /\ taken' = taken \cup {f} /\ unserved' = unserved \ {f}
             /\ UNCHANGED panicked
       \/ /\ Candidates = {} /\ panicked' = TRUE
          /\ UNCHANGED <<used, start, free_frames, taken, unserved>>
    /\ UNCHANGED <<regions, usable, end, total_frames>>

\* Mutant: the cursor skips a frame.
Bug_skips_frame == TakeFirst(2)

alloc_frame == TakeFirst(1)

\* free_frame() of a frame the caller has: the cursor is not moved back.
free_frame(f) ==
    /\ ~panicked /\ f \in taken
    /\ used' = used \ {f} /\ taken' = taken \ {f}
    /\ free_frames' = free_frames + 1
    /\ UNCHANGED <<regions, usable, start, end, total_frames, panicked, unserved>>

PmmNext == add_free_memory \/ alloc_frame \/ \E f \in taken : free_frame(f)

PmmSpec == PmmInit /\ [][PmmNext]_pmmVars

-----------------------------------------------------------------------------
(* Properties.                                                             *)

\* The memory frames are promised from.  When a region is cut at the limit the
\* store behind the bitmap may have moved the cursor one frame down, out of the
\* region, and any frame below the limit may come.
Promised ==
    IF \E f \in usable : f + 1 >= MAX_NUM_FRAMES THEN 0..(MAX_NUM_FRAMES - 1) ELSE usable

A == INSTANCE FrameAllocator WITH usable <- Promised, held <- taken

\* alloc_frame() and free_frame() implement a frame allocator for every memory
\* map: what is handed out has no other holder, is not frame 0, lies below the
\* limit and, unless the map reaches the limit, is usable memory.
IsFrameAllocator == A!AllocatorSpec

\* alloc_frame() does not give up early: when it panics, every frame of the
\* region it searches, the one that was added last, has been handed out.
LastRegionServed == panicked => unserved = {}

\* "Panics if no free frames are available" (alloc_frame()): after a panic no
\* usable frame below the limit is free.
PanicsOnlyWhenFull ==
    panicked => \A f \in usable \ {0} : f < MAX_NUM_FRAMES => f \in taken
=============================================================================
