---------------------------- MODULE FrameAllocator ----------------------------
(***************************************************************************)
(* What a physical memory manager promises: it hands out frames of usable  *)
(* memory, never frame 0, and no frame to two holders.                     *)
(***************************************************************************)
EXTENDS Naturals

VARIABLES usable,  \* the frames of the memory map
          held     \* the frames handed out and not yet freed

AllocatorInit == held = {}

Grant(f) == f \in usable \ (held \cup {0}) /\ held' = held \cup {f}

GiveBack(f) == f \in held /\ held' = held \ {f}

AllocatorNext ==
    /\ \E f \in usable : Grant(f) \/ GiveBack(f)
    /\ UNCHANGED usable

AllocatorSpec == AllocatorInit /\ [][AllocatorNext]_<<usable, held>>

=============================================================================
