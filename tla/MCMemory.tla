------------------------------ MODULE MCMemory ------------------------------
(***************************************************************************)
(* Three machines that share no state: the frames (Pmm), the address       *)
(* spaces of two processes (Vmm) and the kernel heap (Slab).  part says    *)
(* which one a behaviour is about.  The heap is followed up to the first   *)
(* race for a size class, behind which nothing is claimed of it.           *)
(***************************************************************************)
EXTENDS Pmm, Vmm, Slab, TLC

VARIABLE part

OneSegment == <<{0}>>

\* Two segments that meet inside a page.
TwoSegments == <<{0}, {0}>>

\* Forks, executions and exits of small programs; a program whose break grows
\* through a free page and over the stack; programs that mmap().
MCLimits ==
    {[frames |-> 21, break |-> 2, mmap |-> 0, kernel |-> 4, stack |-> 1,
      programs |-> {OneSegment, TwoSegments}],
     [frames |-> 15, break |-> 5, mmap |-> 1, kernel |-> 2, stack |-> 2,
      programs |-> {OneSegment}],
     [frames |-> 16, break |-> 2, mmap |-> 2, kernel |-> 3, stack |-> 1,
      programs |-> {TwoSegments}]}

\* Pages with room for two chunks of the first size class or one of the second.
MCSizes == <<8, 12>>

MemoryInit ==
    /\ part \in {"frames", "spaces", "heap"}
    /\ PmmInit /\ VmmInit /\ Init
    /\ part # "frames" => regions = <<[lo |-> 0, hi |-> 1]>>
    /\ part # "spaces" => limit = CHOOSE l \in Limits : TRUE

MemoryNext ==
    \/ part = "frames" /\ PmmNext /\ UNCHANGED <<part, vmmVars, vars>>
    \/ part = "spaces" /\ VmmNext /\ UNCHANGED <<part, pmmVars, vars>>
    \/ part = "heap" /\ ~raced /\ Next /\ UNCHANGED <<part, pmmVars, vmmVars>>

MemorySpec == MemoryInit /\ [][MemoryNext]_<<part, pmmVars, vmmVars, vars>>

Symmetry == Permutations(Threads)
=============================================================================
