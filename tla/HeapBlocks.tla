------------------------------ MODULE HeapBlocks ------------------------------
(***************************************************************************)
(* What kmalloc() and kfree() promise: a block handed out shares no cell   *)
(* with a block somebody holds, and a block given back was held.           *)
(***************************************************************************)
EXTENDS Naturals

CONSTANT Blocks  \* the blocks there can be, each the set of its cells

VARIABLE held    \* how often each block is handed out and not yet given back

HeapInit == held = [b \in Blocks |-> 0]

Malloc(b) ==
    /\ \A h \in Blocks : held[h] > 0 => h \cap b = {}
    /\ held' = [held EXCEPT ![b] = @ + 1]

Free(b) == held[b] > 0 /\ held' = [held EXCEPT ![b] = @ - 1]

HeapSpec == HeapInit /\ [][\E b \in Blocks : Malloc(b) \/ Free(b)]_held

=============================================================================
