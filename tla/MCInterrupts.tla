---------------------------- MODULE MCInterrupts ----------------------------
(***************************************************************************)
(* Four machines that share no state: the ways into and out of the kernel, *)
(* the timer, the set-up of the keyboard controller and the routing of its *)
(* interrupt.  part says which one a behaviour is about.                   *)
(***************************************************************************)
EXTENDS Trap, ApicTimer, Ps2, Madt, TLC

VARIABLE part

Init == part \in {"trap", "timer", "ps2", "madt"}
        /\ TrapInit /\ timer_init /\ Ps2Init /\ MadtInit

Next ==
    \/ part = "trap"  /\ TrapNext  /\ UNCHANGED <<part, timerVars, ps2Vars, madtVars>>
    \/ part = "timer" /\ TimerNext /\ UNCHANGED <<part, trapVars, ps2Vars, madtVars>>
    \/ part = "ps2"   /\ Ps2Next   /\ UNCHANGED <<part, trapVars, timerVars, madtVars>>
    \/ part = "madt"  /\ MadtNext  /\ UNCHANGED <<part, trapVars, timerVars, ps2Vars>>

Spec == Init /\ [][Next]_<<part, trapVars, timerVars, ps2Vars, madtVars>>

Symmetry == Permutations(Users) \cup Permutations(Sleepers)
=============================================================================
