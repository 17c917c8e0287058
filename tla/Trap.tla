-------------------------------- MODULE Trap --------------------------------
(***************************************************************************)
(* The ways into and out of the kernel of arch/x64: syscall_entry.s,       *)
(* isr.s, context_switch.s, and what they do to the flags of the one CPU:  *)
(* the interrupt flag, the active GS base and the AC flag that lifts SMAP. *)
(* pc[p] is the piece of code process p executes, or will go on with when  *)
(* it is switched to; frames[p] are the interrupt frames on its stack.     *)
(* Which process the scheduler picks is left open here: Scheduler.tla.     *)
(***************************************************************************)
EXTENDS Integers, Sequences

CONSTANTS
    Users,        \* slots for user processes
    Idle,         \* the idle process: a kernel thread that halts
    MaxDepth      \* bound on the interrupt frames of one process

ASSUME TrapAssumption == MaxDepth \in Nat

Procs == Users \cup {Idle}

VARIABLES cur, pc, frames, saved, cpu, in_service, away, lost

trapVars == <<cur, pc, frames, saved, cpu, in_service, away, lost>>

(***************************************************************************)
(* Where a process can be.                                                 *)
(*   sys       in the C++ code of a system call                            *)
(*   copy      past stac(), before memcpy() has touched the user's memory  *)
(*   readv     at the head of sys_readv()'s loop; read_in in inode->read() *)
(*   exit      in syscall_exit; exit_rsp past pop %rsp; exit_gs past swapgs *)
(*   isr       in interrupt_handler(); isr_exit past it; isr_gs past swapgs *)
(*   entry     in the trampoline of a process that has never run           *)
(***************************************************************************)
Points == {"none", "entry", "user", "sys", "copy", "readv", "read_in", "exit",
           "exit_rsp", "exit_gs", "isr", "isr_exit", "isr_gs", "idle"}

OnUserStack == {"user", "exit_rsp", "exit_gs"}
OnUserGs    == {"user", "exit_gs", "isr_gs"}

Vectors == {"timer", "keyboard"}

-----------------------------------------------------------------------------
(* RFLAGS and the GS base.                                                 *)

stac(c) == [c EXCEPT !.ac = TRUE]
clac(c) == [c EXCEPT !.ac = FALSE]

swapgs(c) == [c EXCEPT !.gs = IF @ = "user" THEN "kernel" ELSE "user"]

flags(c) == [if |-> c.if, ac |-> c.ac]

write_rflags(c, f) == [c EXCEPT !.if = f.if, !.ac = f.ac]

UserRflags == [if |-> TRUE, ac |-> FALSE]

\* map_heap_pages() inside a section opened by stac(): its own clac() is undone
\* by the write_rflags() of g_vmm_lock.unlock().
map_heap_pages(c) ==
    LET locked == [c EXCEPT !.if = FALSE]
    IN  write_rflags(clac(stac(locked)), flags(c))

-----------------------------------------------------------------------------
NothingSaved == [if |-> FALSE, ac |-> FALSE, back |-> "sys"]

TrapInit ==
    /\ cur = Idle
    /\ \E first \in Users :
         pc = [p \in Procs |-> IF p = Idle THEN "idle"
                               ELSE IF p = first THEN "entry" ELSE "none"]
    /\ frames = [p \in Procs |-> <<>>]
    /\ saved = [p \in Procs |-> NothingSaved]
    /\ cpu = [if |-> TRUE, gs |-> "kernel", ac |-> FALSE]
    /\ in_service = {}
    /\ away = [p \in Procs |-> TRUE]
    /\ lost = "no"

At(p, where) == lost = "no" /\ cur = p /\ pc[p] = where

Goto(p, where) == pc' = [pc EXCEPT ![p] = where]

\* context_switch(): only the callee-saved registers are on the stack it leaves;
\* RFLAGS and the GS base stay those of the CPU, but for the closing sti.
context_switch(table, c, q) ==
    /\ table[q] # "none"
    /\ pc' = table
    /\ cur' = q
    /\ cpu' = [c EXCEPT !.if = TRUE]
    /\ away' = [away EXCEPT ![q] = TRUE]

-----------------------------------------------------------------------------
(* System calls.                                                           *)

\* Mutant: SFMASK does not contain the interrupt flag.
Bug_open_entry(p) ==
    /\ At(p, "user")
    /\ cpu' = swapgs(cpu)
    /\ Goto(p, "sys")
    /\ away' = [away EXCEPT ![p] = FALSE]
    /\ UNCHANGED <<cur, frames, saved, in_service, lost>>

\* SYSCALL masks IF by SFMASK (AC is not in it); swapgs, kernel stack, frame.
syscall_entry(p) ==
    /\ At(p, "user")
    /\ cpu' = swapgs([cpu EXCEPT !.if = FALSE])
    /\ Goto(p, "sys")
    /\ away' = [away EXCEPT ![p] = FALSE]
    /\ UNCHANGED <<cur, frames, saved, in_service, lost>>

\* A section that saves RFLAGS, opens with stac() and touches user memory next.
OpenCopy(p, back, opened) ==
    /\ saved' = [saved EXCEPT ![p] = [if |-> cpu.if, ac |-> cpu.ac, back |-> back]]
    /\ cpu' = opened
    /\ Goto(p, "copy")
    /\ UNCHANGED <<cur, frames, in_service, away, lost>>

kcopy_to_user(p) ==
    \/ At(p, "sys") /\ OpenCopy(p, "sys", stac(cpu))
    \/ At(p, "read_in") /\ OpenCopy(p, "readv", stac(cpu))

\* kstring::from_userspace() allocates the copy between stac() and the copying.
from_userspace(p) == At(p, "sys") /\ OpenCopy(p, "sys", map_heap_pages(stac(cpu)))

SmapFault == lost' = "smap" /\ UNCHANGED <<cur, pc, frames, saved, cpu, in_service, away>>

\* memcpy() and the closing write_rflags().
CopyDone(p) ==
    /\ At(p, "copy")
    /\ IF cpu.ac
       THEN /\ cpu' = write_rflags(cpu, saved[p])
            /\ Goto(p, saved[p].back)
            /\ saved' = [saved EXCEPT ![p] = NothingSaved]
            /\ UNCHANGED <<cur, frames, in_service, away, lost>>
       ELSE SmapFault

sys_readv(p) ==
    /\ At(p, "sys")
    /\ cpu' = stac(cpu)
    /\ Goto(p, "readv")
    /\ UNCHANGED <<cur, frames, saved, in_service, away, lost>>

\* The head of the loop: iov[i] is read from user memory, or the loop is over.
ReadvLoop(p) ==
    /\ At(p, "readv")
    /\ \/ /\ cpu.ac
          /\ Goto(p, "read_in")
          /\ UNCHANGED <<cur, frames, saved, cpu, in_service, away, lost>>
       \/ ~cpu.ac /\ SmapFault
       \/ /\ cpu' = clac(cpu)
          /\ Goto(p, "sys")
          /\ UNCHANGED <<cur, frames, saved, in_service, away, lost>>

\* read() fails: the early return leaves without clac().
ReadvFails(p) ==
    /\ At(p, "read_in")
    /\ Goto(p, "sys")
    /\ UNCHANGED <<cur, frames, saved, cpu, in_service, away, lost>>

\* yield_blocked() and the other ways to give up the CPU inside a system call.
Yield(p) ==
    /\ At(p, "sys") \/ At(p, "read_in")
    /\ \E q \in Procs \ {p} : context_switch(pc, cpu, q)
    /\ UNCHANGED <<frames, saved, in_service, lost>>

\* Process::fork(): the child's first switch returns into syscall_exit.
sys_fork(p) ==
    /\ At(p, "sys")
    /\ \E child \in Users :
         /\ pc[child] = "none"
         /\ pc' = [pc EXCEPT ![child] = "exit"]
         /\ away' = [away EXCEPT ![child] = TRUE]
    /\ cpu' = clac(stac(cpu))
    /\ UNCHANGED <<cur, frames, saved, in_service, lost>>

\* exec_elf64() between its stac() and clac(), then yield_new_process().
sys_execve(p) ==
    /\ At(p, "sys")
    /\ \E q \in Procs : context_switch([pc EXCEPT ![p] = "entry"], clac(stac(cpu)), q)
    /\ UNCHANGED <<frames, saved, in_service, lost>>

\* yield_zombie() and permanent_context_switch(): p's stack is left behind.
sys_exit(p) ==
    /\ At(p, "sys")
    /\ \E q \in Procs \ {p} : context_switch([pc EXCEPT ![p] = "none"], cpu, q)
    /\ UNCHANGED <<frames, saved, in_service, lost>>

Returns(p) ==
    /\ At(p, "sys")
    /\ Goto(p, "exit")
    /\ UNCHANGED <<cur, frames, saved, cpu, in_service, away, lost>>

\* The pops, `pop %rsp', swapgs and sysretq, which loads RFLAGS from r11.
syscall_exit(p) ==
    /\ \/ At(p, "exit")     /\ cpu' = cpu /\ Goto(p, "exit_rsp")
       \/ At(p, "exit_rsp") /\ cpu' = swapgs(cpu) /\ Goto(p, "exit_gs")
       \/ At(p, "exit_gs")  /\ cpu' = write_rflags(cpu, UserRflags) /\ Goto(p, "user")
    /\ UNCHANGED <<cur, frames, saved, in_service, away, lost>>

\* cli, swapgs and an iretq with RFLAGS 0x202.
userspace_entry_context_switch(p) ==
    /\ At(p, "entry")
    /\ cpu' = swapgs(write_rflags(cpu, UserRflags))
    /\ Goto(p, "user")
    /\ UNCHANGED <<cur, frames, saved, in_service, away, lost>>

-----------------------------------------------------------------------------
(* Interrupts.  The vectors of the timer and of the keyboard have the same *)
(* priority class: neither is delivered while one of them is in service.   *)

IsrEntry(p, v, entered) ==
    /\ lost = "no" /\ cur = p /\ cpu.if /\ in_service = {}
    /\ Len(frames[p]) < MaxDepth
    /\ frames' = [frames EXCEPT ![p] = Append(@, [pc |-> pc[p], if |-> TRUE, ac |-> cpu.ac])]
    /\ cpu' = entered
    /\ in_service' = {v}
    /\ Goto(p, "isr")
    /\ away' = [away EXCEPT ![p] = @ /\ pc[p] # "user"]
    /\ lost' = IF pc[p] \in OnUserStack \ {"user"} THEN "stack" ELSE "no"
    /\ UNCHANGED <<cur, saved>>

\* Mutant: GS is swapped whatever the interrupted code was.
Bug_always_swaps(p, v) == IsrEntry(p, v, swapgs([cpu EXCEPT !.if = FALSE]))

\* An interrupt gate clears IF, never AC; isr_common swaps GS for a user CS.
isr_common(p, v) ==
    LET masked == [cpu EXCEPT !.if = FALSE]
    IN  IsrEntry(p, v, IF pc[p] = "user" THEN swapgs(masked) ELSE masked)

\* Every handler reads the per-CPU data through GS.
GsFault == lost' = "gs" /\ UNCHANGED <<cur, pc, frames, saved, cpu, in_service, away>>

\* apic_timer_handler(): send_eoi(), then tick(), which may switch to another process.
TimerInterrupt(p) ==
    /\ At(p, "isr") /\ in_service = {"timer"}
    /\ IF cpu.gs = "user" THEN GsFault
       ELSE /\ in_service' = {}
            /\ \/ Goto(p, "isr_exit") /\ UNCHANGED <<cur, cpu, away>>
               \/ \E q \in Procs \ {p} :
                    context_switch([pc EXCEPT ![p] = "isr_exit"], cpu, q)
            /\ UNCHANGED <<frames, saved, lost>>

\* keyboard_interrupt_handler(): wake_single(), then send_eoi().
KeyboardInterrupt(p) ==
    /\ At(p, "isr") /\ in_service = {"keyboard"}
    /\ IF cpu.gs = "user" THEN GsFault
       ELSE /\ in_service' = {}
            /\ Goto(p, "isr_exit")
            /\ UNCHANGED <<cur, frames, saved, cpu, away, lost>>

LastFrame(p) == frames[p][Len(frames[p])]

\* The end of isr_common: swapgs for a user CS, then iretq.
IsrExit(p) ==
    /\ At(p, "isr_exit") \/ At(p, "isr_gs")
    /\ IF pc[p] = "isr_exit" /\ LastFrame(p).pc = "user"
       THEN /\ cpu' = swapgs(cpu)
            /\ Goto(p, "isr_gs")
            /\ UNCHANGED frames
       ELSE /\ cpu' = write_rflags(cpu, LastFrame(p))
            /\ Goto(p, LastFrame(p).pc)
            /\ frames' = [frames EXCEPT ![p] = SubSeq(@, 1, Len(@) - 1)]
    /\ UNCHANGED <<cur, saved, in_service, away, lost>>

-----------------------------------------------------------------------------
SystemCall(p) ==
    \/ syscall_entry(p) \/ kcopy_to_user(p) \/ from_userspace(p) \/ CopyDone(p)
    \/ sys_readv(p) \/ ReadvLoop(p) \/ ReadvFails(p) \/ Yield(p)
    \/ sys_fork(p) \/ sys_execve(p) \/ sys_exit(p) \/ Returns(p) \/ syscall_exit(p)
    \/ userspace_entry_context_switch(p)

Interrupt(p) ==
    \/ \E v \in Vectors : isr_common(p, v)
    \/ TimerInterrupt(p) \/ KeyboardInterrupt(p) \/ IsrExit(p)

TrapNext == \E p \in Procs : SystemCall(p) \/ Interrupt(p)

TrapSpec == TrapInit /\ [][TrapNext]_trapVars

-----------------------------------------------------------------------------
TrapTypeOK ==
    /\ cur \in Procs
    /\ pc \in [Procs -> Points]
    /\ \A p \in Procs :
         /\ Len(frames[p]) <= MaxDepth
         /\ \A i \in 1..Len(frames[p]) :
              frames[p][i] \in [pc : Points, if : BOOLEAN, ac : BOOLEAN]
         /\ saved[p] \in [if : BOOLEAN, ac : BOOLEAN, back : {"sys", "readv"}]
    /\ cpu \in [if : BOOLEAN, gs : {"kernel", "user"}, ac : BOOLEAN]
    /\ in_service \subseteq Vectors
    /\ away \in [Procs -> BOOLEAN]
    /\ lost \in {"no", "smap", "stack", "gs"}

\* The swaps of GS in syscall_entry, syscall_exit, isr_common and the trampoline
\* pair up across every switch of processes: the user's GS is active exactly in
\* user code, between a swapgs and the return to it, and in a handler whose
\* interrupt came just there.
GsMatchesCode ==
    lost = "no" =>
      (cpu.gs = "user" <=> \/ pc[cur] \in OnUserGs
                           \/ pc[cur] = "isr" /\ LastFrame(cur).pc = "isr_gs")

\* syscall_exit and isr_common have no cli.  An interrupt can find them on the
\* user's stack or with the user's GS, or find sys_readv() without its AC flag,
\* only in a process that was switched to during this stay in the kernel, since
\* only context_switch() turns interrupts on there.
LostOnlyAfterSwitch == lost # "no" => away[cur]

\* Between stac() and the end of memcpy() the AC flag stays set, whatever
\* interrupts, switches and heap allocations come in between: kcopy_to_user()
\* and from_userspace() never fault on SMAP.
CopyKeepsAC == pc[cur] = "copy" => cpu.ac

\* An interrupt is ended before anything else runs: a vector in service is being
\* handled, with interrupts off.  A switch with a vector in service would block
\* the timer for ever.
EndedBeforeSwitch == in_service # {} => pc[cur] = "isr" /\ ~cpu.if

\* User code runs with interrupts on and without the kernel's AC flag, even
\* after sys_readv() has returned without clac().
UserFlags == pc[cur] = "user" => cpu.if /\ ~cpu.ac

\* The GS base, IF, AC and the vector in service are what the code being executed
\* needs, over every entry, exit, switch and nested interrupt.
FlagsMatchCode == TrapTypeOK /\ GsMatchesCode /\ CopyKeepsAC /\ EndedBeforeSwitch /\ UserFlags
=============================================================================
