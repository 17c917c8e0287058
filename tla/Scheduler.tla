------------------------------ MODULE Scheduler ------------------------------
(***************************************************************************)
(* The scheduling mechanism of hltOS on its one CPU: lib/scheduler,        *)
(* lib/process (the state changes of Process), the process system calls,   *)
(* the reaper kthread, context_switch.s, and the timer and keyboard        *)
(* interrupts as far as they reach the scheduler.                          *)
(*                                                                         *)
(* What is one step.  A section under g_processes_lock runs with IF=0 and  *)
(* preemption disabled on the only CPU, so it is one step.  Between two    *)
(* sections the running thread is at a point `at', and an interrupt may    *)
(* strike there exactly when IF is set: SYSCALL clears IF, context_switch  *)
(* ends in `sti', so a system call runs with interrupts enabled from the   *)
(* first time it is switched back in.                                      *)
(***************************************************************************)
EXTENDS Integers, Sequences, FiniteSets

CONSTANTS
    MaxPid,       \* bound on g_pid: processes that can ever be created
    NumKThreads,  \* pids 1..NumKThreads are kthreads, pid 1 is the reaper
    Slice,        \* TIME_SLICE_NS, in units of the model's clock
    MaxSleep,     \* bound on the duration given to yield_sleep_ns
    MaxKeys,      \* bound on the keyboard's event_buffer
    OpenPoints    \* the narrow points at which an interrupt may strike

NarrowPoints == {"marked", "polled", "window"}

ASSUME ConstantsAssumption ==
    /\ MaxPid \in Nat /\ NumKThreads \in Nat /\ NumKThreads >= 1
    /\ MaxPid >= NumKThreads + 1
    /\ Slice \in Nat /\ MaxSleep \in Nat /\ MaxKeys \in Nat
    /\ OpenPoints \subseteq NarrowPoints

Idle     == 0                  \* cpu->idle_process: never in g_processes
Reaper   == 1                  \* reaper_kthread, added first by init()
InitPid  == NumKThreads + 1    \* /bin/init, added by userspace::init()
Pids     == 1..MaxPid
Procs    == 0..MaxPid
AnyChild == -1                 \* the pid argument -1 of wait4
None     == -1                 \* kernel_rsp_saved names no parked frame

KThreads == 1..NumKThreads

States  == {"NEW", "RUNNING", "READY", "BLOCKED", "SLEEPING", "DEAD", "ZOMBIE"}
Reasons == {"NONE", "KEYBOARD", "SLEEP", "CHILD_PROCESS", "SIGNAL"}

VARIABLES
    pcb,       \* the scheduling fields of each Process
    parent,    \* Process::parent (Idle where it is nullptr)
    next_pid,  \* g_pid
    listed,    \* g_processes; pids grow along the list, so a set is enough
    ready,     \* the round-robin policy's queue
    sleepers,  \* g_sleepers
    cpu,       \* percpu->process
    stk,       \* the thread whose kernel stack the CPU is executing on
    irq_on,    \* the interrupt flag IF of the CPU
    ran,       \* time since quantum_start_ns of cpu, up to Slice
    saved,     \* kernel_rsp_saved: the stack whose parked frame it points to
    call,      \* the blocking operation each thread is inside
    at,        \* the point of that operation the thread has reached
    child_pid, \* argument of yield_to_child, AnyChild outside it
    next,      \* local `next' at "window", Idle elsewhere
    keys,      \* number of events in the keyboard's event_buffer
    fault      \* a switch used a kernel_rsp_saved that is not parked

vars == <<pcb, parent, next_pid, listed, ready, sleepers, cpu, stk, irq_on, ran,
          saved, call, at, child_pid, next, keys, fault>>
threadVars == <<call, at, child_pid, next>>

-----------------------------------------------------------------------------
(* lib/process/process.cpp: state changes of one Process.                  *)

NewPcb == [state |-> "NEW", wait_reason |-> "NONE",
           wait_pid |-> AnyChild, wake_in |-> 0]

wake(b) == [state |-> "READY", wait_reason |-> "NONE",
            wait_pid |-> AnyChild, wake_in |-> 0]

resume(b) == [state |-> "RUNNING", wait_reason |-> "NONE",
              wait_pid |-> AnyChild, wake_in |-> 0]

pause(b) == IF b.state = "RUNNING" THEN [b EXCEPT !.state = "READY"] ELSE b

kill(b) == [b EXCEPT !.state = "DEAD"]

zombify(b) == [b EXCEPT !.state = "ZOMBIE"]

wait_for(b, reason) ==
    [b EXCEPT !.state = IF reason = "SLEEP" THEN "SLEEPING" ELSE "BLOCKED",
              !.wait_reason = reason]

wait_for_child(b, pid) ==
    [wait_for(b, "CHILD_PROCESS") EXCEPT !.wait_pid = pid]

\* wake_time_ns is kept as the time left until it, 0 once it has passed.
sleep_for(b, duration) ==
    [wait_for(b, "SLEEP") EXCEPT !.wake_in = duration]

is_ready(b) == b.state \in {"READY", "NEW"}

is_waiting_for_child(b, pid) ==
    b.wait_reason = "CHILD_PROCESS" /\ b.wait_pid \in {pid, AnyChild}

-----------------------------------------------------------------------------
(* Helpers of scheduler_mechanism.cpp, as functions of the process table.  *)

WakeAll(t, S) == [p \in Procs |-> IF p \in S THEN wake(t[p]) ELSE t[p]]

\* Sequence q lists every member of S once and nothing else.
Lists(q, S) ==
    /\ \A i, j \in 1..Len(q) : q[i] = q[j] => i = j
    /\ {q[i] : i \in 1..Len(q)} = S

Orders(S) == {o \in [1..Cardinality(S) -> S] : Lists(o, S)}

\* The order of g_processes, which is the order of the pids.
ListOrder(S) == {o \in Orders(S) : \A i, j \in 1..Len(o) : i < j => o[i] < o[j]}

Due(t, heap) == {p \in heap : t[p].wake_in = 0}

\* wake_sleepers() enqueues in deadline order; deadlines that have passed are
\* not told apart in the model, so any order of the due sleepers is allowed.
wake_sleepers(t, heap) == WakeAll(t, Due(t, heap))

\* The policy's pick_next, or the idle process when nothing is ready.
PickFrom(queue) == IF queue = <<>> THEN Idle ELSE Head(queue)

RestOf(queue) == IF queue = <<>> THEN queue ELSE Tail(queue)

\* Mutant: a process that gave up the CPU is always put back in the queue.
Bug_enqueue_always(queue, p, b) == IF p # Idle THEN Append(queue, p) ELSE queue

enqueue_if_runnable(queue, p, b) ==
    IF p # Idle /\ is_ready(b) THEN Append(queue, p) ELSE queue

\* activate_process(p): the part the scheduler's state shows.
Activated(t, p) == [t EXCEPT ![p] = resume(@)]

\* context_switch(&old->kernel_rsp_saved, new->kernel_rsp_saved): parks the
\* stack in use in old's slot and continues from the frame new's slot names.
context_switch(old, new) ==
    /\ saved' = [saved EXCEPT ![old] = stk, ![new] = None]
    /\ fault' = (saved[new] # new)
    /\ stk' = new
    /\ irq_on' = TRUE

permanent_context_switch(new) ==
    /\ saved' = [saved EXCEPT ![new] = None]
    /\ fault' = (saved[new] # new)
    /\ stk' = new
    /\ irq_on' = TRUE

-----------------------------------------------------------------------------
(* Where the running thread is.                                            *)
(*   body    its own code: user mode, or the loop of a kthread             *)
(*   loop    at the head of the operation `call'                           *)
(*   marked  after sleep_for(), before yield_blocked() takes the lock      *)
(*   polled  the event buffer was empty, before yield_blocked()            *)
(*   window  after unlock(), before context_switch()                       *)

Points == {"body", "loop"} \cup NarrowPoints

Running(p, where, what) ==
    ~fault /\ stk = p /\ at[p] = where /\ call[p] = what

IsUser(p) == p > NumKThreads

\* Where a thread goes on when the operation `what' gets past its block:
\* read() and wait4() loop, the others return to the thread's own code.
Looping(what) == what \in {"KEYBOARD", "CHILD_PROCESS"}
AfterAt(what)   == IF Looping(what) THEN "loop" ELSE "body"
AfterCall(what) == IF Looping(what) THEN what ELSE "NONE"

Goto(p, where) == at' = [at EXCEPT ![p] = where]

ReturnFromCall(p) ==
    /\ at' = [at EXCEPT ![p] = "body"]
    /\ call' = [call EXCEPT ![p] = "NONE"]
    /\ child_pid' = [child_pid EXCEPT ![p] = AnyChild]
    /\ UNCHANGED next

\* SYSRET gives user mode the flags it had; a kthread's flag stays.
FlagAfter(p, what) == irq_on \/ (IsUser(p) /\ ~Looping(what))

-----------------------------------------------------------------------------
Init ==
    /\ pcb = [p \in Procs |-> IF p = Idle THEN resume(NewPcb) ELSE NewPcb]
    /\ parent = [p \in Procs |-> Idle]
    /\ next_pid = InitPid + 1
    /\ listed = 1..InitPid
    /\ ready = [i \in 1..InitPid |-> i]
    /\ sleepers = {}
    /\ cpu = Idle /\ stk = Idle /\ irq_on = TRUE /\ ran = 0
    /\ saved = [p \in Procs |-> IF p \in listed THEN p ELSE None]
    /\ call = [p \in Procs |-> "NONE"]
    /\ at = [p \in Procs |-> "body"]
    /\ child_pid = [p \in Procs |-> AnyChild]
    /\ next = [p \in Procs |-> Idle]
    /\ keys = 0
    /\ fault = FALSE

-----------------------------------------------------------------------------
(* Giving up the CPU.                                                      *)

\* pick_next_process() and the activation of what it picks, from process
\* table t, sleepers heap and the order in which the due sleepers are woken.
PickAndActivate(t, heap, queue, order) ==
    /\ pcb' = Activated(wake_sleepers(t, heap), PickFrom(queue \o order))
    /\ ready' = RestOf(queue \o order)
    /\ sleepers' = heap \ Due(t, heap)
    /\ ran' = 0

\* The lock is released with percpu->process already the process picked.
EnterWindow(p, picked) ==
    /\ cpu' = picked
    /\ next' = [next EXCEPT ![p] = picked]
    /\ at' = [at EXCEPT ![p] = "window"]
    /\ UNCHANGED <<call, irq_on>>

\* Mutant: the insert into g_sleepers is left out.
Bug_no_insert(p) ==
    LET blocked == [pcb EXCEPT ![p] = wait_for(@, call[p])]
    IN  /\ \E order \in Orders(Due(blocked, sleepers)) :
             /\ PickAndActivate(blocked, sleepers, ready, order)
             /\ EnterWindow(p, PickFrom(ready \o order))
        /\ UNCHANGED <<parent, next_pid, listed, stk, saved, child_pid, keys, fault>>

\* yield_blocked(call[p]).  A sleeper that is due already may pick itself,
\* and then simply carries on.
yield_blocked(p) ==
    LET blocked == [pcb EXCEPT ![p] = wait_for(@, call[p])]
        heap == IF call[p] = "SLEEP" THEN sleepers \cup {p} ELSE sleepers
    IN  /\ \E order \in Orders(Due(blocked, heap)) :
             LET picked == PickFrom(ready \o order)
             IN  /\ PickAndActivate(blocked, heap, ready, order)
                 /\ \/ /\ picked = p
                       /\ at' = [at EXCEPT ![p] = AfterAt(call[p])]
                       /\ call' = [call EXCEPT ![p] = AfterCall(call[p])]
                       /\ irq_on' = FlagAfter(p, call[p])
                       /\ UNCHANGED <<cpu, next>>
                    \/ picked # p /\ EnterWindow(p, picked)
        /\ UNCHANGED <<parent, next_pid, listed, stk, saved, child_pid, keys, fault>>

\* The context_switch() that ends yield_blocked() and yield_to_child().
SwitchAway(p) ==
    /\ ~fault /\ stk = p /\ at[p] = "window"
    /\ context_switch(p, next[p])
    /\ at' = [at EXCEPT ![p] = AfterAt(call[p])]
    /\ call' = [call EXCEPT ![p] = AfterCall(call[p])]
    /\ next' = [next EXCEPT ![p] = Idle]
    /\ UNCHANGED <<pcb, parent, next_pid, listed, ready, sleepers, cpu, ran,
                   child_pid, keys>>

\* yield_dead() and yield_zombie(): with interrupts off from the start, leave
\* the CPU for good.  t is the process table once `parents' were woken.
LeaveForGood(t, parents) ==
    /\ \E first \in ListOrder(parents), order \in Orders(Due(t, sleepers)) :
         LET picked == PickFrom(ready \o first \o order)
         IN  /\ PickAndActivate(t, sleepers, ready \o first, order)
             /\ cpu' = picked
             /\ permanent_context_switch(picked)
    /\ UNCHANGED <<parent, next_pid, listed, threadVars, keys>>

\* A kthread other than the reaper returns from its entry function.
yield_dead(p) ==
    /\ Running(p, "body", "NONE") /\ p \in KThreads \ {Reaper}
    /\ LeaveForGood([pcb EXCEPT ![p] = kill(@)], {})

\* Mutant: is_waiting_for_child() without its test for pid -1.
Bug_exact_pid_only(t, pid) ==
    {q \in listed : /\ t[q].state = "BLOCKED"
                    /\ t[q].wait_reason = "CHILD_PROCESS" /\ t[q].wait_pid = pid}

\* Mutant: the exit wakes nobody.
Bug_wake_nobody(t, pid) == {}

\* wake_parents(pid): every process blocked for this child or for any child.
wake_parents(t, pid) ==
    {q \in listed : t[q].state = "BLOCKED" /\ is_waiting_for_child(t[q], pid)}

\* sys_exit(): yield_zombie().
sys_exit(p) ==
    /\ Running(p, "body", "NONE") /\ IsUser(p)
    /\ LET t == [pcb EXCEPT ![p] = zombify(@)]
           parents == wake_parents(t, p)
       IN  LeaveForGood(WakeAll(t, parents), parents)

\* Mutant: exec() keeps the kernel_rsp_saved of the program it replaces.
Bug_no_new_frame(p) ==
    /\ Running(p, "body", "NONE") /\ IsUser(p)
    /\ \E order \in Orders(Due(pcb, sleepers)) :
        LET queue == ready \o order
            picked == PickFrom(queue)
            woken == [wake_sleepers(pcb, sleepers) EXCEPT ![p] = wake(@)]
        IN  /\ pcb' = Activated(woken, picked)
            /\ ready' = enqueue_if_runnable(RestOf(queue), p, woken[p])
            /\ sleepers' = sleepers \ Due(pcb, sleepers)
            /\ cpu' = picked /\ ran' = 0
            /\ permanent_context_switch(picked)
    /\ UNCHANGED <<parent, next_pid, listed, threadVars, keys>>

\* sys_execve(): the process becomes new and queues itself behind the others.
sys_execve(p) ==
    /\ Running(p, "body", "NONE") /\ IsUser(p)
    /\ \E order \in Orders(Due(pcb, sleepers)) :
        LET queue == ready \o order
            picked == PickFrom(queue)
            woken == [wake_sleepers(pcb, sleepers) EXCEPT ![p] = wake(@)]
        IN  /\ pcb' = Activated(woken, picked)
            /\ ready' = enqueue_if_runnable(RestOf(queue), p, woken[p])
            /\ sleepers' = sleepers \ Due(pcb, sleepers)
            /\ cpu' = picked /\ ran' = 0
            /\ saved' = [saved EXCEPT ![p] = p, ![picked] = None]
            /\ fault' = (saved[picked] # picked)
            /\ stk' = picked /\ irq_on' = TRUE
            /\ UNCHANGED <<parent, next_pid, listed, threadVars, keys>>

\* sys_fork(): the child is built, listed and queued with interrupts off.
sys_fork(p) ==
    /\ Running(p, "body", "NONE") /\ IsUser(p)
    /\ next_pid <= MaxPid
    /\ pcb' = [pcb EXCEPT ![next_pid] = NewPcb]
    /\ parent' = [parent EXCEPT ![next_pid] = p]
    /\ saved' = [saved EXCEPT ![next_pid] = next_pid]
    /\ listed' = listed \cup {next_pid}
    /\ ready' = Append(ready, next_pid)
    /\ next_pid' = next_pid + 1
    /\ UNCHANGED <<sleepers, cpu, stk, irq_on, ran, threadVars, keys, fault>>

-----------------------------------------------------------------------------
(* System calls that block, and the kthreads' loops.                       *)

\* SYSCALL clears IF; the call then runs up to its first step below.
Enter(p, what) ==
    /\ at' = [at EXCEPT ![p] = "loop"]
    /\ call' = [call EXCEPT ![p] = what]
    /\ irq_on' = (irq_on /\ ~IsUser(p))

sys_read(p) ==
    /\ Running(p, "body", "NONE") /\ IsUser(p)
    /\ Enter(p, "KEYBOARD")
    /\ UNCHANGED <<pcb, parent, next_pid, listed, ready, sleepers, cpu, stk,
                   ran, saved, child_pid, next, keys, fault>>

sys_sleep(p) ==
    /\ Running(p, "body", "NONE") /\ p # Idle /\ p # Reaper
    /\ Enter(p, "SLEEP")
    /\ UNCHANGED <<pcb, parent, next_pid, listed, ready, sleepers, cpu, stk,
                   ran, saved, child_pid, next, keys, fault>>

sys_pause(p) ==
    /\ Running(p, "body", "NONE") /\ IsUser(p)
    /\ Enter(p, "SIGNAL")
    /\ UNCHANGED <<pcb, parent, next_pid, listed, ready, sleepers, cpu, stk,
                   ran, saved, child_pid, next, keys, fault>>

sys_wait4(p) ==
    /\ Running(p, "body", "NONE") /\ IsUser(p)
    /\ Enter(p, "CHILD_PROCESS")
    /\ \E pid \in Pids \cup {AnyChild} :
          child_pid' = [child_pid EXCEPT ![p] = pid]
    /\ UNCHANGED <<pcb, parent, next_pid, listed, ready, sleepers, cpu, stk,
                   ran, saved, next, keys, fault>>

\* Mutant: the reaper also frees processes that wait for their parent.
Bug_reap_zombies ==
    /\ Running(Reaper, "body", "NONE")
    /\ listed' = {p \in listed : pcb[p].state \notin {"DEAD", "ZOMBIE"}}
    /\ Enter(Reaper, "SLEEP")
    /\ UNCHANGED <<pcb, parent, next_pid, ready, sleepers, cpu, stk, ran,
                   saved, child_pid, next, keys, fault>>

\* Mutant: the reaper stops at the first turn, `erase' is never reached.
Bug_reap_nothing ==
    /\ Running(Reaper, "body", "NONE")
    /\ Enter(Reaper, "SLEEP")
    /\ UNCHANGED <<pcb, parent, next_pid, listed, ready, sleepers, cpu, stk, ran,
                   saved, child_pid, next, keys, fault>>

\* reap(): delete every DEAD process, then sleep for REAP_INTERVAL_MS.
reap ==
    /\ Running(Reaper, "body", "NONE")
    /\ listed' = {p \in listed : pcb[p].state # "DEAD"}
    /\ Enter(Reaper, "SLEEP")
    /\ UNCHANGED <<pcb, parent, next_pid, ready, sleepers, cpu, stk, ran,
                   saved, child_pid, next, keys, fault>>

\* The first half of yield_sleep_ns(), outside the lock.
yield_sleep_ns(p) ==
    /\ Running(p, "loop", "SLEEP")
    /\ \E duration \in 0..MaxSleep : pcb' = [pcb EXCEPT ![p] = sleep_for(@, duration)]
    /\ Goto(p, "marked")
    /\ UNCHANGED <<parent, next_pid, listed, ready, sleepers, cpu, stk, irq_on,
                   ran, saved, call, child_pid, next, keys, fault>>

Blocking(p) ==
    /\ \/ Running(p, "marked", "SLEEP")
       \/ Running(p, "polled", "KEYBOARD")
       \/ Running(p, "loop", "SIGNAL")
    /\ yield_blocked(p)

\* Mutant: poll() does not test whether the buffer is empty.
Bug_poll_unchecked(p) ==
    /\ Running(p, "loop", "KEYBOARD")
    /\ keys' = keys - 1
    /\ UNCHANGED <<pcb, parent, next_pid, listed, ready, sleepers, cpu, stk,
                   irq_on, ran, saved, threadVars, fault>>

\* One turn of the loop of the tty's read(): poll() an event.  Enter ends the
\* call, any other event goes round again, an empty buffer leads to a block.
tty_poll(p) ==
    /\ Running(p, "loop", "KEYBOARD")
    /\ \/ /\ keys = 0
          /\ Goto(p, "polled")
          /\ UNCHANGED <<call, irq_on, keys>>
       \/ /\ keys > 0
          /\ keys' = keys - 1
          /\ UNCHANGED <<at, call, irq_on>>
       \/ /\ keys > 0
          /\ keys' = keys - 1
          /\ Goto(p, "body")
          /\ call' = [call EXCEPT ![p] = "NONE"]
          /\ irq_on' = TRUE
    /\ UNCHANGED <<pcb, parent, next_pid, listed, ready, sleepers, cpu, stk,
                   ran, saved, child_pid, next, fault>>

\* Children whose `parent' was freed by reap(): find_child() reads the pid of
\* a freed Process, which may by then be any number.
Dangling == {q \in listed : parent[q] # Idle /\ parent[q] \notin listed}

\* Mutant: the parent is not compared.
Bug_every_process(p, pid, misread) == {q \in listed : pid \in {q, AnyChild}}

\* find_child(): the processes it takes for children of p that match pid.
Matches(p, pid, misread) ==
    {q \in listed : /\ pid \in {q, AnyChild}
                    /\ parent[q] = p \/ q \in misread}

\* Mutant: find_child()'s first match is taken for an exited child.
Bug_any_child(S) == S

Zombies(S) == {q \in S : pcb[q].state = "ZOMBIE"}

\* One turn of the loop of yield_to_child().
yield_to_child(p) ==
    /\ Running(p, "loop", "CHILD_PROCESS")
    /\ \E misread \in SUBSET Dangling :
         LET found == Matches(p, child_pid[p], misread)
         IN  \/ /\ found = {}
                /\ ReturnFromCall(p) /\ irq_on' = TRUE
                /\ UNCHANGED <<pcb, ready, sleepers, cpu, ran>>
             \/ \E child \in Zombies(found) :
                /\ \A q \in Zombies(found) : child <= q
                /\ pcb' = [pcb EXCEPT ![child] = kill(@), ![p] = resume(@)]
                /\ ran' = 0
                /\ ReturnFromCall(p) /\ irq_on' = TRUE
                /\ UNCHANGED <<ready, sleepers, cpu>>
             \/ /\ found # {} /\ Zombies(found) = {}
                /\ LET blocked == [pcb EXCEPT ![p] = wait_for_child(@, child_pid[p])]
                   IN  \E order \in Orders(Due(blocked, sleepers)) :
                         /\ PickAndActivate(blocked, sleepers, ready, order)
                         /\ EnterWindow(p, PickFrom(ready \o order))
                /\ UNCHANGED child_pid
    /\ UNCHANGED <<parent, next_pid, listed, stk, saved, keys, fault>>

-----------------------------------------------------------------------------
(* Interrupts and time.                                                    *)

\* The CPU takes an interrupt when IF is set; OpenPoints says which of the
\* points that are only a few instructions wide are considered.
InterruptTaken ==
    ~fault /\ irq_on /\ (at[stk] \in NarrowPoints => at[stk] \in OpenPoints)

\* Mutant: the timer handler wakes sleepers but never preempts.
Bug_never_preempt ==
    /\ InterruptTaken
    /\ \E order \in Orders(Due(pcb, sleepers)) :
         /\ sleepers' = sleepers \ Due(pcb, sleepers)
         /\ pcb' = wake_sleepers(pcb, sleepers)
         /\ ready' = ready \o order
    /\ UNCHANGED <<cpu, stk, irq_on, ran, saved, fault, parent, next_pid, listed,
                   threadVars, keys>>

\* The timer: wake_sleepers(), then preempt().
tick ==
    /\ InterruptTaken
    /\ \E order \in Orders(Due(pcb, sleepers)) :
         LET queue == ready \o order
             picked == PickFrom(queue)
             woken == wake_sleepers(pcb, sleepers)
             paused == [woken EXCEPT ![cpu] = pause(@)]
             expired == cpu = Idle \/ ran >= Slice
         IN  /\ sleepers' = sleepers \ Due(pcb, sleepers)
             /\ \/ /\ ~expired \/ picked = cpu
                   /\ pcb' = woken
                   /\ ready' = IF expired THEN RestOf(queue) ELSE queue
                   /\ UNCHANGED <<cpu, stk, irq_on, ran, saved, fault>>
                \/ /\ expired /\ picked # cpu
                   /\ pcb' = Activated(paused, picked)
                   /\ ready' = enqueue_if_runnable(RestOf(queue), cpu, paused[cpu])
                   /\ cpu' = picked /\ ran' = 0
                   /\ context_switch(cpu, picked)
    /\ UNCHANGED <<parent, next_pid, listed, threadVars, keys>>

KeyboardWaiters ==
    {q \in listed : pcb[q].state = "BLOCKED" /\ pcb[q].wait_reason = "KEYBOARD"}

\* The keyboard: push the events that the pending scancodes complete (a lone
\* prefix byte completes none), then wake_single(KEYBOARD), which wakes the
\* first waiter of g_processes.
keyboard_interrupt_handler ==
    /\ InterruptTaken
    /\ keys' \in keys..MaxKeys
    /\ \/ /\ KeyboardWaiters = {}
          /\ UNCHANGED <<pcb, ready>>
       \/ \E p \in KeyboardWaiters :
          /\ \A q \in KeyboardWaiters : p <= q
          /\ pcb' = [pcb EXCEPT ![p] = wake(@)]
          /\ ready' = Append(ready, p)
    /\ UNCHANGED <<parent, next_pid, listed, sleepers, cpu, stk, irq_on, ran,
                   saved, threadVars, fault>>

\* The TSC advances: deadlines come nearer and the quantum is used up.
Elapse ==
    /\ ~fault
    /\ pcb' = [p \in Procs |->
                 IF pcb[p].wake_in > 0 THEN [pcb[p] EXCEPT !.wake_in = @ - 1]
                                       ELSE pcb[p]]
    /\ ran' = IF ran < Slice THEN ran + 1 ELSE ran
    /\ UNCHANGED <<parent, next_pid, listed, ready, sleepers, cpu, stk, irq_on,
                   saved, threadVars, keys, fault>>

ThreadStep(p) ==
    \/ SwitchAway(p) \/ Blocking(p) \/ yield_sleep_ns(p)
    \/ tty_poll(p) \/ yield_to_child(p)

SystemCall(p) ==
    \/ sys_exit(p) \/ sys_execve(p) \/ sys_fork(p) \/ sys_read(p)
    \/ sys_sleep(p) \/ sys_pause(p) \/ sys_wait4(p) \/ yield_dead(p)

Next ==
    \/ \E p \in Pids : ThreadStep(p) \/ SystemCall(p)
    \/ reap
    \/ tick \/ keyboard_interrupt_handler
    \/ Elapse

Spec == Init /\ [][Next]_vars

-----------------------------------------------------------------------------
(* Safety, whatever the points at which interrupts strike.                 *)

\* The processes of L that could run now.
Runnable(L, t) == {p \in L : is_ready(t[p])}

Queued == {ready[i] : i \in 1..Len(ready)}

PcbType == [state : States, wait_reason : Reasons,
            wait_pid : Pids \cup {AnyChild}, wake_in : 0..MaxSleep]

\* Every variable stays within its type; the bounds are those of the model.
TypeOK ==
    /\ pcb \in [Procs -> PcbType]
    /\ parent \in [Procs -> Procs]
    /\ next_pid \in (InitPid + 1)..(MaxPid + 1)
    /\ listed \subseteq 1..(next_pid - 1)
    /\ ready \in Seq(Pids)
    /\ sleepers \subseteq Pids
    /\ cpu \in Procs /\ stk \in Procs /\ irq_on \in BOOLEAN /\ ran \in 0..Slice
    /\ saved \in [Procs -> Procs \cup {None}]
    /\ call \in [Procs -> Reasons] /\ at \in [Procs -> Points]
    /\ child_pid \in [Procs -> Pids \cup {AnyChild}]
    /\ next \in [Procs -> Procs]
    /\ keys \in 0..MaxKeys /\ fault \in BOOLEAN

\* The policy's queue holds exactly the listed processes that are READY or
\* NEW, each once: no process is queued twice by two wake-ups, none that is
\* runnable is forgotten, and the running one is never queued (so the
\* kassert(current != next) of yield_dead, yield_zombie and yield_new_process
\* and the self-switch test of preempt() hold).
RunQueueExact == Lists(ready, Runnable(listed, pcb))

\* A process in g_sleepers is SLEEPING and still listed, so wake_sleepers()
\* never enqueues a process that is running, exited or freed.
SleepersAsleep == \A p \in sleepers : p \in listed /\ pcb[p].state = "SLEEPING"

\* A SLEEPING process is in g_sleepers, where the timer will find it, unless it
\* stands between sleep_for(), which marks it SLEEPING, and the insert of
\* yield_blocked(): an interrupt there may switch away from it for good.
SleepersAreInHeap ==
    \A p \in listed : pcb[p].state = "SLEEPING" => p \in sleepers \/ at[p] = "marked"

\* g_sleepers holds the SLEEPING processes and no others, so that the timer wakes
\* each of them and none twice (yield_sleep_ns(), wake_sleepers()); the one it can
\* miss is a process preempted inside yield_sleep_ns() before its insert.
SleepersExact == SleepersAsleep /\ SleepersAreInHeap

\* reap() frees a Process only when nothing will touch it again: it is not
\* queued, not asleep, not the current process (which is also the one a
\* pending switch goes to), and the CPU is not on its stack.
FreedIsUnreachable ==
    \A p \in Pids \ listed : p \notin Queued \cup sleepers \cup {cpu, stk}

\* wait4() misses no exit: a process blocked in yield_to_child() has no child
\* that matches its argument and is already a ZOMBIE.
NoMissedExit ==
    \A p, q \in listed :
        /\ pcb[p].state = "BLOCKED" /\ is_waiting_for_child(pcb[p], q)
        /\ parent[q] = p
        => pcb[q].state # "ZOMBIE"

ExitKept ==
    \A p \in listed :
        /\ pcb[p].state = "ZOMBIE" =>
              \/ pcb'[p].state = "ZOMBIE"
              \/ pcb'[p].state = "DEAD" /\ call[cpu] = "CHILD_PROCESS"
        /\ pcb[p].state = "DEAD" => pcb'[p].state = "DEAD"
        /\ p \notin listed' => pcb[p].state = "DEAD"

\* An exited process is kept: a ZOMBIE stays one until a process inside
\* yield_to_child() makes it DEAD, only a DEAD process leaves g_processes,
\* and a DEAD process never comes back.
ExitIsKept == [][ExitKept]_vars

Collected ==
    \A p \in listed :
        pcb[p].state = "ZOMBIE" /\ pcb'[p].state = "DEAD" =>
            cpu = parent[p] \/ parent[p] \notin listed

\* A ZOMBIE is collected by its own parent, unless that parent was freed: only
\* then find_child() may take a process for the child of another.
CollectedByParent == [][Collected]_vars

-----------------------------------------------------------------------------
(* What holds as long as interrupts keep clear of the switch window.       *)

\* A switch always continues the process it switches to from that process's
\* own latest call of context_switch(), never from another stack or from a
\* frame that was already resumed.
SwitchesToOwnFrame == ~fault

-----------------------------------------------------------------------------
(* Liveness.  A pending timer interrupt is held by the APIC until IF is    *)
(* set, hence strong fairness of tick; a thread that gets the CPU again    *)
(* and again executes its kernel code in the end, since a quantum is many  *)
(* instructions long, hence strong fairness of its steps; the clock runs.  *)
(* User code may compute for ever, so no system call is fair.              *)

Fairness ==
    /\ SF_vars(tick)
    /\ WF_vars(Elapse)
    /\ SF_vars(reap)
    /\ \A p \in Pids : SF_vars(ThreadStep(p))

FairSpec == Spec /\ Fairness

\* A queued process eventually gets the CPU, however long the others compute.
QueuedRuns == \A p \in Pids : p \in Queued ~> cpu = p

\* A process that reached g_sleepers eventually runs again.
SleeperRuns == \A p \in Pids : p \in sleepers ~> cpu = p

\* Round robin with a tick starves nobody: whatever is queued or asleep gets the
\* CPU in the end (preempt(), wake_sleepers(), pick_next()).
NobodyStarves == QueuedRuns /\ SleeperRuns

\* The reaper was switched away from between sleep_for() and its insert into
\* g_sleepers, and nothing will wake it.
ReaperIsLost ==
    pcb[Reaper].state = "SLEEPING" /\ Reaper \notin sleepers /\ stk # Reaper

\* A DEAD process is eventually freed by the reaper, unless the reaper itself was
\* preempted on its way to sleep and lost.
DeadIsFreed ==
    \A p \in Pids :
        p \in listed /\ pcb[p].state = "DEAD" ~> p \notin listed \/ ReaperIsLost

\* wait4() returns once one of the children it waits for has exited.  (A
\* parent is older than its children, and pids grow.)
WaitReturns ==
    \A q \in Pids : \A p \in 1..(q - 1) :
        /\ p \in listed /\ q \in listed /\ parent[q] = p
        /\ call[p] = "CHILD_PROCESS" /\ child_pid[p] \in {q, AnyChild}
        /\ pcb[q].state = "ZOMBIE"
        ~> call[p] # "CHILD_PROCESS"
=============================================================================
