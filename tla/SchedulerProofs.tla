--------------------------- MODULE SchedulerProofs ---------------------------
(***************************************************************************)
(* The steps that put the current process back in the queue, and the       *)
(* safety properties of Scheduler, for every number of processes and       *)
(* kthreads and for every choice of the points at which interrupts strike. *)
(***************************************************************************)
EXTENDS SchedulerInvariant

-----------------------------------------------------------------------------
(* Steps that requeue the current process.                                 *)

\* The current process is put back with PCB b behind the others, and x is
\* continued: the tail of preempt() and of yield_new_process().
LEMMA RequeueStep ==
    ASSUME IInv, ~fault, NEW b \in PcbType, b.state \in {"READY", "SLEEPING"},
           b.state = "SLEEPING" => pcb[cpu].state = "SLEEPING",
           NEW order \in Orders(Due(pcb, sleepers)),
           NEW x, x = PickFrom(ready \o order), x # cpu,
           pcb' = Activated([wake_sleepers(pcb, sleepers) EXCEPT ![cpu] = b], x),
           ready' = enqueue_if_runnable(RestOf(ready \o order), cpu, b),
           sleepers' = sleepers \ Due(pcb, sleepers),
           cpu' = x, stk' = x, ran' = 0, irq_on' = TRUE, fault' = (saved[x] # x),
           NEW s \in Procs, s = cpu => at[cpu] # "window",
           saved' = [saved EXCEPT ![cpu] = s, ![x] = None],
           UNCHANGED <<parent, next_pid, listed, call, at, child_pid, next, keys>>
    PROVE  IInv' /\ StepKeeps /\ pcb'[stk'].state = "RUNNING"
<1> DEFINE W == wake_sleepers(pcb, sleepers)
           u == Activated(W, x)
           D == Due(pcb, sleepers)
           r == RestOf(ready \o order)
<1>1. /\ listed \subseteq Pids /\ listed \subseteq Procs /\ sleepers \subseteq listed
      /\ pcb \in [Procs -> PcbType] /\ ready \in Seq(Pids) /\ cpu \in Procs
      /\ cpu \in listed \cup {Idle} /\ cpu \notin sleepers
      /\ pcb[cpu].state \in {"RUNNING", "SLEEPING"}
      /\ Lists(ready, Runnable(listed, pcb))
      /\ \A q \in sleepers : pcb[q].state = "SLEEPING"
      /\ saved \in [Procs -> Procs \cup {None}]
  BY ListedFacts, Zenon DEF IInv, TypeOK, CpuConsistent, RunQueueExact, SleepersAsleep
<1>2. /\ x \in listed \cup {Idle}
      /\ x # Idle => is_ready(pcb[x]) \/ x \in D
      /\ u \in [Procs -> PcbType] /\ u[x].state = "RUNNING"
      /\ \A p \in Procs : p # x => u[p] = W[p]
      /\ \A p \in Procs : W[p] = IF p \in D THEN wake(pcb[p]) ELSE pcb[p]
      /\ r \in Seq(Pids) /\ Lists(r, Runnable(listed, u))
      /\ x \notin sleepers \ D
      /\ \A p \in sleepers \ D : u[p].state = "SLEEPING"
  <2>1. Sound(pcb, listed, sleepers, ready)
    BY <1>1, Zenon DEF Sound
  <2>2. x = PickFrom(ready \o order) /\ order \in Orders(Due(pcb, sleepers))
    OBVIOUS
  <2> QED
    BY ONLY <2>1, <2>2, PickResult
<1>3. D \subseteq sleepers /\ cpu \notin D /\ x \in Procs
  BY <1>1, <1>2, Constants, Zenon DEF Due
<1>4. /\ pcb' \in [Procs -> PcbType] /\ pcb'[cpu] = b
      /\ \A p \in Procs : p # cpu => pcb'[p] = u[p]
  <2>1. W \in [Procs -> PcbType]
    BY <1>1, WakeResume, Zenon DEF wake_sleepers, WakeAll
  <2> HIDE DEF W
  <2>2. pcb' = [[W EXCEPT ![cpu] = b] EXCEPT ![x] = resume([W EXCEPT ![cpu] = b][x])]
    BY Zenon DEF Activated, W
  <2>3. u = [W EXCEPT ![x] = resume(W[x])]
    BY Zenon DEF Activated
  <2>4. resume(W[x]) \in PcbType
    BY WakeResume, Zenon
  <2> DEFINE w == [W EXCEPT ![cpu] = b]
  <2>5. /\ w \in [Procs -> PcbType] /\ w[cpu] = b /\ w[x] = W[x]
        /\ \A p \in Procs : p # cpu => w[p] = W[p]
    BY <1>1, <1>3, <2>1, Zenon
  <2>6. pcb' = [w EXCEPT ![x] = resume(W[x])]
    BY <2>2, <2>5, Zenon
  <2> HIDE DEF w
  <2>7. /\ pcb' \in [Procs -> PcbType] /\ pcb'[x] = resume(W[x])
        /\ \A p \in Procs : p # x => pcb'[p] = w[p]
    BY ONLY <1>3, <2>4, <2>5, <2>6, Zenon
  <2>8. u[x] = resume(W[x]) /\ \A p \in Procs : p # x => u[p] = W[p]
    BY ONLY <1>3, <2>1, <2>3, Zenon
  <2>9. cpu \in Procs /\ x # cpu
    BY <1>1, Zenon
  <2> HIDE DEF u
  <2> QED
    BY ONLY <2>5, <2>7, <2>8, <2>9, Zenon
<1> HIDE DEF u, r, D
<1>5. u[cpu] = pcb[cpu] /\ ~is_ready(u[cpu])
  BY <1>1, <1>2, <1>3, Zenon DEF is_ready
<1> HIDE DEF W
<1>6. ready' \in Seq(Pids) /\ RunQueueExact'
  <2>1. CASE cpu # Idle /\ is_ready(b)
    <3>1. ready' = Append(r, cpu)
      BY <2>1, Zenon DEF enqueue_if_runnable, r
    <3>2. cpu \in Pids /\ cpu \in listed /\ cpu \notin Runnable(listed, u)
      BY <1>1, <1>5, <2>1, Zenon DEF Runnable
    <3>3. Append(r, cpu) \in Seq(Pids) /\ Lists(Append(r, cpu), Runnable(listed, u) \cup {cpu})
      BY <1>2, <3>2, AppendLists
    <3>4. Runnable(listed', pcb') = Runnable(listed, u) \cup {cpu}
      BY <1>1, <1>4, <2>1, <3>2, Zenon DEF Runnable
    <3> QED
      BY <3>1, <3>3, <3>4, Zenon DEF RunQueueExact
  <2>2. CASE ~(cpu # Idle /\ is_ready(b))
    <3>1. ready' = r
      BY <2>2, Zenon DEF enqueue_if_runnable, r
    <3>2. \A q \in listed : is_ready(pcb'[q]) <=> is_ready(u[q])
      BY <1>1, <1>4, <1>5, <2>2, Constants, Zenon
    <3>3. Runnable(listed', pcb') = Runnable(listed, u)
      BY <3>2, Zenon DEF Runnable
    <3> QED
      BY <1>2, <3>1, <3>3 DEF RunQueueExact
  <2> QED
    BY <2>1, <2>2, Zenon
<1>7. SleepersAsleep'
  BY <1>1, <1>2, <1>4, Zenon DEF SleepersAsleep, D
<1>8. /\ saved' \in [Procs -> Procs \cup {None}] /\ saved'[x] = None /\ saved'[cpu] = s
      /\ \A q \in Procs : q # x /\ q # cpu => saved'[q] = saved[q]
  BY <1>1, <1>3, Zenon
<1>9. TypeOK'
  <2>1. 0 \in 0..Slice /\ sleepers' \subseteq Pids
    BY <1>1, ConstantsAssumption
  <2> QED
    BY <1>3, <1>4, <1>6, <1>8, <2>1, Zenon DEF IInv, TypeOK
<1>10. \A p \in Procs : p # x /\ p # cpu => pcb'[p] = pcb[p] \/ pcb'[p].state = "READY"
  <2> SUFFICES ASSUME NEW p \in Procs, p # x, p # cpu
               PROVE  pcb'[p] = pcb[p] \/ pcb'[p].state = "READY"
    BY Zenon
  <2>1. pcb'[p] = IF p \in D THEN wake(pcb[p]) ELSE pcb[p]
    BY <1>2, <1>4, Zenon
  <2>2. wake(pcb[p]).state = "READY"
    BY WakeResume, Zenon
  <2> QED
    BY <2>1, <2>2, Zenon
<1>11. pcb'[x].state = "RUNNING"
  BY <1>2, <1>3, <1>4, Zenon
<1>12. NoMissedExit'
  BY <1>1, <1>4, <1>10, <1>11, NoNewWait, Zenon
<1>13. CpuConsistent'
  <2>1. x \notin sleepers'
    BY <1>2, Zenon DEF D
  <2> QED
    BY <1>2, <1>8, <1>11, <2>1, SwitchConsistent, Zenon
<1>14. FramesConsistent'
  BY <1>1, <1>3, <1>8, Constants DEF IInv, FramesConsistent
<1>15. StepKeeps
  <2>1. \A p \in listed : pcb[p].state \in Gone => p # x /\ p # cpu /\ p \notin D
    BY <1>1, <1>2, <1>3, Constants DEF Gone, is_ready
  <2>2. \A p \in listed : pcb[p].state \in Gone => pcb'[p] = pcb[p]
    BY <1>1, <1>2, <1>4, <2>1, Zenon
  <2>3. ExitKept /\ Collected
    BY <2>2, Zenon DEF ExitKept, Collected, Gone
  <2>4. \A p \in D : p # x => pcb'[p].state = "READY"
    <3> SUFFICES ASSUME NEW p \in D, p # x PROVE pcb'[p].state = "READY"
      OBVIOUS
    <3>1. p \in Procs /\ p # cpu /\ pcb'[p] = wake(pcb[p])
      BY <1>1, <1>2, <1>3, <1>4, Zenon
    <3>2. wake(pcb[p]).state = "READY"
      BY WakeResume, Zenon
    <3> QED
      BY <3>1, <3>2, Zenon
  <2>5. \A p \in listed : pcb'[p].state = "SLEEPING" /\ p \notin sleepers' =>
           pcb[p].state = "SLEEPING" /\ p \notin sleepers
    <3> SUFFICES ASSUME NEW p \in listed, pcb'[p].state = "SLEEPING", p \notin sleepers'
                 PROVE  pcb[p].state = "SLEEPING" /\ p \notin sleepers
      OBVIOUS
    <3>1. p # x /\ p \notin D
      BY <1>11, <2>4, Zenon
    <3>2. p \notin sleepers
      BY <3>1, Zenon DEF D
    <3>3. p = cpu \/ pcb'[p] = pcb[p]
      BY <1>1, <1>2, <1>4, <3>1, Zenon
    <3> QED
      BY <1>4, <3>2, <3>3, Zenon
  <2> QED
    BY <2>3, <2>5, Zenon DEF StepKeeps
<1> QED
  BY <1>6, <1>7, <1>9, <1>11, <1>12, <1>13, <1>14, <1>15 DEF IInv

\* sys_execve(): the process has a new first frame and queues behind.
LEMMA ExecStep ==
    ASSUME IInv, NEW p \in Pids, sys_execve(p)
    PROVE  IInv' /\ StepKeeps /\ pcb'[stk'].state = "RUNNING"
<1>1. ~fault /\ stk = p /\ at[p] = "body"
  BY Zenon DEF sys_execve, Running
<1>2. /\ cpu = p /\ p \in listed /\ p \in Procs /\ pcb[p].state = "RUNNING"
      /\ p \notin sleepers /\ sleepers \subseteq listed /\ listed \subseteq Pids
      /\ p # Idle
  BY <1>1, RunningFacts, Zenon
<1> DEFINE W == wake_sleepers(pcb, sleepers)
           b == wake(W[p])
<1>3. PICK order \in Orders(Due(pcb, sleepers)) :
        LET queue == ready \o order
            picked == PickFrom(queue)
            woken == [wake_sleepers(pcb, sleepers) EXCEPT ![p] = wake(@)]
        IN  /\ pcb' = Activated(woken, picked)
            /\ ready' = enqueue_if_runnable(RestOf(queue), p, woken[p])
            /\ sleepers' = sleepers \ Due(pcb, sleepers)
            /\ cpu' = picked /\ ran' = 0
            /\ saved' = [saved EXCEPT ![p] = p, ![picked] = None]
            /\ fault' = (saved[picked] # picked)
            /\ stk' = picked /\ irq_on' = TRUE
            /\ UNCHANGED <<parent, next_pid, listed, threadVars, keys>>
  BY Zenon DEF sys_execve
<1> DEFINE x == PickFrom(ready \o order)
<1>4. x # p
  BY <1>1, <1>2, NotPickedWhileRunning
<1>5. b \in PcbType /\ b.state = "READY"
  BY WakeResume, Zenon
<1>6. [W EXCEPT ![p] = wake(W[p])][p] = b
  BY <1>2, Zenon DEF wake_sleepers, WakeAll
<1>7. /\ pcb' = Activated([W EXCEPT ![cpu] = b], x)
      /\ ready' = enqueue_if_runnable(RestOf(ready \o order), cpu, b)
      /\ sleepers' = sleepers \ Due(pcb, sleepers)
      /\ cpu' = x /\ stk' = x /\ ran' = 0 /\ irq_on' = TRUE /\ fault' = (saved[x] # x)
      /\ saved' = [saved EXCEPT ![cpu] = p, ![x] = None]
      /\ UNCHANGED <<parent, next_pid, listed, call, at, child_pid, next, keys>>
  BY <1>2, <1>3, <1>6 DEF threadVars
<1> HIDE DEF b, x, W
<1>8. x = PickFrom(ready \o order) /\ W = wake_sleepers(pcb, sleepers)
      /\ order \in Orders(Due(pcb, sleepers))
  BY <1>3, Zenon DEF x, W
<1> QED
  BY <1>1, <1>2, <1>4, <1>5, <1>7, <1>8, RequeueStep, Zenon

\* execve() switches to another process: the caller is not in the queue.
LEMMA ExecSwitches ==
    ASSUME IInv, NEW p \in Pids, sys_execve(p)
    PROVE  stk' # p
<1>1. ~fault /\ stk = p /\ at[p] = "body"
  BY Zenon DEF sys_execve, Running
<1>2. cpu = p /\ p # Idle
  BY <1>1, RunningFacts, Zenon
<1>3. PICK order \in Orders(Due(pcb, sleepers)) : stk' = PickFrom(ready \o order)
  BY Zenon DEF sys_execve
<1> QED
  BY <1>1, <1>2, <1>3, NotPickedWhileRunning

\* The timer: due sleepers are queued; the current process is preempted when
\* its quantum is used up and another one can run.
LEMMA TickStep ==
    ASSUME IInv, tick
    PROVE  IInv' /\ StepKeeps /\ (stk' # stk => pcb'[stk'].state = "RUNNING")
<1>1. /\ ~fault /\ UNCHANGED <<parent, next_pid, listed, call, at, child_pid, next, keys>>
  BY Zenon DEF tick, InterruptTaken, threadVars
<1> DEFINE W == wake_sleepers(pcb, sleepers)
           D == Due(pcb, sleepers)
           b == pause(W[cpu])
           expired == cpu = Idle \/ ran >= Slice
<1>2. PICK order \in Orders(D) :
         LET queue == ready \o order
             picked == PickFrom(queue)
             paused == [W EXCEPT ![cpu] = pause(@)]
         IN  /\ sleepers' = sleepers \ D
             /\ \/ /\ ~expired \/ picked = cpu
                   /\ pcb' = W
                   /\ ready' = IF expired THEN RestOf(queue) ELSE queue
                   /\ UNCHANGED <<cpu, stk, irq_on, ran, saved, fault>>
                \/ /\ expired /\ picked # cpu
                   /\ pcb' = Activated(paused, picked)
                   /\ ready' = enqueue_if_runnable(RestOf(queue), cpu, paused[cpu])
                   /\ cpu' = picked /\ ran' = 0
                   /\ context_switch(cpu, picked)
  BY Zenon DEF tick
<1> DEFINE x == PickFrom(ready \o order)
<1>3. /\ listed \in SUBSET Pids /\ listed \subseteq Procs /\ sleepers \in SUBSET listed
      /\ pcb \in [Procs -> PcbType] /\ ready \in Seq(Pids) /\ cpu \in Procs
      /\ cpu \in listed \cup {Idle} /\ cpu \notin sleepers /\ stk \in Procs
      /\ pcb[cpu].state \in {"RUNNING", "SLEEPING"}
      /\ Lists(ready, Runnable(listed, pcb))
      /\ \A q \in sleepers : pcb[q].state = "SLEEPING"
  BY <1>1, ListedFacts DEF IInv, TypeOK, CpuConsistent, RunQueueExact, SleepersAsleep
<1>4. /\ ready \o order \in Seq(Pids)
      /\ Lists(ready \o order, Runnable(listed, W))
      /\ W \in [Procs -> PcbType]
      /\ \A p \in Procs : W[p] = IF p \in D THEN wake(pcb[p]) ELSE pcb[p]
  <2>1. /\ ready \o order \in Seq(Pids)
        /\ Lists(ready \o order, Runnable(listed, pcb) \cup D)
        /\ Runnable(listed, W) = Runnable(listed, pcb) \cup D
        /\ W \in [Procs -> PcbType]
        /\ \A p \in Procs : W[p] = IF p \in D THEN wake(pcb[p]) ELSE pcb[p]
    <3>1. Sound(pcb, listed, sleepers, ready)
      BY <1>3, Zenon DEF Sound
    <3> QED
      BY <1>2, <3>1, WakeResult, Zenon
  <2>2. Lists(ready \o order, Runnable(listed, W))
    BY <2>1, Zenon
  <2> QED
    BY <2>1, <2>2, Zenon
<1>5. cpu \notin D /\ D \subseteq sleepers /\ W[cpu] = pcb[cpu]
  BY <1>3, <1>4 DEF Due
<1> HIDE DEF D, W
<1>6. CASE /\ ~expired \/ x = cpu
           /\ sleepers' = sleepers \ D /\ pcb' = W
           /\ ready' = IF expired THEN RestOf(ready \o order) ELSE ready \o order
           /\ UNCHANGED <<cpu, stk, irq_on, ran, saved, fault>>
  <2>1. ready' = ready \o order
    <3>1. CASE ~expired
      BY <1>6, <3>1, Zenon
    <3>2. CASE expired /\ x = cpu
      <4>1. cpu = Idle
        BY <1>1, <3>2, NotPickedWhileRunning DEF D
      <4>2. ready \o order = <<>>
        <5>1. CASE ready \o order # <<>>
          <6>1. x = Head(ready \o order) /\ Head(ready \o order) \in Pids
            BY <1>4, <5>1 DEF PickFrom
          <6> QED
            BY <3>2, <4>1, <6>1, Constants
        <5> QED
          BY <5>1, Zenon
      <4> QED
        BY <1>6, <3>2, <4>2 DEF RestOf
    <3> QED
      BY <1>6, <3>1, <3>2
  <2>2. RunQueueExact' /\ ready' \in Seq(Pids)
    BY <1>1, <1>4, <1>6, <2>1, Zenon DEF RunQueueExact
  <2>3. \A p \in Procs : p \notin D => pcb'[p] = pcb[p]
    BY <1>4, <1>6, Zenon
  <2>4. \A p \in D : pcb'[p].state = "READY"
    <3> SUFFICES ASSUME NEW p \in D PROVE pcb'[p].state = "READY"
      OBVIOUS
    <3>1. p \in Procs /\ pcb'[p] = wake(pcb[p])
      BY <1>3, <1>4, <1>5, <1>6, Zenon
    <3>2. wake(pcb[p]).state = "READY"
      BY WakeResume, Zenon
    <3> QED
      BY <3>1, <3>2, Zenon
  <2>5. SleepersAsleep'
    BY <1>1, <1>3, <1>6, <2>3, Zenon DEF SleepersAsleep
  <2>6. NoMissedExit'
    BY <1>1, <1>3, <2>3, <2>4, NoNewWait, Zenon
  <2>7. TypeOK'
    BY <1>1, <1>3, <1>4, <1>6, <2>2, Zenon DEF IInv, TypeOK
  <2>8. CpuConsistent' /\ FramesConsistent'
    BY <1>1, <1>3, <1>5, <1>6, <2>3, Zenon DEF IInv, CpuConsistent, FramesConsistent
  <2>9. StepKeeps
    <3>1. ExitKept /\ Collected
      BY <1>1, <1>3, <1>5, <2>3, Zenon DEF ExitKept, Collected
    <3>2. \A p \in listed : pcb'[p].state = "SLEEPING" /\ p \notin sleepers' =>
             pcb[p].state = "SLEEPING" /\ p \notin sleepers
      BY <1>3, <1>6, <2>3, <2>4, Zenon
    <3> QED
      BY <3>1, <3>2, Zenon DEF StepKeeps
  <2> QED
    BY <1>6, <2>2, <2>5, <2>6, <2>7, <2>8, <2>9 DEF IInv
<1>7. CASE /\ expired /\ x # cpu
           /\ sleepers' = sleepers \ D
           /\ pcb' = Activated([W EXCEPT ![cpu] = b], x)
           /\ ready' = enqueue_if_runnable(RestOf(ready \o order), cpu, b)
           /\ cpu' = x /\ ran' = 0
           /\ context_switch(cpu, x)
  <2>1. /\ b \in PcbType /\ b.state \in {"READY", "SLEEPING"}
        /\ b.state = "SLEEPING" => pcb[cpu].state = "SLEEPING"
    <3>1. b = IF pcb[cpu].state = "RUNNING" THEN [pcb[cpu] EXCEPT !.state = "READY"]
                                            ELSE pcb[cpu]
      BY <1>5, Zenon DEF pause
    <3>2. pcb[cpu] \in PcbType
      BY <1>3, Zenon
    <3> QED
      BY <1>3, <3>1, <3>2 DEF PcbType, States
  <2>2. /\ stk' = x /\ irq_on' = TRUE /\ fault' = (saved[x] # x)
        /\ saved' = [saved EXCEPT ![cpu] = stk, ![x] = None]
    BY <1>7, Zenon DEF context_switch
  <2>3. stk = cpu => at[cpu] # "window"
    BY <1>1, Zenon DEF IInv, CpuConsistent
  <2> HIDE DEF b, x, expired
  <2>4. x = PickFrom(ready \o order) /\ W = wake_sleepers(pcb, sleepers)
        /\ D = Due(pcb, sleepers) /\ order \in Orders(Due(pcb, sleepers))
    BY <1>2, Zenon DEF x, W, D
  <2> QED
    BY <1>1, <1>3, <1>7, <2>1, <2>2, <2>3, <2>4, RequeueStep, Zenon
<1>8. [W EXCEPT ![cpu] = pause(W[cpu])][cpu] = b
  BY <1>3, <1>4
<1> QED
  BY <1>2, <1>6, <1>7, <1>8

-----------------------------------------------------------------------------
(* No step brings back a process that has exited, and none but its parent's *)
(* wait4() collects it.                                                     *)

\* sleep_for() changes the running process only.
LEMMA SleepForKeeps ==
    ASSUME IInv, NEW p \in Pids, yield_sleep_ns(p)
    PROVE  ExitKept /\ Collected
<1>1. ~fault /\ stk = p /\ at[p] = "loop" /\ listed' = listed
  BY Zenon DEF yield_sleep_ns, Running
<1>2. pcb[p].state = "RUNNING" /\ listed \subseteq Procs
  BY <1>1, RunningFacts
<1>3. \A q \in Procs : q # p => pcb'[q] = pcb[q]
  BY Zenon DEF yield_sleep_ns, IInv, TypeOK
<1> QED
  BY <1>1, <1>2, <1>3 DEF ExitKept, Collected

\* fork() writes the Process it creates only.
LEMMA ForkWrites ==
    ASSUME IInv, NEW p \in Pids, sys_fork(p)
    PROVE  /\ UNCHANGED sleepers /\ listed' = listed \cup {next_pid}
           /\ pcb'[next_pid] = NewPcb /\ \A q \in listed : pcb'[q] = pcb[q]
<1>1. next_pid \notin listed /\ listed \subseteq Procs /\ next_pid \in Procs
  BY ListedFacts DEF sys_fork, IInv, TypeOK, Procs
<1> QED
  BY <1>1, Zenon DEF sys_fork, IInv, TypeOK

\* So it keeps what has exited.
LEMMA ForkKeeps ==
    ASSUME IInv, NEW p \in Pids, sys_fork(p)
    PROVE  ExitKept /\ Collected
BY ForkWrites, Zenon DEF ExitKept, Collected

\* wake_single() wakes a BLOCKED process.
LEMMA KeyboardKeeps ==
    ASSUME IInv, keyboard_interrupt_handler
    PROVE  ExitKept /\ Collected
<1>1. \A q \in listed : pcb[q].state # "BLOCKED" => pcb'[q] = pcb[q]
  <2>1. listed \subseteq Procs /\ pcb \in [Procs -> PcbType]
    BY ListedFacts, Zenon DEF IInv, TypeOK
  <2> QED
    BY <2>1, Zenon DEF keyboard_interrupt_handler, KeyboardWaiters
<1>2. listed' = listed
  BY Zenon DEF keyboard_interrupt_handler
<1> QED
  BY <1>1, <1>2 DEF ExitKept, Collected

\* The passing of time changes no state.
LEMMA ElapseKeeps ==
    ASSUME IInv, Elapse
    PROVE  ExitKept /\ Collected
<1>1. listed' = listed /\ listed \subseteq Procs /\ pcb \in [Procs -> PcbType]
  BY ListedFacts, Zenon DEF Elapse, IInv, TypeOK
<1>2. \A q \in listed : pcb'[q].state = pcb[q].state
  BY <1>1, Zenon DEF Elapse, PcbType
<1> QED
  BY <1>1, <1>2 DEF ExitKept, Collected

\* Every step keeps IInv, and keeps what has exited.
LEMMA NextIInv == IInv /\ [Next]_vars => IInv' /\ ((ExitKept /\ Collected) \/ UNCHANGED vars)
<1> SUFFICES ASSUME IInv, [Next]_vars PROVE IInv' /\ ((ExitKept /\ Collected) \/ UNCHANGED vars)
  OBVIOUS
<1>1. ASSUME NEW p \in Pids, ThreadStep(p) PROVE IInv' /\ ExitKept /\ Collected
  <2>1. CASE SwitchAway(p)
    BY <2>1, SwitchAwayStep, Zenon DEF SwitchAway, ExitKept, Collected
  <2>2. CASE yield_sleep_ns(p)
    BY <2>2, SleepForStep, SleepForKeeps
  <2>3. CASE tty_poll(p)
    BY <2>3, PollStep, Zenon DEF tty_poll, ExitKept, Collected
  <2> QED
    BY <1>1, <2>1, <2>2, <2>3, BlockingStep, WaitStep DEF ThreadStep, StepKeeps
<1>2. ASSUME NEW p \in Pids, SystemCall(p) PROVE IInv' /\ ExitKept /\ Collected
  <2>1. CASE sys_read(p) \/ sys_sleep(p) \/ sys_pause(p) \/ sys_wait4(p)
    BY <2>1, EnterStep, Zenon DEF sys_read, sys_sleep, sys_pause, sys_wait4, ExitKept, Collected
  <2>2. CASE sys_fork(p)
    BY <2>2, ForkStep, ForkKeeps
  <2> QED
    BY <1>2, <2>1, <2>2, ExitStep, ExecStep, DeadStep DEF SystemCall, StepKeeps
<1>3. CASE UNCHANGED vars
  <2>1. RunQueueExact' /\ SleepersAsleep' /\ NoMissedExit'
    BY <1>3, TablesKept DEF vars
  <2>2. TypeOK' /\ CpuConsistent' /\ FramesConsistent'
    BY <1>3 DEF vars, IInv, TypeOK, CpuConsistent, FramesConsistent
  <2> QED
    BY <1>3, <2>1, <2>2 DEF IInv
<1>4. CASE reap
  BY <1>4, ReapStep DEF reap, ExitKept, Collected
<1>5. CASE keyboard_interrupt_handler
  BY <1>5, KeyboardStep, KeyboardKeeps, Zenon
<1>6. CASE Elapse
  BY <1>6, ElapseStep, ElapseKeeps, Zenon
<1> QED
  BY <1>1, <1>2, <1>3, <1>4, <1>5, <1>6, TickStep DEF Next, StepKeeps

\* The inductive invariant holds in every reachable state.
THEOREM Invariance == Spec => []IInv
BY InitIInv, NextIInv, PTL DEF Spec

\* Every variable keeps its type, for any number of processes.
THEOREM TypeCorrect == Spec => []TypeOK
<1>1. IInv => TypeOK
  BY Zenon DEF IInv
<1> QED
  BY Invariance, <1>1, PTL

\* The run queue holds exactly the runnable processes, once each, in every
\* reachable state, wherever interrupts strike.
THEOREM RunQueueIsExact == Spec => []RunQueueExact
<1>1. IInv => RunQueueExact
  BY Zenon DEF IInv
<1> QED
  BY Invariance, <1>1, PTL

\* Every process in g_sleepers is SLEEPING and listed.
THEOREM SleepersStayAsleep == Spec => []SleepersAsleep
<1>1. IInv => SleepersAsleep
  BY Zenon DEF IInv
<1> QED
  BY Invariance, <1>1, PTL

\* What reap() has freed is in no queue, not in g_sleepers, and is neither the
\* current process nor the owner of the stack in use.
THEOREM FreedStaysUnreachable == Spec => []FreedIsUnreachable
<1>1. IInv => FreedIsUnreachable
  <2> SUFFICES ASSUME IInv, NEW p \in Pids \ listed
               PROVE  p \notin Queued \cup sleepers \cup {cpu, stk}
    BY Zenon DEF FreedIsUnreachable
  <2>1. p \notin Queued
    BY Zenon DEF IInv, RunQueueExact, Lists, Queued, Runnable
  <2>2. p \notin sleepers
    BY Zenon DEF IInv, SleepersAsleep
  <2>3. p # cpu /\ p # stk
    BY Constants, Zenon DEF IInv, CpuConsistent
  <2> QED
    BY <2>1, <2>2, <2>3, Zenon
<1> QED
  BY Invariance, <1>1, PTL

\* No process blocked in wait4() has an exited child that it waits for.
THEOREM ExitIsNotMissed == Spec => []NoMissedExit
<1>1. IInv => NoMissedExit
  BY Zenon DEF IInv
<1> QED
  BY Invariance, <1>1, PTL

\* A ZOMBIE is only ever collected by a process inside wait4(), a DEAD process
\* never runs again, and only DEAD processes are freed.
THEOREM ExitsAreKept == Spec => ExitIsKept
BY Invariance, NextIInv, PTL DEF Spec, ExitIsKept

\* find_child() hands a ZOMBIE to its own parent, or to anybody once that parent
\* is freed.
THEOREM ParentsCollect == Spec => CollectedByParent
BY Invariance, NextIInv, PTL DEF Spec, CollectedByParent

-----------------------------------------------------------------------------
(* Frames.  As long as no interrupt strikes between unlock() and           *)
(* context_switch(), every process that can run again, except the one on   *)
(* whose stack the CPU is, is parked in its own kernel_rsp_saved.          *)

Parked ==
    /\ \A p \in listed : pcb[p].state \notin Gone /\ p # stk => saved[p] = p
    /\ Idle # stk => saved[Idle] = Idle

FrameInv == IInv /\ ~fault /\ Parked

\* A step without a switch; processes may only leave the list.
LEMMA FramesStay ==
    ASSUME FrameInv, IInv', ExitKept, UNCHANGED <<stk, saved, fault>>,
           listed' \subseteq listed
    PROVE  FrameInv'
BY Zenon DEF FrameInv, Parked, ExitKept, Gone

\* context_switch() and permanent_context_switch() from the stack in use to a
\* process x that was chosen to run: the stack is parked, or is left for good.
LEMMA FramesSwitch ==
    ASSUME FrameInv, IInv', ExitKept, UNCHANGED listed,
           NEW x, stk' = x, x # stk, fault' = (saved[x] # x),
           pcb'[x].state = "RUNNING", x \in listed \cup {Idle},
           \A q \in Procs : q # x /\ q # stk => saved'[q] = saved[q],
           saved'[stk] = stk \/ (stk \in listed /\ pcb'[stk].state \in Gone)
    PROVE  FrameInv'
<1>1. x # Idle => pcb[x].state \notin Gone
  BY Zenon DEF ExitKept, Gone
<1>2. saved[x] = x
  BY <1>1, Zenon DEF FrameInv, Parked
<1>3. listed \subseteq Procs /\ Idle \in Procs /\ Idle \notin listed
  BY ListedFacts, Constants, Zenon DEF FrameInv
<1>4. ASSUME NEW p \in listed', pcb'[p].state \notin Gone, p # x
      PROVE  saved'[p] = p
  <2>1. pcb[p].state \notin Gone
    BY <1>4, Zenon DEF ExitKept, Gone
  <2>2. CASE p = stk
    BY <1>4, <2>2, Zenon
  <2>3. CASE p # stk
    BY <1>3, <1>4, <2>1, <2>3, Zenon DEF FrameInv, Parked
  <2> QED
    BY <2>2, <2>3, Zenon
<1>5. Idle # x => saved'[Idle] = Idle
  BY <1>3, Zenon DEF FrameInv, Parked
<1>6. ~fault'
  BY <1>2
<1> QED
  BY <1>4, <1>5, <1>6, Zenon DEF FrameInv, Parked

\* yield_dead() and yield_zombie() leave a stack that nothing returns to.
LEMMA LeavesFrame ==
    ASSUME FrameInv, NEW p \in Pids, NEW t, NEW parents, LeaveForGood(t, parents),
           Running(p, "body", "NONE"), pcb'[p].state \in Gone,
           IInv', ExitKept, pcb'[stk'].state = "RUNNING"
    PROVE  FrameInv'
<1>1. UNCHANGED listed /\ \E x : permanent_context_switch(x)
  BY Zenon DEF LeaveForGood
<1>2. PICK x : permanent_context_switch(x)
  BY <1>1, Zenon
<1>3. /\ saved' = [saved EXCEPT ![x] = None] /\ fault' = (saved[x] # x) /\ stk' = x
  BY <1>2, Zenon DEF permanent_context_switch
<1>4. x \in listed \cup {Idle} /\ stk = p /\ p \in listed
  BY <1>1, <1>3, Constants, Zenon DEF FrameInv, IInv, CpuConsistent, Running
<1>5. saved \in [Procs -> Procs \cup {None}]
  BY Zenon DEF FrameInv, IInv, TypeOK
<1>6. x # stk
  BY <1>3, <1>4, Zenon DEF Gone
<1> QED
  BY <1>1, <1>3, <1>4, <1>5, <1>6, FramesSwitch, Zenon

\* Every step of Scheduler keeps the frames, when the window is closed.
LEMMA FrameStep ==
    ASSUME "window" \notin OpenPoints, FrameInv, [Next]_vars
    PROVE  FrameInv'
<1>0. IInv /\ IInv' /\ (ExitKept \/ UNCHANGED vars)
  BY NextIInv, Zenon DEF FrameInv
<1>1. ASSUME NEW p \in Pids, SwitchAway(p), ExitKept PROVE FrameInv'
  <2>1. /\ stk = p /\ at[p] = "window" /\ UNCHANGED <<pcb, listed, cpu>>
        /\ saved' = [saved EXCEPT ![p] = p, ![next[p]] = None]
        /\ fault' = (saved[next[p]] # next[p]) /\ stk' = next[p]
    BY <1>1, Zenon DEF SwitchAway, context_switch
  <2>2. /\ next[p] = cpu /\ cpu # p /\ cpu \in listed \cup {Idle}
        /\ pcb'[cpu].state = "RUNNING" /\ saved \in [Procs -> Procs \cup {None}]
        /\ p \in Procs
    BY <2>1, Constants, Zenon DEF FrameInv, IInv, CpuConsistent, TypeOK
  <2>3. saved'[p] = p /\ \A q \in Procs : q # cpu /\ q # p => saved'[q] = saved[q]
    BY <2>1, <2>2, Zenon
  <2> QED
    BY <1>0, <1>1, <2>1, <2>2, <2>3, FramesSwitch, Zenon
<1>2. ASSUME NEW p \in Pids, sys_exit(p) \/ yield_dead(p) PROVE FrameInv'
  <2>1. /\ StepKeeps /\ pcb'[stk'].state = "RUNNING" /\ pcb'[p].state \in Gone
    BY <1>0, <1>2, ExitStep, DeadStep, Zenon
  <2>2. Running(p, "body", "NONE") /\ \E t, parents : LeaveForGood(t, parents)
    BY <1>2, Zenon DEF sys_exit, yield_dead
  <2> QED
    BY <1>0, <2>1, <2>2, LeavesFrame, Zenon DEF StepKeeps
<1>3. ASSUME NEW p \in Pids, sys_execve(p) PROVE FrameInv'
  <2>1. /\ StepKeeps /\ pcb'[stk'].state = "RUNNING" /\ ~fault /\ stk = p /\ at[p] = "body"
        /\ UNCHANGED listed
    BY <1>0, <1>3, ExecStep, Zenon DEF sys_execve, Running
  <2>2. PICK x : /\ saved' = [saved EXCEPT ![p] = p, ![x] = None]
                 /\ fault' = (saved[x] # x) /\ stk' = x
    BY <1>3, Zenon DEF sys_execve
  <2>3. /\ x \in listed \cup {Idle} /\ p \in Procs
        /\ saved \in [Procs -> Procs \cup {None}]
    BY <1>0, <2>1, <2>2, Constants, Zenon DEF IInv, CpuConsistent, TypeOK
  <2>4. x # p
    BY <1>0, <1>3, ExecSwitches, <2>2, Zenon
  <2>5. saved'[p] = p /\ \A q \in Procs : q # x /\ q # p => saved'[q] = saved[q]
    BY <2>2, <2>3, <2>4, Zenon
  <2> QED
    BY <1>0, <2>1, <2>2, <2>3, <2>4, <2>5, FramesSwitch, Zenon DEF StepKeeps
<1>4. ASSUME tick, ExitKept PROVE FrameInv'
  <2>1. ~fault /\ stk \in Procs /\ at[stk] # "window" /\ UNCHANGED listed
    BY <1>0, <1>4, Zenon DEF tick, InterruptTaken, NarrowPoints, IInv, TypeOK
  <2>2. cpu = stk
    BY <1>0, <2>1, Zenon DEF IInv, CpuConsistent
  <2>3. CASE UNCHANGED <<stk, saved, fault>>
    BY <1>0, <1>4, <2>1, <2>3, FramesStay, Zenon
  <2>4. ASSUME NEW x, x # cpu, context_switch(cpu, x) PROVE FrameInv'
    <3>1. /\ saved' = [saved EXCEPT ![stk] = stk, ![x] = None]
          /\ fault' = (saved[x] # x) /\ stk' = x /\ x # stk
      BY <2>2, <2>4, Zenon DEF context_switch
    <3>2. /\ x \in listed \cup {Idle} /\ saved \in [Procs -> Procs \cup {None}]
          /\ pcb'[x].state = "RUNNING"
      BY <1>0, <1>4, <2>1, <3>1, TickStep, Constants, Zenon DEF IInv, CpuConsistent, TypeOK
    <3>3. saved'[stk] = stk /\ \A q \in Procs : q # x /\ q # stk => saved'[q] = saved[q]
      BY <2>1, <3>1, <3>2, Zenon
    <3> QED
      BY <1>0, <1>4, <2>1, <3>1, <3>2, <3>3, FramesSwitch, Zenon
  <2> QED
    BY <1>4, <2>3, <2>4, Zenon DEF tick
<1>5. ASSUME NEW p \in Pids, sys_fork(p) PROVE FrameInv'
  <2>1. /\ next_pid \notin listed /\ listed \subseteq Procs /\ next_pid # Idle
        /\ Idle \in Procs /\ saved \in [Procs -> Procs \cup {None}]
        /\ pcb \in [Procs -> PcbType] /\ next_pid \in Procs
    BY <1>0, <1>5, ListedFacts, Constants DEF sys_fork, IInv, TypeOK, Procs, Idle
  <2>2. /\ UNCHANGED <<stk, fault>> /\ listed' = listed \cup {next_pid}
        /\ \A q \in listed : pcb'[q] = pcb[q] /\ saved'[q] = saved[q]
        /\ saved'[Idle] = saved[Idle] /\ saved'[next_pid] = next_pid
    BY <1>5, <2>1, Zenon DEF sys_fork
  <2> QED
    BY <1>0, <2>2, Zenon DEF FrameInv, Parked
<1>6. CASE UNCHANGED vars
  BY <1>0, <1>6 DEF FrameInv, Parked, vars
<1>7. ASSUME ExitKept, NEW p \in Pids, ThreadStep(p) PROVE FrameInv'
  <2>1. ~SwitchAway(p) => UNCHANGED <<stk, saved, fault, listed>>
    BY <1>7, Zenon DEF ThreadStep, Blocking, yield_blocked, yield_sleep_ns, tty_poll,
                       yield_to_child
  <2> QED
    BY <1>0, <1>1, <1>7, <2>1, FramesStay, Zenon
<1>8. ASSUME ExitKept, NEW p \in Pids, SystemCall(p) PROVE FrameInv'
  <2>1. CASE sys_read(p) \/ sys_sleep(p) \/ sys_pause(p) \/ sys_wait4(p)
    <3>1. UNCHANGED <<stk, saved, fault, listed>>
      BY <2>1, Zenon DEF sys_read, sys_sleep, sys_pause, sys_wait4
    <3> QED
      BY <1>0, <1>8, <3>1, FramesStay, Zenon
  <2> QED
    BY <1>2, <1>3, <1>5, <1>8, <2>1, Zenon DEF SystemCall
<1>9. ASSUME ExitKept, reap \/ keyboard_interrupt_handler \/ Elapse PROVE FrameInv'
  <2>1. UNCHANGED <<stk, saved, fault>> /\ listed' \subseteq listed
    BY <1>9, Zenon DEF reap, keyboard_interrupt_handler, Elapse
  <2> QED
    BY <1>0, <1>9, <2>1, FramesStay, Zenon
<1> QED
  BY <1>0, <1>4, <1>6, <1>7, <1>8, <1>9, Zenon DEF Next

\* While no interrupt strikes between unlock() and context_switch(), every switch
\* continues a process from its own parked frame, for any number of processes.
THEOREM FramesAreOwn ==
    ASSUME "window" \notin OpenPoints
    PROVE  Spec => []SwitchesToOwnFrame
<1>1. Init => FrameInv
  <2> SUFFICES ASSUME Init PROVE FrameInv
    OBVIOUS
  <2>1. IInv /\ listed \subseteq Procs
    BY InitIInv, ListedFacts, Zenon
  <2>2. ~fault /\ stk = Idle /\ \A p \in listed : saved[p] = p
    BY <2>1, Zenon DEF Init
  <2> QED
    BY <2>1, <2>2, Zenon DEF FrameInv, Parked
<1>2. FrameInv /\ [Next]_vars => FrameInv'
  BY FrameStep, Zenon
<1>3. FrameInv => SwitchesToOwnFrame
  BY Zenon DEF FrameInv, SwitchesToOwnFrame
<1> QED
  BY <1>1, <1>2, <1>3, PTL DEF Spec

-----------------------------------------------------------------------------
(* Sleepers.  A process is SLEEPING and not yet in g_sleepers only at the  *)
(* point between sleep_for() and yield_blocked().  It may be preempted     *)
(* there, and then it stays there: only its own steps move it on.          *)

\* No process leaves the point between sleep_for() and yield_blocked().
MarkedStay == \A p \in listed : at[p] = "marked" => at'[p] = "marked"

\* A step that makes nobody SLEEPING outside g_sleepers, and in which nobody moves
\* on from between sleep_for() and yield_blocked().
LEMMA SleepersStay ==
    ASSUME SleepersAreInHeap, StepKeeps, listed' \subseteq listed, MarkedStay
    PROVE  SleepersAreInHeap'
BY Zenon DEF SleepersAreInHeap, StepKeeps, MarkedStay

\* A step after which the same processes are SLEEPING.
LEMMA SleepersSame ==
    ASSUME SleepersAreInHeap, listed' \subseteq listed, UNCHANGED sleepers,
           \A p \in listed : pcb'[p].state = "SLEEPING" => pcb[p].state = "SLEEPING",
           MarkedStay
    PROVE  SleepersAreInHeap'
BY Zenon DEF SleepersAreInHeap, MarkedStay

\* A thread that moves from another point leaves everybody at that one alone.
LEMMA MovesAlone ==
    ASSUME IInv, NEW p \in Procs, at[p] # "marked",
           \/ UNCHANGED at \/ \E x : at' = [at EXCEPT ![p] = x]
    PROVE  MarkedStay
<1>1. listed \subseteq Procs /\ at \in [Procs -> Points]
  BY ListedFacts, Zenon DEF IInv, TypeOK
<1> QED
  BY <1>1, Zenon DEF MarkedStay

\* Every step of Scheduler keeps the sleepers, wherever interrupts strike.
LEMMA SleepersStep ==
    ASSUME IInv, SleepersAreInHeap, [Next]_vars
    PROVE  SleepersAreInHeap'
<1>0. /\ listed \subseteq Procs /\ pcb \in [Procs -> PcbType]
      /\ at \in [Procs -> Points] /\ Pids \subseteq Procs
  BY ListedFacts, Constants, Zenon DEF IInv, TypeOK
<1>1. CASE UNCHANGED vars
  BY <1>1 DEF SleepersAreInHeap, vars
<1>2. ASSUME NEW p \in Pids, ThreadStep(p) PROVE SleepersAreInHeap'
  <2>1. CASE SwitchAway(p)
    <3>1. at[p] = "window" /\ \E x : at' = [at EXCEPT ![p] = x]
      BY <2>1, Zenon DEF SwitchAway, Running
    <3>2. MarkedStay
      BY <1>0, <3>1, MovesAlone, Zenon
    <3> QED
      BY <2>1, <3>2, SleepersSame, Zenon DEF SwitchAway
  <2>2. CASE Blocking(p)
    <3>1. StepKeeps /\ (pcb'[p].state = "SLEEPING" => p \in sleepers') /\ stk = p
          /\ UNCHANGED listed
      BY <2>2, BlockingStep, Zenon DEF Blocking, yield_blocked, Running
    <3>2. \E x : at' = [at EXCEPT ![p] = x]
      BY <2>2, Zenon DEF Blocking, yield_blocked, EnterWindow
    <3>3. \A q \in listed : q # p => at'[q] = at[q]
      BY <1>0, <3>2, Zenon
    <3> QED
      BY <3>1, <3>3, Zenon DEF SleepersAreInHeap, StepKeeps
  <2>3. CASE yield_sleep_ns(p)
    <3>0. PICK b : pcb' = [pcb EXCEPT ![p] = b]
      BY <2>3, Zenon DEF yield_sleep_ns
    <3>1. at' = [at EXCEPT ![p] = "marked"] /\ UNCHANGED <<listed, sleepers>>
      BY <2>3, Zenon DEF yield_sleep_ns, Goto
    <3>2. at'[p] = "marked" /\ \A q \in listed : q # p => at'[q] = at[q]
      BY <1>0, <3>1, Zenon
    <3> QED
      BY <1>0, <3>0, <3>1, <3>2, Zenon DEF SleepersAreInHeap
  <2>4. CASE tty_poll(p)
    <3>1. at[p] = "loop" /\ (UNCHANGED at \/ \E x : at' = [at EXCEPT ![p] = x])
      BY <2>4, Zenon DEF tty_poll, Running, Goto
    <3>2. MarkedStay
      BY <1>0, <3>1, MovesAlone, Zenon
    <3> QED
      BY <2>4, <3>2, SleepersSame, Zenon DEF tty_poll
  <2>5. CASE yield_to_child(p)
    <3>1. StepKeeps /\ at[p] = "loop" /\ UNCHANGED listed
      BY <2>5, WaitStep, Zenon DEF yield_to_child, Running
    <3>2. \E x : at' = [at EXCEPT ![p] = x]
      BY <2>5, Zenon DEF yield_to_child, ReturnFromCall, EnterWindow
    <3>3. MarkedStay
      BY <1>0, <3>1, <3>2, MovesAlone, Zenon
    <3> QED
      BY <3>1, <3>3, SleepersStay, Zenon
  <2> QED
    BY <1>2, <2>1, <2>2, <2>3, <2>4, <2>5, Zenon DEF ThreadStep
<1>3. ASSUME NEW p \in Pids, SystemCall(p) PROVE SleepersAreInHeap'
  <2>1. stk = p /\ at[p] = "body"
    BY <1>3, Zenon DEF SystemCall, sys_read, sys_sleep, sys_pause, sys_wait4, sys_fork,
                       sys_exit, sys_execve, yield_dead, Running
  <2>2. CASE sys_read(p) \/ sys_sleep(p) \/ sys_pause(p) \/ sys_wait4(p)
    <3>1. UNCHANGED <<pcb, listed, sleepers>>
      BY <2>2, Zenon DEF sys_read, sys_sleep, sys_pause, sys_wait4
    <3>2. at' = [at EXCEPT ![p] = "loop"]
      BY <2>2, Zenon DEF sys_read, sys_sleep, sys_pause, sys_wait4, Enter
    <3>3. MarkedStay
      BY <1>0, <2>1, <3>2, MovesAlone, Zenon
    <3> QED
      BY <3>1, <3>3, SleepersSame, Zenon
  <2>3. CASE sys_fork(p)
    <3>1. /\ UNCHANGED <<sleepers, at>> /\ listed' = listed \cup {next_pid}
          /\ pcb'[next_pid] = NewPcb /\ \A q \in listed : pcb'[q] = pcb[q]
      BY <1>0, <2>3, ForkWrites, Zenon DEF sys_fork, threadVars
    <3>2. NewPcb.state # "SLEEPING"
      BY DEF NewPcb
    <3> QED
      BY <3>1, <3>2, Zenon DEF SleepersAreInHeap
  <2>4. CASE sys_exit(p) \/ sys_execve(p) \/ yield_dead(p)
    <3>1. StepKeeps /\ UNCHANGED listed
      BY <2>4, ExitStep, ExecStep, DeadStep, Zenon
         DEF sys_exit, sys_execve, yield_dead, LeaveForGood
    <3>2. UNCHANGED at \/ \E x : at' = [at EXCEPT ![p] = x]
      BY <2>4, Zenon DEF sys_exit, sys_execve, yield_dead, LeaveForGood, EnterWindow,
                         threadVars
    <3>3. MarkedStay
      BY <1>0, <2>1, <3>2, MovesAlone, Zenon
    <3> QED
      BY <3>1, <3>3, SleepersStay, Zenon
  <2> QED
    BY <1>3, <2>2, <2>3, <2>4, Zenon DEF SystemCall
<1>4. CASE reap
  <2>1. Reaper \in Procs /\ at[Reaper] = "body" /\ \E x : at' = [at EXCEPT ![Reaper] = x]
    BY <1>0, <1>4, Constants, Zenon DEF reap, Running, Enter
  <2>2. MarkedStay
    BY <2>1, MovesAlone, Zenon
  <2> QED
    BY <1>4, <2>2, SleepersSame, Zenon DEF reap
<1>5. CASE tick
  <2>1. StepKeeps /\ UNCHANGED <<listed, at>>
    BY <1>5, TickStep, Zenon DEF tick, threadVars
  <2> QED
    BY <2>1, SleepersStay, Zenon DEF MarkedStay
<1>6. CASE keyboard_interrupt_handler
  <2>1. \A p \in Procs : wake(pcb[p]).state # "SLEEPING"
    BY WakeResume, Zenon
  <2>2. UNCHANGED <<listed, sleepers, at>>
    BY <1>6, Zenon DEF keyboard_interrupt_handler, threadVars
  <2>3. \A p \in listed : pcb'[p] = pcb[p] \/ pcb'[p] = wake(pcb[p])
    BY <1>0, <1>6, Zenon DEF keyboard_interrupt_handler
  <2> QED
    BY <1>0, <2>1, <2>2, <2>3, SleepersSame, Zenon DEF MarkedStay
<1>7. CASE Elapse
  <2>1. UNCHANGED <<listed, sleepers, at>>
    BY <1>7, Zenon DEF Elapse, threadVars
  <2>2. \A p \in listed : pcb'[p].state = pcb[p].state
    BY <1>0, <1>7, Zenon DEF Elapse, PcbType
  <2> QED
    BY <2>1, <2>2, SleepersSame, Zenon DEF MarkedStay
<1> QED
  BY <1>1, <1>2, <1>3, <1>4, <1>5, <1>6, <1>7, Zenon DEF Next

\* Wherever interrupts strike, g_sleepers holds every SLEEPING process and no
\* others, but for one that was stopped between sleep_for() and its insert.
THEOREM SleepersAreExact == Spec => []SleepersExact
<1>1. Init => SleepersAreInHeap
  <2> SUFFICES ASSUME Init PROVE SleepersAreInHeap
    OBVIOUS
  <2>1. listed \subseteq Procs /\ Idle \notin listed /\ NewPcb.state = "NEW"
    BY InitIInv, ListedFacts, Constants DEF NewPcb
  <2>2. \A p \in listed : pcb[p] = NewPcb
    BY <2>1, Zenon DEF Init
  <2> QED
    BY <2>1, <2>2, Zenon DEF SleepersAreInHeap
<1>2. IInv /\ SleepersAreInHeap /\ [Next]_vars => SleepersAreInHeap'
  BY SleepersStep, Zenon
<1>3. IInv /\ SleepersAreInHeap => SleepersExact
  BY Zenon DEF IInv, SleepersExact
<1> QED
  BY Invariance, <1>1, <1>2, <1>3, PTL DEF Spec

=============================================================================
