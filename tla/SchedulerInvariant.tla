------------------------- MODULE SchedulerInvariant -------------------------
(***************************************************************************)
(* The inductive invariant of Scheduler: the facts about its queues, its   *)
(* process table and its choice of the next process, and the steps of the  *)
(* threads, of the keyboard and of time that preserve it.                  *)
(***************************************************************************)
EXTENDS Scheduler, TLAPS, FiniteSetTheorems

-----------------------------------------------------------------------------
(* The policy's queue as a list without repetition.                        *)

\* Append (enqueue) of a process that is not in the queue keeps it a list of
\* distinct processes.
LEMMA AppendLists ==
    ASSUME NEW s \in Seq(Pids), NEW S, Lists(s, S), NEW x \in Pids, x \notin S
    PROVE  Append(s, x) \in Seq(Pids) /\ Lists(Append(s, x), S \cup {x})
<1>1. Append(s, x) \in Seq(Pids) /\ Len(Append(s, x)) = Len(s) + 1 /\ Len(s) \in Nat
  OBVIOUS
<1>2. \A i \in 1..Len(s) : Append(s, x)[i] = s[i] /\ s[i] \in S
  BY DEF Lists
<1>3. Append(s, x)[Len(s) + 1] = x
  OBVIOUS
<1>4. \A i \in 1..(Len(s) + 1) : i \in 1..Len(s) \/ i = Len(s) + 1
  BY <1>1
<1>5. \A i, j \in 1..Len(Append(s, x)) :
         Append(s, x)[i] = Append(s, x)[j] => i = j
  BY <1>1, <1>2, <1>3, <1>4, Zenon DEF Lists
<1>6. \A y : y \in {Append(s, x)[i] : i \in 1..Len(Append(s, x))} <=> y \in S \cup {x}
  <2>1. ASSUME NEW y \in S
        PROVE  \E i \in 1..Len(Append(s, x)) : Append(s, x)[i] = y
    BY <1>1, <1>2 DEF Lists
  <2>2. Len(s) + 1 \in 1..Len(Append(s, x))
    BY <1>1
  <2> QED
    BY <1>1, <1>2, <1>3, <1>4, <2>1, <2>2, Zenon
<1> QED
  BY <1>1, <1>5, <1>6, Zenon DEF Lists

\* Two lists of different processes, one after the other, are such a list.
LEMMA ConcatLists ==
    ASSUME NEW s \in Seq(Pids), NEW S, Lists(s, S),
           NEW o \in Seq(Pids), NEW D, Lists(o, D), S \cap D = {}
    PROVE  s \o o \in Seq(Pids) /\ Lists(s \o o, S \cup D)
<1> DEFINE c == s \o o
<1>1. c \in Seq(Pids) /\ Len(c) = Len(s) + Len(o) /\ Len(s) \in Nat /\ Len(o) \in Nat
  OBVIOUS
<1>2. \A i \in 1..Len(s) : c[i] = s[i] /\ s[i] \in S
  BY DEF Lists
<1>3. \A i \in (Len(s) + 1)..Len(c) :
         i - Len(s) \in 1..Len(o) /\ c[i] = o[i - Len(s)] /\ o[i - Len(s)] \in D
  BY <1>1 DEF Lists
<1>4. \A i \in 1..Len(c) : i \in 1..Len(s) \/ i \in (Len(s) + 1)..Len(c)
  BY <1>1
<1>5. \A i, j \in 1..Len(c) : c[i] = c[j] => i = j
  <2> SUFFICES ASSUME NEW i \in 1..Len(c), NEW j \in 1..Len(c), c[i] = c[j]
               PROVE  i = j
    OBVIOUS
  <2>1. CASE i \in 1..Len(s) /\ j \in 1..Len(s)
    BY <1>2, <2>1, Zenon DEF Lists
  <2>2. CASE i \in (Len(s) + 1)..Len(c) /\ j \in (Len(s) + 1)..Len(c)
    <3>1. i - Len(s) = j - Len(s)
      BY <1>3, <2>2, Zenon DEF Lists
    <3> QED
      BY <3>1, <1>1
  <2> QED
    BY <1>2, <1>3, <1>4, <2>1, <2>2, Zenon
<1>6. \A y : y \in {c[i] : i \in 1..Len(c)} <=> y \in S \cup D
  <2>1. ASSUME NEW y \in S PROVE \E i \in 1..Len(c) : c[i] = y
    BY <1>1, <1>2 DEF Lists
  <2>2. ASSUME NEW y \in D PROVE \E i \in 1..Len(c) : c[i] = y
    <3>1. PICK k \in 1..Len(o) : o[k] = y
      BY <2>2, Zenon DEF Lists
    <3>2. Len(s) + k \in 1..Len(c) /\ c[Len(s) + k] = y
      BY <1>1, <3>1
    <3> QED
      BY <3>2, Zenon
  <2>3. ASSUME NEW i \in 1..Len(c) PROVE c[i] \in S \cup D
    BY <1>2, <1>3, <1>4, Zenon
  <2> QED
    BY <2>1, <2>2, <2>3, Zenon
<1> QED
  BY <1>1, <1>5, <1>6, Zenon DEF Lists

\* pick_next takes one process out of the queue and leaves the others; the
\* mechanism falls back to the idle process when the queue is empty.
LEMMA PickLists ==
    ASSUME NEW s \in Seq(Pids), NEW S \in SUBSET Pids, Lists(s, S)
    PROVE  /\ PickFrom(s) \in S \cup {Idle}
           /\ RestOf(s) \in Seq(Pids)
           /\ Lists(RestOf(s), S \ {PickFrom(s)})
<1>1. CASE s = <<>>
  <2>1. S = {}
    BY <1>1 DEF Lists
  <2> QED
    BY <1>1, <2>1 DEF PickFrom, RestOf, Lists
<1>2. CASE s # <<>>
  <2> DEFINE t == Tail(s)
  <2>1. Len(s) \in Nat /\ Len(s) >= 1 /\ Head(s) = s[1] /\ t \in Seq(Pids)
        /\ Len(t) = Len(s) - 1
    BY <1>2
  <2>2. \A i \in 1..Len(t) : i + 1 \in 1..Len(s) /\ t[i] = s[i + 1]
    BY <1>2, <2>1
  <2>3. 1 \in 1..Len(s) /\ s[1] \in S
    BY <2>1 DEF Lists
  <2>4. \A i, j \in 1..Len(t) : t[i] = t[j] => i = j
    <3> SUFFICES ASSUME NEW i \in 1..Len(t), NEW j \in 1..Len(t), t[i] = t[j]
                 PROVE  i = j
      OBVIOUS
    <3>1. i + 1 = j + 1
      BY <2>2, Zenon DEF Lists
    <3> QED
      BY <3>1
  <2>5. \A y : y \in {t[i] : i \in 1..Len(t)} <=> y \in S \ {s[1]}
    <3>1. ASSUME NEW i \in 1..Len(t) PROVE t[i] \in S \ {s[1]}
      <4>1. i + 1 # 1
        OBVIOUS
      <4> QED
        BY <2>2, <2>3, <4>1 DEF Lists
    <3>2. ASSUME NEW y \in S, y # s[1] PROVE \E i \in 1..Len(t) : t[i] = y
      <4>1. PICK k \in 1..Len(s) : s[k] = y
        BY <3>2, Zenon DEF Lists
      <4>2. k - 1 \in 1..Len(t) /\ (k - 1) + 1 = k
        BY <2>1, <3>2, <4>1
      <4> QED
        BY <2>2, <4>1, <4>2, Zenon
    <3> QED
      BY <3>1, <3>2, Zenon
  <2>6. PickFrom(s) = s[1] /\ RestOf(s) = t
    BY <1>2, <2>1, Zenon DEF PickFrom, RestOf
  <2> QED
    BY <2>1, <2>3, <2>4, <2>5, <2>6 DEF Lists
<1> QED
  BY <1>1, <1>2, Zenon

\* The orders of a set of processes are lists of that set.
LEMMA OrdersAreLists ==
    ASSUME NEW S \in SUBSET Pids, NEW o \in Orders(S)
    PROVE  o \in Seq(Pids) /\ Lists(o, S)
<1>1. IsFiniteSet(Pids)
  BY FS_Interval, ConstantsAssumption DEF Pids
<1>2. Cardinality(S) \in Nat
  BY <1>1, FS_Subset, FS_CardinalityType, Zenon
<1>3. o \in [1..Cardinality(S) -> Pids] /\ Lists(o, S)
  BY Zenon DEF Orders
<1> QED
  BY <1>2, <1>3

-----------------------------------------------------------------------------
(* The inductive invariant.                                                *)

\* The current process is listed or idle and never asleep in the heap; it is
\* the one whose stack is in use, except between unlock() and
\* context_switch(), where it is the one about to be switched to.
CpuConsistent ==
    /\ cpu \in listed \cup {Idle}
    /\ stk \in listed \cup {Idle}
    /\ ~fault =>
         /\ at[stk] # "window" => cpu = stk
         /\ at[stk] = "window" => cpu = next[stk] /\ cpu # stk
         /\ \/ pcb[cpu].state = "RUNNING"
            \/ at[stk] = "marked" /\ pcb[cpu].state = "SLEEPING"
         /\ cpu \notin sleepers
         /\ saved[stk] # stk

\* A process whose kernel_rsp_saved names a frame of its own stack is parked
\* outside the window; pids not yet given out have not run.
FramesConsistent ==
    /\ \A p \in Procs : saved[p] = p => at[p] # "window"
    /\ \A p \in Procs : p >= next_pid => at[p] = "body"

IInv ==
    /\ TypeOK /\ RunQueueExact /\ SleepersAsleep /\ NoMissedExit
    /\ CpuConsistent /\ FramesConsistent

\* States a process does not come back from.
Gone == {"DEAD", "ZOMBIE"}

\* What the steps that change many entries of the process table at once keep:
\* the exited processes, and g_sleepers, which loses nobody who still sleeps.
StepKeeps ==
    /\ ExitKept /\ Collected
    /\ \A p \in listed : pcb'[p].state = "SLEEPING" /\ p \notin sleepers' =>
          pcb[p].state = "SLEEPING" /\ p \notin sleepers

-----------------------------------------------------------------------------
(* What pick_next_process() and activate_process() do to a sound queue.    *)

LEMMA Constants ==
    /\ Pids \subseteq Procs /\ Idle \in Procs /\ Idle \notin Pids
    /\ Reaper \in Pids /\ InitPid \in Pids /\ InitPid >= 2
    /\ AnyChild \notin Procs /\ None \notin Procs
BY ConstantsAssumption DEF Pids, Procs, Idle, Reaper, InitPid, AnyChild, None

\* The values wake() and resume() give a process.
LEMMA WakeResume ==
    ASSUME NEW b
    PROVE  /\ wake(b) \in PcbType /\ wake(b).state = "READY"
           /\ wake(b).wait_reason = "NONE"
           /\ resume(b) \in PcbType /\ resume(b).state = "RUNNING"
           /\ resume(b).wait_reason = "NONE"
<1>1. 0 \in 0..MaxSleep
  BY ConstantsAssumption
<1> QED
  BY <1>1, Zenon DEF wake, resume, PcbType, States, Reasons

\* Process table t, list L, sleepers heap and run queue agree.
Sound(t, L, heap, queue) ==
    /\ t \in [Procs -> PcbType] /\ L \in SUBSET Pids /\ heap \in SUBSET L
    /\ \A p \in heap : t[p].state = "SLEEPING"
    /\ queue \in Seq(Pids) /\ Lists(queue, Runnable(L, t))

\* wake_sleepers() puts every due sleeper in the queue, once.
LEMMA WakeResult ==
    ASSUME NEW t, NEW L, NEW heap, NEW queue, Sound(t, L, heap, queue),
           NEW order \in Orders(Due(t, heap))
    PROVE  /\ queue \o order \in Seq(Pids)
           /\ Lists(queue \o order, Runnable(L, t) \cup Due(t, heap))
           /\ Runnable(L, wake_sleepers(t, heap)) =
                 Runnable(L, t) \cup Due(t, heap)
           /\ wake_sleepers(t, heap) \in [Procs -> PcbType]
           /\ \A p \in Procs : wake_sleepers(t, heap)[p] =
                 IF p \in Due(t, heap) THEN wake(t[p]) ELSE t[p]
<1> DEFINE D == Due(t, heap)
           W == wake_sleepers(t, heap)
           R == Runnable(L, t)
<1>0. /\ t \in [Procs -> PcbType] /\ L \in SUBSET Pids /\ heap \in SUBSET L
      /\ \A p \in heap : t[p].state = "SLEEPING"
      /\ queue \in Seq(Pids) /\ Lists(queue, R)
  BY Zenon DEF Sound
<1>1. D \subseteq heap /\ D \subseteq L /\ D \subseteq Pids
  BY <1>0, Zenon DEF Due
<1>2. order \in Seq(Pids) /\ Lists(order, D)
  BY <1>1, OrdersAreLists, Zenon
<1>3. R \cap D = {}
  BY <1>0, <1>1, Zenon DEF is_ready, Runnable
<1>4. \A p \in Procs : W[p] = IF p \in D THEN wake(t[p]) ELSE t[p]
  BY <1>0, Zenon DEF wake_sleepers, WakeAll
<1>5. W \in [Procs -> PcbType]
  BY <1>0, WakeResume, Zenon DEF wake_sleepers, WakeAll
<1>6. Runnable(L, W) = R \cup D
  BY <1>0, <1>1, <1>4, WakeResume, Constants, Zenon DEF is_ready, Runnable
<1>7. queue \o order \in Seq(Pids) /\ Lists(queue \o order, R \cup D)
  BY <1>0, <1>2, <1>3, ConcatLists, Zenon
<1> QED
  BY <1>4, <1>5, <1>6, <1>7, Zenon

LEMMA PickResult ==
    ASSUME NEW t, NEW L, NEW heap, NEW queue, Sound(t, L, heap, queue),
           NEW order \in Orders(Due(t, heap))
    PROVE  LET x == PickFrom(queue \o order)
               u == Activated(wake_sleepers(t, heap), x)
           IN
           /\ x \in L \cup {Idle}
           /\ x # Idle => is_ready(t[x]) \/ x \in Due(t, heap)
           /\ u \in [Procs -> PcbType]
           /\ u[x].state = "RUNNING" /\ u[x].wait_reason = "NONE"
           /\ \A p \in Procs : p # x => u[p] = wake_sleepers(t, heap)[p]
           /\ \A p \in Procs : wake_sleepers(t, heap)[p] =
                 IF p \in Due(t, heap) THEN wake(t[p]) ELSE t[p]
           /\ RestOf(queue \o order) \in Seq(Pids)
           /\ Lists(RestOf(queue \o order), Runnable(L, u))
           /\ x \notin heap \ Due(t, heap)
           /\ \A p \in heap \ Due(t, heap) : u[p].state = "SLEEPING"
<1> DEFINE x == PickFrom(queue \o order)
           u == Activated(wake_sleepers(t, heap), x)
           D == Due(t, heap)
           W == wake_sleepers(t, heap)
           q == queue \o order
           R == Runnable(L, W)
<1>01. /\ t \in [Procs -> PcbType] /\ L \in SUBSET Pids /\ heap \in SUBSET L
      /\ \A p \in heap : t[p].state = "SLEEPING"
  BY Zenon DEF Sound
<1>0. R = Runnable(L, t) \cup D
  BY WakeResult, Zenon
<1>1. /\ q \in Seq(Pids) /\ Lists(q, R) /\ W \in [Procs -> PcbType]
      /\ \A p \in Procs : W[p] = IF p \in D THEN wake(t[p]) ELSE t[p]
  <2>1. q \in Seq(Pids) /\ Lists(q, Runnable(L, t) \cup D)
    BY WakeResult, Zenon
  <2>2. Lists(q, R)
    BY <1>0, <2>1, Zenon
  <2>3. W \in [Procs -> PcbType]
    BY WakeResult, Zenon
  <2>4. \A p \in Procs : W[p] = IF p \in D THEN wake(t[p]) ELSE t[p]
    BY <1>01, Zenon DEF wake_sleepers, WakeAll
  <2> QED
    BY <2>1, <2>2, <2>3, <2>4, Zenon
<1>2. /\ x \in R \cup {Idle} /\ RestOf(q) \in Seq(Pids) /\ Lists(RestOf(q), R \ {x})
  <2>1. R \in SUBSET Pids
    BY <1>01, Zenon DEF Runnable
  <2> QED
    BY <1>1, <2>1, PickLists, Zenon
<1> HIDE DEF x
<1>3. x \in Procs
  BY <1>01, <1>2, Constants, Zenon DEF Runnable
<1>4. u = [W EXCEPT ![x] = resume(W[x])]
  BY Zenon DEF Activated
<1> HIDE DEF u, W
<1>5. u \in [Procs -> PcbType] /\ u[x] = resume(W[x])
      /\ \A p \in Procs : p # x => u[p] = W[p]
  BY <1>1, <1>3, <1>4, WakeResume, Zenon
<1>6. Runnable(L, u) = R \ {x}
  BY <1>01, <1>3, <1>5, WakeResume, Constants DEF is_ready, Runnable
<1>7. x # Idle => is_ready(t[x]) \/ x \in D
  BY <1>1, <1>2, <1>3, Zenon DEF Runnable
<1>8. x \notin heap \ D
  BY <1>01, <1>7, Constants, Zenon DEF is_ready, Runnable
<1>9. \A p \in heap \ D : u[p].state = "SLEEPING"
  BY <1>01, <1>1, <1>5, <1>8, Constants, Zenon
<1>10. u[x].state = "RUNNING" /\ u[x].wait_reason = "NONE" /\ x \in L \cup {Idle}
  BY <1>2, <1>5, WakeResume, Zenon DEF Runnable
<1> QED
  BY <1>1, <1>2, <1>5, <1>6, <1>7, <1>8, <1>9, <1>10, Zenon DEF x, u, W

-----------------------------------------------------------------------------
\* The state kernel_main leaves before the first tick satisfies IInv.
LEMMA InitIInv == Init => IInv
<1> SUFFICES ASSUME Init PROVE IInv
  OBVIOUS
<1> USE Constants DEF Init
<1>1. InitPid \in Nat /\ InitPid <= MaxPid /\ MaxPid \in Nat /\ InitPid \in Int
  BY ConstantsAssumption DEF InitPid
<1>2. NewPcb \in PcbType /\ NewPcb.state = "NEW"
  <2>1. 0 \in 0..MaxSleep
    BY ConstantsAssumption
  <2> QED
    BY <2>1, Zenon DEF NewPcb, PcbType, States, Reasons
<1>3. pcb \in [Procs -> PcbType]
  BY <1>2, WakeResume, Zenon
<1>4. ready \in Seq(Pids) /\ Len(ready) = InitPid
  <2>1. ready \in [1..InitPid -> Pids]
    BY <1>1 DEF Pids
  <2> QED
    BY <1>1, <2>1
<1>5. TypeOK
  <2>1. next_pid \in (InitPid + 1)..(MaxPid + 1) /\ listed \subseteq 1..(next_pid - 1)
    BY <1>1
  <2>2. saved \in [Procs -> Procs \cup {None}]
    BY <1>1, Zenon DEF Procs
  <2>3. ran \in 0..Slice /\ keys \in 0..MaxKeys
    BY ConstantsAssumption
  <2>4. /\ call \in [Procs -> Reasons] /\ at \in [Procs -> Points]
        /\ child_pid \in [Procs -> Pids \cup {AnyChild}] /\ next \in [Procs -> Procs]
    BY Zenon DEF Reasons, Points
  <2> QED
    BY <1>3, <1>4, <2>1, <2>2, <2>3, <2>4, Zenon DEF TypeOK
<1>6. RunQueueExact
  <2>1. Runnable(listed, pcb) = 1..InitPid
    <3>1. \A p \in 1..InitPid : p \in Procs /\ p # Idle /\ pcb[p] = NewPcb
      BY <1>1 DEF Procs, Idle
    <3> QED
      BY <3>1, <1>2, Zenon DEF Runnable, is_ready
  <2>2. {ready[i] : i \in 1..Len(ready)} = 1..InitPid
    BY <1>4, Zenon
  <2> QED
    BY <1>4, <2>1, <2>2, Zenon DEF RunQueueExact, Lists
<1>7. SleepersAsleep
  BY Zenon DEF SleepersAsleep
<1>8. NoMissedExit
  <2>1. \A p \in listed : p \in Procs /\ p # Idle /\ pcb[p] = NewPcb
    BY <1>1 DEF Procs, Idle
  <2> QED
    BY <2>1, <1>2, Zenon DEF NoMissedExit
<1>9. CpuConsistent
  <2>1. Idle \notin listed /\ saved[Idle] = None /\ None # Idle
    BY DEF Idle, None
  <2>2. pcb[Idle].state = "RUNNING"
    BY WakeResume, Zenon
  <2> QED
    BY <2>1, <2>2, Zenon DEF CpuConsistent
<1>10. FramesConsistent
  BY Zenon DEF FramesConsistent
<1> QED
  BY <1>5, <1>6, <1>7, <1>8, <1>9, <1>10 DEF IInv

-----------------------------------------------------------------------------
(* What IInv gives to every step.                                          *)

\* Every listed process has a pid below g_pid.
LEMMA ListedFacts ==
    ASSUME IInv
    PROVE  /\ listed \subseteq Pids /\ listed \subseteq Procs
           /\ next_pid \in Nat /\ \A p \in listed : p < next_pid
           /\ sleepers \subseteq listed
<1>1. listed \subseteq 1..(next_pid - 1) /\ next_pid \in (InitPid + 1)..(MaxPid + 1)
  BY Zenon DEF IInv, TypeOK
<1>2. next_pid \in Nat /\ next_pid <= MaxPid + 1
  BY <1>1, ConstantsAssumption DEF InitPid
<1>3. listed \subseteq Pids /\ \A p \in listed : p < next_pid
  BY <1>1, <1>2, ConstantsAssumption DEF Pids
<1>4. sleepers \subseteq listed
  BY Zenon DEF IInv, SleepersAsleep
<1> QED
  BY <1>2, <1>3, <1>4, Constants, Zenon

\* What IInv says of the thread that is about to take a step of its own.
LEMMA RunningFacts ==
    ASSUME IInv, NEW p \in Pids, ~fault, stk = p, at[p] # "window"
    PROVE  /\ cpu = p /\ p \in listed /\ p \in Procs /\ p < next_pid
           /\ at[p] # "marked" => pcb[p].state = "RUNNING"
           /\ pcb[p].state \in {"RUNNING", "SLEEPING"}
           /\ p \notin sleepers /\ saved[p] # p /\ p # Idle
           /\ listed \subseteq Pids /\ next_pid \in Nat /\ sleepers \subseteq listed
           /\ listed \subseteq Procs
<1>1. cpu = p /\ p \in listed /\ p # Idle
  BY Constants, Zenon DEF IInv, CpuConsistent
<1> QED
  BY <1>1, ListedFacts, Zenon DEF IInv, CpuConsistent

\* A step that leaves the process table and the queues alone.
LEMMA TablesKept ==
    ASSUME IInv, UNCHANGED <<pcb, parent, next_pid, listed, ready, sleepers>>
    PROVE  RunQueueExact' /\ SleepersAsleep' /\ NoMissedExit'
BY DEF IInv, RunQueueExact, SleepersAsleep, NoMissedExit, Runnable, Lists,
       is_ready, is_waiting_for_child

\* No process starts to wait for a child and none becomes a ZOMBIE.
LEMMA NoNewWait ==
    ASSUME IInv, UNCHANGED <<parent, listed>>,
           \A p \in listed : pcb'[p].state = "BLOCKED" =>
               pcb'[p] = pcb[p] \/ pcb'[p].wait_reason # "CHILD_PROCESS",
           \A p \in listed : pcb'[p].state = "ZOMBIE" => pcb[p].state = "ZOMBIE"
    PROVE  NoMissedExit'
BY DEF IInv, NoMissedExit, is_waiting_for_child

\* What PickAndActivate does when the table t differs from a sound one only
\* in ways that leave the set of runnable processes and the sleepers sound.
LEMMA PickAndActivateFacts ==
    ASSUME NEW t, NEW heap, NEW queue, Sound(t, listed, heap, queue), UNCHANGED listed,
           NEW order \in Orders(Due(t, heap)),
           PickAndActivate(t, heap, queue, order)
    PROVE  LET x == PickFrom(queue \o order)
           IN
           /\ x \in listed \cup {Idle} /\ x \in Procs
           /\ x # Idle => is_ready(t[x]) \/ x \in heap
           /\ pcb' \in [Procs -> PcbType]
           /\ ready' \in Seq(Pids) /\ ran' \in 0..Slice
           /\ RunQueueExact' /\ SleepersAsleep'
           /\ x \notin sleepers' /\ sleepers' \subseteq heap
           /\ pcb'[x].state = "RUNNING"
           /\ \A p \in Procs : p # x =>
                 pcb'[p] = t[p] \/ (p \in heap /\ pcb'[p].state = "READY")
           /\ \A p \in listed : t[p].state \in Gone => pcb'[p].state = t[p].state
           /\ \A p \in heap \ sleepers' : pcb'[p].state # "SLEEPING"
<1> DEFINE x == PickFrom(queue \o order)
           u == Activated(wake_sleepers(t, heap), x)
           r == RestOf(queue \o order)
<1>1. /\ pcb' = u /\ ready' = r /\ sleepers' = heap \ Due(t, heap) /\ ran' = 0
  BY Zenon DEF PickAndActivate
<1>2. /\ x \in listed \cup {Idle}
      /\ x # Idle => is_ready(t[x]) \/ x \in Due(t, heap)
      /\ u \in [Procs -> PcbType]
      /\ u[x].state = "RUNNING"
      /\ \A p \in Procs : p # x => u[p] = wake_sleepers(t, heap)[p]
      /\ \A p \in Procs : wake_sleepers(t, heap)[p] =
            IF p \in Due(t, heap) THEN wake(t[p]) ELSE t[p]
      /\ r \in Seq(Pids) /\ Lists(r, Runnable(listed, u))
      /\ x \notin heap \ Due(t, heap)
      /\ \A p \in heap \ Due(t, heap) : u[p].state = "SLEEPING"
  BY PickResult
<1>12. /\ listed \in SUBSET Pids /\ heap \in SUBSET listed
       /\ \A p \in heap : t[p].state = "SLEEPING"
  BY Zenon DEF Sound
<1> HIDE DEF x, u, r
<1>3. Due(t, heap) \subseteq heap
  BY Zenon DEF Due
<1>4. 0 \in 0..Slice
  BY ConstantsAssumption
<1>5. RunQueueExact' /\ SleepersAsleep'
  BY <1>1, <1>2, <1>12, Zenon DEF RunQueueExact, SleepersAsleep
<1>6. \A p \in Procs : p # x =>
         pcb'[p] = t[p] \/ (p \in heap /\ pcb'[p].state = "READY")
  <2> SUFFICES ASSUME NEW p \in Procs, p # x
               PROVE  pcb'[p] = t[p] \/ (p \in heap /\ pcb'[p].state = "READY")
    OBVIOUS
  <2>1. pcb'[p] = IF p \in Due(t, heap) THEN wake(t[p]) ELSE t[p]
    BY <1>1, <1>2, Zenon
  <2>2. wake(t[p]).state = "READY"
    BY WakeResume, Zenon
  <2>3. CASE p \in Due(t, heap)
    BY <1>3, <2>1, <2>2, <2>3, Zenon
  <2>4. CASE p \notin Due(t, heap)
    BY <2>1, <2>4, Zenon
  <2> QED
    BY <2>3, <2>4, Zenon
<1>7. \A p \in listed : t[p].state \in Gone => pcb'[p].state = t[p].state
  BY <1>2, <1>3, <1>6, <1>12, Constants, Zenon DEF Gone, is_ready
<1>8. \A p \in heap \ sleepers' : pcb'[p].state # "SLEEPING"
  <2> SUFFICES ASSUME NEW p \in heap, p \notin sleepers'
               PROVE  pcb'[p].state # "SLEEPING"
    OBVIOUS
  <2>1. p \in Due(t, heap) /\ p \in Procs
    BY <1>1, <1>12, Constants, Zenon
  <2>2. p # x => pcb'[p] = wake(t[p])
    BY <1>1, <1>2, <2>1, Zenon
  <2>3. wake(t[p]).state = "READY"
    BY WakeResume, Zenon
  <2> QED
    BY <1>1, <1>2, <2>2, <2>3, Zenon
<1> QED
  BY <1>1, <1>2, <1>3, <1>4, <1>5, <1>6, <1>7, <1>8, <1>12, Constants, Zenon DEF x

\* Continuing x from its own frame, or faulting.
LEMMA SwitchConsistent ==
    ASSUME IInv, NEW x \in listed \cup {Idle}, cpu' = x, stk' = x,
           UNCHANGED <<listed, at>>, fault' = (saved[x] # x),
           pcb'[x].state = "RUNNING", x \notin sleepers', saved'[x] = None
    PROVE  CpuConsistent'
<1>1. x \in Procs /\ None # x
  BY ListedFacts, Constants, Zenon
<1>2. ~fault' => at[x] # "window"
  BY <1>1, Zenon DEF IInv, FramesConsistent
<1> QED
  BY <1>1, <1>2, Zenon DEF CpuConsistent

\* The current process is never the one picked: it is neither queued nor due.
LEMMA NotPickedWhileRunning ==
    ASSUME IInv, ~fault, cpu # Idle, NEW order \in Orders(Due(pcb, sleepers))
    PROVE  PickFrom(ready \o order) # cpu
<1>1. /\ listed \in SUBSET Pids /\ sleepers \in SUBSET listed
      /\ pcb \in [Procs -> PcbType] /\ ready \in Seq(Pids)
      /\ cpu \notin sleepers /\ pcb[cpu].state \in {"RUNNING", "SLEEPING"}
      /\ Lists(ready, Runnable(listed, pcb))
      /\ \A q \in sleepers : pcb[q].state = "SLEEPING"
  BY ListedFacts, Zenon DEF IInv, TypeOK, CpuConsistent, RunQueueExact, SleepersAsleep
<1>2. Sound(pcb, listed, sleepers, ready)
  BY <1>1, Zenon DEF Sound
<1> DEFINE x == PickFrom(ready \o order)
<1>3. x # Idle => is_ready(pcb[x]) \/ x \in Due(pcb, sleepers)
  BY <1>2, PickResult, Zenon
<1> HIDE DEF x
<1>4. x # cpu
  BY <1>1, <1>3, Zenon DEF is_ready, Due
<1> QED
  BY <1>4, Zenon DEF x

-----------------------------------------------------------------------------
(* Steps that only move a thread.                                          *)

\* Entering a blocking call.
LEMMA EnterStep ==
    ASSUME IInv, NEW p \in Pids,
           sys_read(p) \/ sys_sleep(p) \/ sys_pause(p) \/ sys_wait4(p)
    PROVE  IInv'
<1>1. /\ ~fault /\ stk = p /\ at[p] = "body"
      /\ \E what \in Reasons : Enter(p, what)
      /\ child_pid' \in [Procs -> Pids \cup {AnyChild}]
      /\ UNCHANGED <<pcb, parent, next_pid, listed, ready, sleepers, cpu, stk,
                     ran, saved, next, keys, fault>>
  <2>1. child_pid \in [Procs -> Pids \cup {AnyChild}]
    BY Zenon DEF IInv, TypeOK
  <2> QED
    BY <2>1, Zenon DEF sys_read, sys_sleep, sys_pause, sys_wait4, Running, Reasons
<1>2. PICK what \in Reasons : Enter(p, what)
  BY <1>1, Zenon
<1>3. cpu = p /\ p \in Procs /\ p < next_pid /\ next_pid \in Nat
      /\ pcb[p].state = "RUNNING" /\ p \notin sleepers /\ saved[p] # p
  BY <1>1, RunningFacts, Zenon
<1>4. /\ at' = [at EXCEPT ![p] = "loop"] /\ call' = [call EXCEPT ![p] = what]
      /\ irq_on' \in BOOLEAN
  BY <1>2, Zenon DEF Enter
<1>5. at' \in [Procs -> Points] /\ call' \in [Procs -> Reasons] /\ at'[p] = "loop"
      /\ \A q \in Procs : q # p => at'[q] = at[q]
  BY <1>2, <1>4, <1>3, Zenon DEF IInv, TypeOK, Points
<1>6. TypeOK'
  BY <1>1, <1>4, <1>5, Zenon DEF IInv, TypeOK
<1>7. RunQueueExact' /\ SleepersAsleep' /\ NoMissedExit'
  BY <1>1, TablesKept, Zenon
<1>8. CpuConsistent'
  BY <1>1, <1>3, <1>5, Zenon DEF IInv, CpuConsistent
<1>9. FramesConsistent'
  <2>1. UNCHANGED <<saved, next_pid>>
    BY <1>1, Zenon
  <2> QED
    BY <2>1, <1>3, <1>5, ConstantsAssumption DEF IInv, FramesConsistent, Procs
<1> QED
  BY <1>6, <1>7, <1>8, <1>9, Zenon DEF IInv

\* One turn of the tty's read loop.
LEMMA PollStep ==
    ASSUME IInv, NEW p \in Pids, tty_poll(p)
    PROVE  IInv'
<1>1. /\ ~fault /\ stk = p /\ at[p] = "loop"
      /\ UNCHANGED <<pcb, parent, next_pid, listed, ready, sleepers, cpu, stk,
                     ran, saved, child_pid, next, fault>>
  BY Zenon DEF tty_poll, Running
<1>2. cpu = p /\ p \in Procs /\ p < next_pid /\ next_pid \in Nat
      /\ pcb[p].state = "RUNNING" /\ p \notin sleepers /\ saved[p] # p
  BY <1>1, RunningFacts, Zenon
<1>3. /\ at' \in [Procs -> Points] /\ call' \in [Procs -> Reasons]
      /\ irq_on' \in BOOLEAN /\ at'[p] \in {"polled", "loop", "body"}
      /\ \A q \in Procs : q # p => at'[q] = at[q]
  <2>1. at \in [Procs -> Points] /\ call \in [Procs -> Reasons] /\ irq_on \in BOOLEAN
    BY Zenon DEF IInv, TypeOK
  <2>2. /\ at' = at \/ at' = [at EXCEPT ![p] = "polled"] \/ at' = [at EXCEPT ![p] = "body"]
        /\ call' = call \/ call' = [call EXCEPT ![p] = "NONE"]
        /\ irq_on' = irq_on \/ irq_on' = TRUE
    BY Zenon DEF tty_poll, Goto
  <2> QED
    BY <1>1, <1>2, <2>1, <2>2, Zenon DEF Points, NarrowPoints, Reasons
<1>4. keys' \in 0..MaxKeys
  <2>1. keys \in 0..MaxKeys /\ MaxKeys \in Nat
    BY ConstantsAssumption, Zenon DEF IInv, TypeOK
  <2> QED
    BY <2>1 DEF tty_poll
<1>5. TypeOK'
  BY <1>1, <1>3, <1>4, Zenon DEF IInv, TypeOK
<1>6. RunQueueExact' /\ SleepersAsleep' /\ NoMissedExit'
  BY <1>1, TablesKept, Zenon
<1>7. CpuConsistent'
  BY <1>1, <1>2, <1>3, Zenon DEF IInv, CpuConsistent
<1>8. FramesConsistent'
  BY <1>1, <1>2, <1>3, Zenon DEF IInv, FramesConsistent
<1> QED
  BY <1>5, <1>6, <1>7, <1>8, Zenon DEF IInv

\* The context_switch() at the end of yield_blocked() and yield_to_child().
LEMMA SwitchAwayStep ==
    ASSUME IInv, NEW p \in Pids, SwitchAway(p)
    PROVE  IInv'
<1>1. /\ ~fault /\ stk = p /\ at[p] = "window" /\ p \in Procs
      /\ UNCHANGED <<pcb, parent, next_pid, listed, ready, sleepers, cpu, ran,
                     child_pid, keys>>
  BY Constants, Zenon DEF SwitchAway
<1>2. /\ cpu = next[p] /\ cpu # p /\ cpu \in listed \cup {Idle} /\ cpu \in Procs
      /\ cpu \notin sleepers /\ p \in listed /\ p < next_pid /\ next_pid \in Nat
      /\ pcb[cpu].state = "RUNNING"
  <2>1. listed \subseteq 1..(next_pid - 1) /\ next_pid \in (InitPid + 1)..(MaxPid + 1)
    BY Zenon DEF IInv, TypeOK
  <2>2. p \in listed
    BY <1>1, Constants, Zenon DEF IInv, CpuConsistent
  <2>3. p < next_pid /\ next_pid \in Nat
    BY <2>1, <2>2, ConstantsAssumption DEF InitPid
  <2>4. cpu \in Procs
    BY Zenon DEF IInv, TypeOK
  <2> QED
    BY <1>1, <2>2, <2>3, <2>4, Zenon DEF IInv, CpuConsistent
<1>3. /\ stk' = cpu /\ irq_on' = TRUE /\ fault' = (saved[cpu] # cpu)
      /\ saved' = [saved EXCEPT ![p] = p, ![cpu] = None]
      /\ next' = [next EXCEPT ![p] = Idle]
      /\ at' = [at EXCEPT ![p] = AfterAt(call[p])]
      /\ call' = [call EXCEPT ![p] = AfterCall(call[p])]
  BY <1>1, <1>2, Zenon DEF SwitchAway, context_switch
<1>4. AfterAt(call[p]) \in {"loop", "body"} /\ AfterCall(call[p]) \in Reasons
  BY <1>1, Zenon DEF AfterAt, AfterCall, Reasons, IInv, TypeOK
<1>5. /\ at' \in [Procs -> Points] /\ call' \in [Procs -> Reasons]
      /\ next' \in [Procs -> Procs] /\ saved' \in [Procs -> Procs \cup {None}]
      /\ at'[p] # "window" /\ \A q \in Procs : q # p => at'[q] = at[q]
      /\ saved'[cpu] = None
      /\ \A q \in Procs : q # p /\ q # cpu => saved'[q] = saved[q]
  BY <1>1, <1>2, <1>3, <1>4, Constants DEF IInv, TypeOK, Points, NarrowPoints
<1>6. TypeOK'
  BY <1>1, <1>2, <1>3, <1>5, Zenon DEF IInv, TypeOK
<1>7. RunQueueExact' /\ SleepersAsleep' /\ NoMissedExit'
  BY <1>1, TablesKept, Zenon
<1>8. CpuConsistent'
  <2>1. ~fault' => at'[cpu] # "window"
    BY <1>2, <1>3, <1>5, Zenon DEF IInv, FramesConsistent
  <2> QED
    BY <1>1, <1>2, <1>3, <1>5, <2>1, Constants DEF IInv, CpuConsistent
<1>9. FramesConsistent'
  BY <1>1, <1>2, <1>5, Constants DEF IInv, FramesConsistent
<1> QED
  BY <1>6, <1>7, <1>8, <1>9, Zenon DEF IInv

\* sleep_for(), still outside the lock.
LEMMA SleepForStep ==
    ASSUME IInv, NEW p \in Pids, yield_sleep_ns(p)
    PROVE  IInv'
<1>1. /\ ~fault /\ stk = p /\ at[p] = "loop"
      /\ at' = [at EXCEPT ![p] = "marked"]
      /\ UNCHANGED <<parent, next_pid, listed, ready, sleepers, cpu, stk, irq_on,
                     ran, saved, call, child_pid, next, keys, fault>>
  BY Zenon DEF yield_sleep_ns, Running, Goto
<1>2. cpu = p /\ p \in Procs /\ p < next_pid /\ next_pid \in Nat
      /\ pcb[p].state = "RUNNING" /\ p \notin sleepers /\ saved[p] # p
      /\ listed \subseteq Procs /\ sleepers \subseteq listed
  BY <1>1, RunningFacts, Zenon
<1>3. PICK duration \in 0..MaxSleep : pcb' = [pcb EXCEPT ![p] = sleep_for(pcb[p], duration)]
  BY Zenon DEF yield_sleep_ns
<1>4. /\ sleep_for(pcb[p], duration) \in PcbType
      /\ sleep_for(pcb[p], duration).state = "SLEEPING"
  <2>1. pcb[p] \in PcbType
    BY <1>2, Zenon DEF IInv, TypeOK
  <2> QED
    BY <2>1, <1>3, Zenon DEF sleep_for, wait_for, PcbType, States, Reasons
<1>5. /\ pcb' \in [Procs -> PcbType] /\ pcb'[p].state = "SLEEPING"
      /\ \A q \in Procs : q # p => pcb'[q] = pcb[q]
  BY <1>2, <1>3, <1>4, Zenon DEF IInv, TypeOK
<1>6. /\ at' \in [Procs -> Points] /\ at'[p] = "marked"
      /\ \A q \in Procs : q # p => at'[q] = at[q]
  BY <1>1, <1>2, Zenon DEF IInv, TypeOK, Points, NarrowPoints
<1>7. TypeOK'
  BY <1>1, <1>5, <1>6, Zenon DEF IInv, TypeOK
<1>8. RunQueueExact'
  <2>1. Runnable(listed', pcb') = Runnable(listed, pcb)
    BY <1>1, <1>2, <1>5, Zenon DEF Runnable, is_ready
  <2> QED
    BY <1>1, <2>1, Zenon DEF IInv, RunQueueExact
<1>9. SleepersAsleep'
  BY <1>1, <1>2, <1>5, Zenon DEF IInv, SleepersAsleep
<1>10. NoMissedExit'
  BY <1>1, <1>2, <1>5 DEF IInv, NoMissedExit, is_waiting_for_child
<1>11. CpuConsistent'
  BY <1>1, <1>2, <1>5, <1>6, Zenon DEF IInv, CpuConsistent
<1>12. FramesConsistent'
  BY <1>1, <1>2, <1>6, Zenon DEF IInv, FramesConsistent
<1> QED
  BY <1>7, <1>8, <1>9, <1>10, <1>11, <1>12, Zenon DEF IInv

\* reap(): only DEAD processes leave the list.
LEMMA ReapStep ==
    ASSUME IInv, reap
    PROVE  IInv'
<1> DEFINE p == Reaper
<1>1. /\ ~fault /\ stk = p /\ at[p] = "body" /\ p \in Pids
      /\ listed' = {q \in listed : pcb[q].state # "DEAD"}
      /\ UNCHANGED <<pcb, parent, next_pid, ready, sleepers, cpu, stk, ran,
                     saved, child_pid, next, keys, fault>>
  BY Constants, Zenon DEF reap, Running
<1>2. /\ cpu = p /\ p \in listed /\ p \in Procs /\ p < next_pid /\ next_pid \in Nat
      /\ pcb[p].state = "RUNNING" /\ p \notin sleepers /\ saved[p] # p
  BY <1>1, RunningFacts, Zenon
<1>3. /\ at' = [at EXCEPT ![p] = "loop"] /\ call' = [call EXCEPT ![p] = "SLEEP"]
      /\ irq_on' \in BOOLEAN
  BY Zenon DEF reap, Enter
<1>4. /\ at' \in [Procs -> Points] /\ call' \in [Procs -> Reasons] /\ at'[p] = "loop"
      /\ \A q \in Procs : q # p => at'[q] = at[q]
  BY <1>2, <1>3, Zenon DEF IInv, TypeOK, Points, Reasons
<1>5. TypeOK'
  BY <1>1, <1>3, <1>4, Zenon DEF IInv, TypeOK
<1>6. RunQueueExact'
  <2>1. Runnable(listed', pcb') = Runnable(listed, pcb)
    BY <1>1, Zenon DEF Runnable, is_ready
  <2> QED
    BY <1>1, <2>1, Zenon DEF IInv, RunQueueExact
<1>7. SleepersAsleep'
  BY <1>1, Zenon DEF IInv, SleepersAsleep
<1>8. NoMissedExit'
  BY <1>1, Zenon DEF IInv, NoMissedExit, is_waiting_for_child
<1>9. CpuConsistent'
  BY <1>1, <1>2, <1>4, Zenon DEF IInv, CpuConsistent
<1>10. FramesConsistent'
  BY <1>1, <1>2, <1>4, ConstantsAssumption DEF IInv, FramesConsistent, Procs
<1> QED
  BY <1>5, <1>6, <1>7, <1>8, <1>9, <1>10, Zenon DEF IInv

\* Time passes: deadlines come nearer, no state changes.
LEMMA ElapseStep ==
    ASSUME IInv, Elapse
    PROVE  IInv'
<1>1. /\ ~fault
      /\ UNCHANGED <<parent, next_pid, listed, ready, sleepers, cpu, stk, irq_on,
                     saved, call, at, child_pid, next, keys, fault>>
  BY Zenon DEF Elapse, threadVars
<1>2. \A p \in Procs : /\ pcb'[p] \in PcbType /\ pcb'[p].state = pcb[p].state
                       /\ pcb'[p].wait_reason = pcb[p].wait_reason
                       /\ pcb'[p].wait_pid = pcb[p].wait_pid
  <2> TAKE p \in Procs
  <2>1. pcb[p] \in PcbType /\ MaxSleep \in Nat
    BY ConstantsAssumption, Zenon DEF IInv, TypeOK
  <2>2. pcb'[p] = IF pcb[p].wake_in > 0
                  THEN [pcb[p] EXCEPT !.wake_in = pcb[p].wake_in - 1] ELSE pcb[p]
    BY Zenon DEF Elapse
  <2>3. pcb[p].wake_in \in 0..MaxSleep
    BY <2>1, Zenon DEF PcbType
  <2>4. CASE pcb[p].wake_in > 0
    <3>1. pcb[p].wake_in - 1 \in 0..MaxSleep
      BY <2>1, <2>3, <2>4
    <3> QED
      BY <2>1, <2>2, <2>4, <3>1 DEF PcbType
  <2>5. CASE ~(pcb[p].wake_in > 0)
    BY <2>1, <2>2, <2>5, Zenon
  <2> QED
    BY <2>4, <2>5, Zenon
<1>3. pcb' \in [Procs -> PcbType]
  BY <1>2, Zenon DEF Elapse
<1>4. ran' \in 0..Slice
  <2>1. ran \in 0..Slice /\ Slice \in Nat
    BY ConstantsAssumption, Zenon DEF IInv, TypeOK
  <2> QED
    BY <2>1 DEF Elapse
<1>5. listed \subseteq Procs /\ cpu \in Procs /\ sleepers \subseteq Procs
  BY ListedFacts, Constants, Zenon DEF IInv, TypeOK
<1>6. TypeOK'
  BY <1>1, <1>3, <1>4, Zenon DEF IInv, TypeOK
<1>7. RunQueueExact'
  <2>1. Runnable(listed', pcb') = Runnable(listed, pcb)
    BY <1>1, <1>2, <1>5, Zenon DEF Runnable, is_ready
  <2> QED
    BY <1>1, <2>1, Zenon DEF IInv, RunQueueExact
<1>8. SleepersAsleep'
  BY <1>1, <1>2, <1>5, Zenon DEF IInv, SleepersAsleep
<1>9. NoMissedExit'
  BY <1>1, <1>2, <1>5 DEF IInv, NoMissedExit, is_waiting_for_child
<1>10. CpuConsistent' /\ FramesConsistent'
  BY <1>1, <1>2, <1>5, Zenon DEF IInv, CpuConsistent, FramesConsistent
<1> QED
  BY <1>6, <1>7, <1>8, <1>9, <1>10, Zenon DEF IInv

-----------------------------------------------------------------------------
(* Steps that change the process table without a switch.                   *)

\* sys_fork(): the child has a fresh pid, so it is queued for the first time.
LEMMA ForkStep ==
    ASSUME IInv, NEW p \in Pids, sys_fork(p)
    PROVE  IInv'
<1> DEFINE c == next_pid
<1>1. /\ ~fault /\ stk = p /\ at[p] = "body" /\ c <= MaxPid
      /\ pcb' = [pcb EXCEPT ![c] = NewPcb]
      /\ parent' = [parent EXCEPT ![c] = p]
      /\ saved' = [saved EXCEPT ![c] = c]
      /\ listed' = listed \cup {c} /\ ready' = Append(ready, c)
      /\ next_pid' = c + 1
      /\ UNCHANGED <<sleepers, cpu, stk, irq_on, ran, call, at, child_pid, next,
                     keys, fault>>
  BY Zenon DEF sys_fork, Running, threadVars
<1>2. /\ cpu = p /\ p \in listed /\ p \in Procs /\ p < c
      /\ pcb[p].state = "RUNNING" /\ p \notin sleepers /\ saved[p] # p
  BY <1>1, RunningFacts, Zenon
<1>3. /\ c \in Nat /\ c \notin listed /\ listed \subseteq Procs /\ listed \subseteq Pids
      /\ c # p /\ sleepers \subseteq listed /\ \A q \in listed : q < c
  BY <1>2, ListedFacts
<1>4. c \in Pids /\ c \in Procs
  <2>1. c >= InitPid + 1 /\ InitPid \in Nat
    BY ConstantsAssumption DEF IInv, TypeOK, InitPid
  <2> QED
    BY <1>1, <1>3, <2>1, ConstantsAssumption DEF Pids, Procs
<1>5. NewPcb \in PcbType /\ NewPcb.state = "NEW" /\ NewPcb.wait_reason = "NONE"
  <2>1. 0 \in 0..MaxSleep
    BY ConstantsAssumption
  <2> QED
    BY <2>1, Zenon DEF NewPcb, PcbType, States, Reasons
<1>6. /\ pcb' \in [Procs -> PcbType] /\ pcb'[c] = NewPcb
      /\ \A q \in Procs : q # c => pcb'[q] = pcb[q]
  BY <1>1, <1>4, <1>5, Zenon DEF IInv, TypeOK
<1>7. /\ parent' \in [Procs -> Procs] /\ parent'[c] = p
      /\ \A q \in Procs : q # c => parent'[q] = parent[q]
      /\ saved' \in [Procs -> Procs \cup {None}]
      /\ \A q \in Procs : q # c => saved'[q] = saved[q]
  BY <1>1, <1>2, <1>4, Zenon DEF IInv, TypeOK
<1>8. ready' \in Seq(Pids) /\ Lists(ready', Runnable(listed, pcb) \cup {c})
  <2>1. ready \in Seq(Pids) /\ Lists(ready, Runnable(listed, pcb))
    BY Zenon DEF IInv, TypeOK, RunQueueExact
  <2>2. c \notin Runnable(listed, pcb)
    BY <1>3, Zenon DEF Runnable
  <2> QED
    BY <1>1, <1>4, <2>1, <2>2, AppendLists, Zenon
<1>9. TypeOK'
  <2>1. /\ next_pid' \in (InitPid + 1)..(MaxPid + 1)
        /\ listed' \subseteq 1..(next_pid' - 1)
    BY <1>1, <1>3, <1>4, ConstantsAssumption DEF IInv, TypeOK, InitPid, Pids
  <2> QED
    BY <1>1, <1>6, <1>7, <1>8, <2>1, Zenon DEF IInv, TypeOK
<1>10. RunQueueExact'
  <2>1. Runnable(listed', pcb') = Runnable(listed, pcb) \cup {c}
    BY <1>1, <1>3, <1>5, <1>6, Zenon DEF Runnable, is_ready
  <2> QED
    BY <1>8, <2>1, Zenon DEF RunQueueExact
<1>11. SleepersAsleep'
  BY <1>1, <1>3, <1>6, Zenon DEF IInv, SleepersAsleep
<1>12. NoMissedExit'
  BY <1>1, <1>2, <1>3, <1>5, <1>6, <1>7 DEF IInv, NoMissedExit, is_waiting_for_child
<1>13. CpuConsistent'
  BY <1>1, <1>2, <1>3, <1>6, <1>7 DEF IInv, CpuConsistent
<1>14. FramesConsistent'
  <2>1. at[c] = "body"
    BY <1>3, <1>4 DEF IInv, FramesConsistent
  <2> QED
    BY <1>1, <1>3, <1>4, <1>7, <2>1, ConstantsAssumption
    DEF IInv, FramesConsistent, Procs
<1> QED
  BY <1>9, <1>10, <1>11, <1>12, <1>13, <1>14, Zenon DEF IInv

\* The keyboard interrupt wakes at most the first waiter.
LEMMA KeyboardStep ==
    ASSUME IInv, keyboard_interrupt_handler
    PROVE  IInv'
<1>1. /\ ~fault
      /\ UNCHANGED <<parent, next_pid, listed, sleepers, cpu, stk, irq_on, ran,
                     saved, call, at, child_pid, next, fault>>
  BY Zenon DEF keyboard_interrupt_handler, InterruptTaken, threadVars
<1>2. keys' \in 0..MaxKeys
  <2>1. keys \in 0..MaxKeys /\ MaxKeys \in Nat /\ keys' \in keys..MaxKeys
    BY ConstantsAssumption, Zenon DEF keyboard_interrupt_handler, IInv, TypeOK
  <2> QED
    BY <2>1
<1>3. listed \subseteq Pids /\ listed \subseteq Procs /\ sleepers \subseteq listed
      /\ cpu \in Procs /\ pcb \in [Procs -> PcbType]
  BY ListedFacts, Zenon DEF IInv, TypeOK
<1>4. CASE UNCHANGED <<pcb, ready>>
  <2>1. TypeOK'
    BY <1>1, <1>2, <1>4, Zenon DEF IInv, TypeOK
  <2>2. RunQueueExact' /\ SleepersAsleep' /\ NoMissedExit'
    BY <1>1, <1>4, TablesKept, Zenon
  <2>3. CpuConsistent' /\ FramesConsistent'
    BY <1>1, <1>4, Zenon DEF IInv, CpuConsistent, FramesConsistent
  <2> QED
    BY <2>1, <2>2, <2>3, Zenon DEF IInv
<1>5. ASSUME NEW p \in KeyboardWaiters, pcb' = [pcb EXCEPT ![p] = wake(pcb[p])],
             ready' = Append(ready, p)
      PROVE  IInv'
  <2>1. p \in listed /\ pcb[p].state = "BLOCKED"
    BY <1>5, Zenon DEF KeyboardWaiters
  <2>2. /\ pcb' \in [Procs -> PcbType] /\ pcb'[p].state = "READY"
        /\ \A q \in Procs : q # p => pcb'[q] = pcb[q]
    BY <1>3, <1>5, <2>1, WakeResume, Zenon
  <2>3. ready' \in Seq(Pids) /\ Lists(ready', Runnable(listed, pcb) \cup {p})
    <3>1. ready \in Seq(Pids) /\ Lists(ready, Runnable(listed, pcb))
      BY Zenon DEF IInv, TypeOK, RunQueueExact
    <3>2. p \notin Runnable(listed, pcb) /\ p \in Pids
      BY <1>3, <2>1, Zenon DEF Runnable, is_ready
    <3> QED
      BY <1>5, <3>1, <3>2, AppendLists, Zenon
  <2>4. Runnable(listed', pcb') = Runnable(listed, pcb) \cup {p}
    BY <1>1, <1>3, <2>1, <2>2, Zenon DEF Runnable, is_ready
  <2>5. TypeOK'
    BY <1>1, <1>2, <2>2, <2>3, Zenon DEF IInv, TypeOK
  <2>6. RunQueueExact'
    BY <2>3, <2>4, Zenon DEF RunQueueExact
  <2>7. SleepersAsleep'
    BY <1>1, <1>3, <2>1, <2>2, Zenon DEF IInv, SleepersAsleep
  <2>8. NoMissedExit'
    BY <1>1, <1>3, <2>1, <2>2, NoNewWait, Zenon
  <2>9. cpu # p
    BY <1>1, <2>1, Zenon DEF IInv, CpuConsistent
  <2>10. CpuConsistent' /\ FramesConsistent'
    BY <1>1, <1>3, <2>2, <2>9, Zenon DEF IInv, CpuConsistent, FramesConsistent
  <2> QED
    BY <2>5, <2>6, <2>7, <2>8, <2>10, Zenon DEF IInv
<1> QED
  BY <1>4, <1>5, Zenon DEF keyboard_interrupt_handler

-----------------------------------------------------------------------------
(* Steps that choose the next process.                                     *)

\* Leaving the lock with the choice made: the caller is in the window.
LEMMA WindowStep ==
    ASSUME IInv, NEW p \in Pids, ~fault, stk = p, at[p] # "window",
           NEW x \in listed \cup {Idle}, x # p, EnterWindow(p, x),
           UNCHANGED <<parent, next_pid, listed, stk, saved, fault>>,
           pcb'[x].state = "RUNNING", x \notin sleepers'
    PROVE  /\ CpuConsistent' /\ FramesConsistent'
           /\ cpu' \in Procs /\ next' \in [Procs -> Procs]
           /\ at' \in [Procs -> Points] /\ call' = call /\ irq_on' = irq_on
<1>1. /\ p \in listed /\ p \in Procs /\ p < next_pid /\ saved[p] # p
      /\ next_pid \in Nat /\ x \in Procs
  BY RunningFacts, Constants, Zenon
<1>2. /\ cpu' = x /\ next' = [next EXCEPT ![p] = x]
      /\ at' = [at EXCEPT ![p] = "window"] /\ call' = call /\ irq_on' = irq_on
  BY Zenon DEF EnterWindow
<1>3. /\ next' \in [Procs -> Procs] /\ next'[p] = x
      /\ at' \in [Procs -> Points] /\ at'[p] = "window"
      /\ \A q \in Procs : q # p => at'[q] = at[q]
  BY <1>1, <1>2, Zenon DEF IInv, TypeOK, Points, NarrowPoints
<1>4. CpuConsistent'
  BY <1>1, <1>2, <1>3, Zenon DEF CpuConsistent
<1>5. FramesConsistent'
  <2>1. \A q \in Procs : saved[q] = q => q # p
    BY <1>1, Zenon
  <2>2. \A q \in Procs : q >= next_pid => q # p
    BY <1>1, ConstantsAssumption DEF Procs
  <2> QED
    BY <1>3, <2>1, <2>2, Zenon DEF IInv, FramesConsistent
<1> QED
  BY <1>1, <1>2, <1>3, <1>4, <1>5, Zenon

\* yield_blocked(): the caller either goes on at once or enters the window.
LEMMA BlockingStep ==
    ASSUME IInv, NEW p \in Pids, Blocking(p)
    PROVE  IInv' /\ StepKeeps /\ (pcb'[p].state = "SLEEPING" => p \in sleepers')
<1> DEFINE t == [pcb EXCEPT ![p] = wait_for(pcb[p], call[p])]
           heap == IF call[p] = "SLEEP" THEN sleepers \cup {p} ELSE sleepers
<1>1. /\ ~fault /\ stk = p /\ at[p] # "window" /\ call[p] \in Reasons
      /\ call[p] # "CHILD_PROCESS" /\ call[p] # "NONE"
      /\ yield_blocked(p)
  BY Zenon DEF Blocking, Running, Reasons
<1>2. UNCHANGED <<parent, next_pid, listed, stk, saved, child_pid, keys, fault>>
  BY <1>1, Zenon DEF yield_blocked
<1>3. /\ cpu = p /\ p \in listed /\ p \in Procs /\ p < next_pid /\ next_pid \in Nat
      /\ pcb[p].state \in {"RUNNING", "SLEEPING"} /\ p \notin sleepers
      /\ saved[p] # p /\ p # Idle
      /\ listed \subseteq Pids /\ listed \subseteq Procs /\ sleepers \subseteq listed
  BY <1>1, RunningFacts, Zenon
<1>4. /\ t \in [Procs -> PcbType]
      /\ t[p].state = (IF call[p] = "SLEEP" THEN "SLEEPING" ELSE "BLOCKED")
      /\ t[p].wait_reason = call[p]
      /\ \A q \in Procs : q # p => t[q] = pcb[q]
  <2>1. pcb \in [Procs -> PcbType] /\ pcb[p] \in PcbType
    BY <1>3, Zenon DEF IInv, TypeOK
  <2>2. /\ wait_for(pcb[p], call[p]) \in PcbType
        /\ wait_for(pcb[p], call[p]).state =
              (IF call[p] = "SLEEP" THEN "SLEEPING" ELSE "BLOCKED")
        /\ wait_for(pcb[p], call[p]).wait_reason = call[p]
    BY <1>1, <2>1, Zenon DEF wait_for, PcbType, States
  <2> QED
    BY <1>3, <2>1, <2>2, Zenon
<1>5. PICK order \in Orders(Due(t, heap)) :
        LET picked == PickFrom(ready \o order)
        IN  /\ PickAndActivate(t, heap, ready, order)
            /\ \/ /\ picked = p
                  /\ at' = [at EXCEPT ![p] = AfterAt(call[p])]
                  /\ call' = [call EXCEPT ![p] = AfterCall(call[p])]
                  /\ irq_on' = FlagAfter(p, call[p])
                  /\ UNCHANGED <<cpu, next>>
               \/ picked # p /\ EnterWindow(p, picked)
  BY <1>1, Zenon DEF yield_blocked
<1> DEFINE x == PickFrom(ready \o order)
<1>6. /\ heap \in SUBSET listed /\ \A q \in heap : t[q].state = "SLEEPING"
      /\ ready \in Seq(Pids) /\ Lists(ready, Runnable(listed, t))
  <2>1. \A q \in heap : q \in listed /\ t[q].state = "SLEEPING"
    BY <1>3, <1>4, Zenon DEF IInv, SleepersAsleep
  <2>2. Runnable(listed, t) = Runnable(listed, pcb)
    BY <1>3, <1>4, Zenon DEF Runnable, is_ready
  <2> QED
    BY <2>1, <2>2, Zenon DEF IInv, TypeOK, RunQueueExact
<1> HIDE DEF t, heap, x
<1>7. /\ x \in listed \cup {Idle} /\ x \in Procs
      /\ pcb' \in [Procs -> PcbType]
      /\ ready' \in Seq(Pids) /\ ran' \in 0..Slice
      /\ RunQueueExact' /\ SleepersAsleep'
      /\ x \notin sleepers' /\ sleepers' \subseteq heap
      /\ pcb'[x].state = "RUNNING"
      /\ \A q \in Procs : q # x =>
            pcb'[q] = t[q] \/ (q \in heap /\ pcb'[q].state = "READY")
      /\ \A q \in listed : t[q].state \in Gone => pcb'[q].state = t[q].state
      /\ \A q \in heap \ sleepers' : pcb'[q].state # "SLEEPING"
  <2>1. /\ x = PickFrom(ready \o order) /\ PickAndActivate(t, heap, ready, order)
        /\ order \in Orders(Due(t, heap)) /\ listed' = listed
        /\ Sound(t, listed, heap, ready)
    BY <1>2, <1>3, <1>4, <1>5, <1>6, Zenon DEF x, Sound
  <2> QED
    BY ONLY <2>1, PickAndActivateFacts
<1>8. NoMissedExit'
  BY <1>1, <1>2, <1>3, <1>4, <1>7, NoNewWait, Zenon
<1>9. StepKeeps /\ (pcb'[p].state = "SLEEPING" => p \in sleepers')
  <2>1. ExitKept /\ Collected
    BY <1>2, <1>3, <1>4, <1>7, Zenon DEF ExitKept, Collected, Gone
  <2>2. sleepers \subseteq heap /\ (call[p] = "SLEEP" => p \in heap)
    BY Zenon DEF heap
  <2>3. pcb'[p].state = "SLEEPING" => p \in sleepers'
    BY <1>3, <1>4, <1>7, <2>2, Zenon
  <2>4. \A q \in listed : pcb'[q].state = "SLEEPING" /\ q \notin sleepers' =>
           pcb[q].state = "SLEEPING" /\ q \notin sleepers
    BY <1>3, <1>4, <1>7, <2>2, <2>3, Zenon
  <2> QED
    BY <2>1, <2>3, <2>4, Zenon DEF StepKeeps
<1>10. CASE x = p
  <2>1. /\ at' = [at EXCEPT ![p] = AfterAt(call[p])]
        /\ call' = [call EXCEPT ![p] = AfterCall(call[p])]
        /\ irq_on' = FlagAfter(p, call[p])
        /\ UNCHANGED <<cpu, next>>
    BY <1>5, <1>10, Zenon DEF x
  <2>2. AfterAt(call[p]) \in {"loop", "body"} /\ AfterCall(call[p]) \in Reasons
    BY <1>1, Zenon DEF AfterAt, AfterCall, Reasons
  <2>3. /\ at' \in [Procs -> Points] /\ call' \in [Procs -> Reasons]
        /\ at'[p] # "window" /\ irq_on' \in BOOLEAN
        /\ \A q \in Procs : q # p => at'[q] = at[q]
    BY <1>3, <2>1, <2>2, Zenon DEF IInv, TypeOK, Points, FlagAfter
  <2>4. TypeOK'
    BY <1>2, <1>3, <1>6, <1>7, <2>1, <2>3, Zenon DEF IInv, TypeOK
  <2>5. CpuConsistent'
    <3>1. /\ cpu' = p /\ stk' = p /\ at'[p] # "window" /\ pcb'[p].state = "RUNNING"
          /\ p \notin sleepers' /\ saved'[p] # p /\ p \in listed'
      BY <1>1, <1>2, <1>3, <1>7, <1>10, <2>1, <2>3, Zenon
    <3> QED
      BY <3>1, Zenon DEF CpuConsistent
  <2>6. FramesConsistent'
    <3>1. ~(p >= next_pid)
      BY <1>3, ConstantsAssumption DEF Pids
    <3> QED
      BY <1>2, <2>3, <3>1, Zenon DEF IInv, FramesConsistent
  <2> QED
    BY <1>7, <1>8, <1>9, <2>4, <2>5, <2>6, Zenon DEF IInv
<1>11. CASE x # p
  <2>1. EnterWindow(p, x)
    BY <1>5, <1>11, Zenon DEF x
  <2>2. /\ CpuConsistent' /\ FramesConsistent'
        /\ cpu' \in Procs /\ next' \in [Procs -> Procs]
        /\ at' \in [Procs -> Points] /\ call' = call /\ irq_on' = irq_on
    BY <1>1, <1>2, <1>7, <1>11, <2>1, WindowStep, Zenon
  <2>3. TypeOK'
    BY <1>2, <1>3, <1>6, <1>7, <2>2, Zenon DEF IInv, TypeOK
  <2> QED
    BY <1>7, <1>8, <1>9, <2>2, <2>3, Zenon DEF IInv
<1> QED
  BY <1>10, <1>11, Zenon

\* The part of yield_to_child() that its outcomes share.
WaitFrame(p) ==
    /\ ~fault /\ stk = p /\ at[p] = "loop" /\ call[p] = "CHILD_PROCESS"
    /\ UNCHANGED <<parent, next_pid, listed, stk, saved, keys, fault>>

\* The thread returns from wait4() to its body.
LEMMA WaitReturnStep ==
    ASSUME IInv, NEW p \in Pids, WaitFrame(p), ReturnFromCall(p), irq_on' = TRUE,
           UNCHANGED <<sleepers, cpu>>, pcb'[p].state = "RUNNING"
    PROVE  /\ CpuConsistent' /\ FramesConsistent' /\ irq_on' \in BOOLEAN
           /\ at' \in [Procs -> Points] /\ call' \in [Procs -> Reasons]
           /\ child_pid' \in [Procs -> Pids \cup {AnyChild}] /\ next' = next
<1>1. /\ ~fault /\ stk = p /\ at[p] = "loop" /\ call[p] = "CHILD_PROCESS"
      /\ UNCHANGED <<parent, next_pid, listed, stk, saved, keys, fault>>
  BY Zenon DEF WaitFrame, Running
<1>2. /\ cpu = p /\ p \in listed /\ p \in Procs /\ p < next_pid /\ next_pid \in Nat
      /\ pcb[p].state = "RUNNING" /\ p \notin sleepers
      /\ saved[p] # p /\ p # Idle
      /\ listed \subseteq Pids /\ listed \subseteq Procs /\ sleepers \subseteq listed
  BY <1>1, RunningFacts, Zenon
<1>3. /\ at' = [at EXCEPT ![p] = "body"] /\ call' = [call EXCEPT ![p] = "NONE"]
      /\ child_pid' = [child_pid EXCEPT ![p] = AnyChild] /\ next' = next
  BY Zenon DEF ReturnFromCall
<1>4. /\ at' \in [Procs -> Points] /\ call' \in [Procs -> Reasons]
      /\ child_pid' \in [Procs -> Pids \cup {AnyChild}] /\ at'[p] = "body"
      /\ \A q \in Procs : q # p => at'[q] = at[q]
  BY <1>2, <1>3, Zenon DEF IInv, TypeOK, Points, Reasons
<1>5. CpuConsistent'
  BY <1>1, <1>2, <1>4, Zenon DEF IInv, CpuConsistent
<1>6. FramesConsistent'
  BY <1>1, <1>2, <1>4, ConstantsAssumption, Zenon DEF IInv, FramesConsistent, Procs
<1> QED
  BY <1>3, <1>4, <1>5, <1>6, Zenon

\* wait4() with no matching child.
LEMMA WaitNone ==
    ASSUME IInv, NEW p \in Pids, WaitFrame(p), ReturnFromCall(p), irq_on' = TRUE,
           UNCHANGED <<pcb, ready, sleepers, cpu, ran>>
    PROVE  IInv' /\ StepKeeps
<1>1. /\ ~fault /\ stk = p /\ at[p] = "loop" /\ call[p] = "CHILD_PROCESS"
      /\ UNCHANGED <<parent, next_pid, listed, stk, saved, keys, fault>>
  BY Zenon DEF WaitFrame, Running
<1>2. /\ cpu = p /\ p \in listed /\ p \in Procs /\ p < next_pid /\ next_pid \in Nat
      /\ pcb[p].state = "RUNNING" /\ p \notin sleepers
      /\ saved[p] # p /\ p # Idle
      /\ listed \subseteq Pids /\ listed \subseteq Procs /\ sleepers \subseteq listed
  BY <1>1, RunningFacts, Zenon
<1>3. /\ CpuConsistent' /\ FramesConsistent' /\ irq_on' \in BOOLEAN
      /\ at' \in [Procs -> Points] /\ call' \in [Procs -> Reasons]
      /\ child_pid' \in [Procs -> Pids \cup {AnyChild}] /\ next' = next
  BY <1>2, WaitReturnStep, Zenon
<1>4. RunQueueExact' /\ SleepersAsleep' /\ NoMissedExit'
  BY <1>1, TablesKept, Zenon
<1>5. TypeOK'
  BY <1>1, <1>3, Zenon DEF IInv, TypeOK
<1>6. StepKeeps
  BY <1>1, Zenon DEF StepKeeps, ExitKept, Collected
<1> QED
  BY <1>3, <1>4, <1>5, <1>6, Zenon DEF IInv

\* wait4() reaps a child that has exited.
LEMMA WaitReaps ==
    ASSUME IInv, NEW p \in Pids, WaitFrame(p), NEW misread \in SUBSET Dangling,
           NEW child \in Zombies(Matches(p, child_pid[p], misread)),
           pcb' = [pcb EXCEPT ![child] = kill(@), ![p] = resume(@)],
           ran' = 0, ReturnFromCall(p), irq_on' = TRUE, UNCHANGED <<ready, sleepers, cpu>>
    PROVE  IInv' /\ StepKeeps
<1>1. /\ ~fault /\ stk = p /\ at[p] = "loop" /\ call[p] = "CHILD_PROCESS"
      /\ UNCHANGED <<parent, next_pid, listed, stk, saved, keys, fault>>
  BY Zenon DEF WaitFrame, Running
<1>2. /\ cpu = p /\ p \in listed /\ p \in Procs /\ p < next_pid /\ next_pid \in Nat
      /\ pcb[p].state = "RUNNING" /\ p \notin sleepers
      /\ saved[p] # p /\ p # Idle
      /\ listed \subseteq Pids /\ listed \subseteq Procs /\ sleepers \subseteq listed
  BY <1>1, RunningFacts, Zenon
<1>3. child \in listed /\ pcb[child].state = "ZOMBIE" /\ child # p /\ child \in Procs
  BY <1>2, Zenon DEF Zombies, Matches
<1>4. pcb \in [Procs -> PcbType] /\ pcb[child] \in PcbType
  BY <1>3, Zenon DEF IInv, TypeOK
<1>5. kill(pcb[child]) \in PcbType /\ kill(pcb[child]).state = "DEAD"
  BY <1>4, Zenon DEF kill, PcbType, States
<1>6. /\ pcb' \in [Procs -> PcbType] /\ pcb'[p].state = "RUNNING"
      /\ pcb'[child].state = "DEAD"
      /\ \A q \in Procs : q # p /\ q # child => pcb'[q] = pcb[q]
  BY <1>2, <1>3, <1>4, <1>5, WakeResume, Zenon
<1>7. /\ CpuConsistent' /\ FramesConsistent' /\ irq_on' \in BOOLEAN
      /\ at' \in [Procs -> Points] /\ call' \in [Procs -> Reasons]
      /\ child_pid' \in [Procs -> Pids \cup {AnyChild}] /\ next' = next
  BY WaitReturnStep, <1>6, Zenon
<1>8. RunQueueExact'
  <2>1. Runnable(listed', pcb') = Runnable(listed, pcb)
    BY <1>1, <1>2, <1>3, <1>6, Zenon DEF Runnable, is_ready
  <2> QED
    BY <2>1, Zenon DEF IInv, RunQueueExact
<1>9. SleepersAsleep'
  <2>1. \A q \in sleepers : q # p /\ q # child /\ q \in Procs
    BY <1>2, <1>3, Zenon DEF IInv, SleepersAsleep
  <2> QED
    BY <1>1, <1>6, <2>1, Zenon DEF IInv, SleepersAsleep
<1>10. NoMissedExit'
  BY <1>1, <1>2, <1>6, NoNewWait, Zenon
<1>11. ran' \in 0..Slice
  BY ConstantsAssumption
<1>12. TypeOK'
  BY <1>1, <1>6, <1>7, <1>11, Zenon DEF IInv, TypeOK
<1>13. StepKeeps
  <2>1. \A q \in listed : pcb'[q] = pcb[q] \/ q = p \/ q = child
    BY <1>2, <1>6
  <2>2. ExitKept
    BY <1>1, <1>2, <1>3, <1>6, <2>1, Zenon DEF ExitKept
  <2>3. parent[child] = p \/ parent[child] \notin listed
    BY <1>3, Zenon DEF Zombies, Matches, Dangling
  <2>4. Collected
    BY <1>1, <1>2, <1>3, <1>6, <2>1, <2>3, Zenon DEF Collected
  <2> QED
    BY <1>1, <1>2, <1>3, <1>6, <2>1, <2>2, <2>4, Zenon DEF StepKeeps
<1> QED
  BY <1>7, <1>8, <1>9, <1>10, <1>12, <1>13, Zenon DEF IInv

\* wait4() blocks: none of the children has exited.
LEMMA WaitBlocks ==
    ASSUME IInv, NEW p \in Pids, WaitFrame(p), NEW misread,
           Zombies(Matches(p, child_pid[p], misread)) = {},
           NEW t, t = [pcb EXCEPT ![p] = wait_for_child(pcb[p], child_pid[p])],
           NEW order \in Orders(Due(t, sleepers)),
           PickAndActivate(t, sleepers, ready, order),
           EnterWindow(p, PickFrom(ready \o order)), UNCHANGED child_pid
    PROVE  IInv' /\ StepKeeps
<1>1. /\ ~fault /\ stk = p /\ at[p] = "loop" /\ call[p] = "CHILD_PROCESS"
      /\ UNCHANGED <<parent, next_pid, listed, stk, saved, keys, fault>>
  BY Zenon DEF WaitFrame, Running
<1>2. /\ cpu = p /\ p \in listed /\ p \in Procs /\ p < next_pid /\ next_pid \in Nat
      /\ pcb[p].state = "RUNNING" /\ p \notin sleepers
      /\ saved[p] # p /\ p # Idle
      /\ listed \subseteq Pids /\ listed \subseteq Procs /\ sleepers \subseteq listed
  BY <1>1, RunningFacts, Zenon
<1> DEFINE x == PickFrom(ready \o order)
<1>3. /\ t \in [Procs -> PcbType] /\ t[p].state = "BLOCKED"
      /\ t[p].wait_pid = child_pid[p]
      /\ \A q \in Procs : q # p => t[q] = pcb[q]
  <2>1. pcb \in [Procs -> PcbType] /\ pcb[p] \in PcbType
        /\ child_pid[p] \in Pids \cup {AnyChild}
    BY <1>2, Zenon DEF IInv, TypeOK
  <2>2. /\ wait_for_child(pcb[p], child_pid[p]) \in PcbType
        /\ wait_for_child(pcb[p], child_pid[p]).state = "BLOCKED"
        /\ wait_for_child(pcb[p], child_pid[p]).wait_pid = child_pid[p]
    BY <2>1, Zenon DEF wait_for_child, wait_for, PcbType, States, Reasons
  <2> QED
    BY <1>2, <2>1, <2>2, Zenon
<1>4. /\ sleepers \in SUBSET listed /\ \A q \in sleepers : t[q].state = "SLEEPING"
      /\ ready \in Seq(Pids) /\ Lists(ready, Runnable(listed, t))
  <2>1. \A q \in sleepers : t[q].state = "SLEEPING"
    BY <1>2, <1>3, Zenon DEF IInv, SleepersAsleep
  <2>2. Runnable(listed, t) = Runnable(listed, pcb)
    BY <1>2, <1>3, Zenon DEF Runnable, is_ready
  <2> QED
    BY <1>2, <2>1, <2>2, Zenon DEF IInv, TypeOK, RunQueueExact
<1> HIDE DEF x
<1>5. /\ x \in listed \cup {Idle} /\ x \in Procs
      /\ x # Idle => is_ready(t[x]) \/ x \in sleepers
      /\ pcb' \in [Procs -> PcbType]
      /\ ready' \in Seq(Pids) /\ ran' \in 0..Slice
      /\ RunQueueExact' /\ SleepersAsleep'
      /\ x \notin sleepers' /\ sleepers' \subseteq sleepers
      /\ pcb'[x].state = "RUNNING"
      /\ \A q \in Procs : q # x =>
            pcb'[q] = t[q] \/ (q \in sleepers /\ pcb'[q].state = "READY")
      /\ \A q \in listed : t[q].state \in Gone => pcb'[q].state = t[q].state
      /\ \A q \in sleepers \ sleepers' : pcb'[q].state # "SLEEPING"
  <2>1. /\ x = PickFrom(ready \o order) /\ PickAndActivate(t, sleepers, ready, order)
        /\ order \in Orders(Due(t, sleepers)) /\ listed' = listed
        /\ Sound(t, listed, sleepers, ready)
    BY <1>1, <1>2, <1>3, <1>4, Zenon DEF x, Sound
  <2> QED
    BY ONLY <2>1, PickAndActivateFacts
<1>6. x # p
  BY <1>2, <1>3, <1>5, Zenon DEF is_ready
<1>7. /\ CpuConsistent' /\ FramesConsistent'
      /\ cpu' \in Procs /\ next' \in [Procs -> Procs]
      /\ at' \in [Procs -> Points] /\ call' = call /\ irq_on' = irq_on
  <2>1. EnterWindow(p, x) /\ at[p] # "window"
    BY <1>1, Zenon DEF x
  <2> QED
    BY <1>1, <1>5, <1>6, <2>1, WindowStep, Zenon
<1>8. TypeOK'
  BY <1>1, <1>2, <1>5, <1>7, Zenon DEF IInv, TypeOK
<1>9. NoMissedExit'
  <2> SUFFICES ASSUME NEW w \in listed, NEW q \in listed,
                      pcb'[w].state = "BLOCKED", is_waiting_for_child(pcb'[w], q),
                      parent[q] = w
               PROVE  pcb'[q].state # "ZOMBIE"
    BY <1>1 DEF NoMissedExit, is_waiting_for_child
  <2>1. pcb'[w] = t[w]
    BY <1>2, <1>5, Zenon
  <2>2. pcb'[q].state = "ZOMBIE" => pcb[q].state = "ZOMBIE"
    BY <1>2, <1>3, <1>5, Zenon
  <2>3. CASE w = p
    <3>1. q \in Matches(p, child_pid[p], misread)
      BY <1>2, <1>3, <2>1, <2>3, Zenon DEF Matches, is_waiting_for_child
    <3> QED
      BY <2>2, <3>1, Zenon DEF Zombies
  <2>4. CASE w # p
    BY <1>2, <1>3, <2>1, <2>2, <2>4 DEF IInv, NoMissedExit
  <2> QED
    BY <2>3, <2>4, Zenon
<1>10. StepKeeps
  <2>1. ExitKept /\ Collected
    BY <1>1, <1>2, <1>3, <1>5, Zenon DEF ExitKept, Collected, Gone
  <2>2. \A q \in listed : pcb'[q].state = "SLEEPING" /\ q \notin sleepers' =>
           pcb[q].state = "SLEEPING" /\ q \notin sleepers
    BY <1>2, <1>3, <1>5, Zenon
  <2> QED
    BY <2>1, <2>2, Zenon DEF StepKeeps
<1> QED
  BY <1>5, <1>7, <1>8, <1>9, <1>10, Zenon DEF IInv

\* yield_to_child(): no child, an exited child, or block.
LEMMA WaitStep ==
    ASSUME IInv, NEW p \in Pids, yield_to_child(p)
    PROVE  IInv' /\ StepKeeps
<1>1. WaitFrame(p)
  BY Zenon DEF yield_to_child, Running, WaitFrame
<1>2. PICK misread \in SUBSET Dangling :
         LET found == Matches(p, child_pid[p], misread)
         IN  \/ /\ found = {}
                /\ ReturnFromCall(p) /\ irq_on' = TRUE
                /\ UNCHANGED <<pcb, ready, sleepers, cpu, ran>>
             \/ \E child \in Zombies(found) :
                /\ \A q \in Zombies(found) : child <= q
                /\ pcb' = [pcb EXCEPT ![child] = kill(@), ![p] = resume(@)]
                /\ ran' = 0
                /\ ReturnFromCall(p) /\ irq_on' = TRUE
                /\ UNCHANGED <<ready, sleepers, cpu>>
             \/ /\ found # {} /\ Zombies(found) = {}
                /\ LET blocked == [pcb EXCEPT ![p] = wait_for_child(@, child_pid[p])]
                   IN  \E order \in Orders(Due(blocked, sleepers)) :
                         /\ PickAndActivate(blocked, sleepers, ready, order)
                         /\ EnterWindow(p, PickFrom(ready \o order))
                /\ UNCHANGED child_pid
  BY Zenon DEF yield_to_child
<1> DEFINE found == Matches(p, child_pid[p], misread)
           t == [pcb EXCEPT ![p] = wait_for_child(pcb[p], child_pid[p])]
<1>3. CASE ReturnFromCall(p) /\ irq_on' = TRUE /\ UNCHANGED <<pcb, ready, sleepers, cpu, ran>>
  BY <1>1, <1>3, WaitNone, Zenon
<1>4. ASSUME NEW child \in Zombies(found),
             pcb' = [pcb EXCEPT ![child] = kill(@), ![p] = resume(@)],
             ran' = 0, ReturnFromCall(p), irq_on' = TRUE, UNCHANGED <<ready, sleepers, cpu>>
      PROVE  IInv' /\ StepKeeps
  BY <1>1, <1>4, WaitReaps, Zenon
<1>5. ASSUME Zombies(found) = {}, NEW order \in Orders(Due(t, sleepers)),
             PickAndActivate(t, sleepers, ready, order),
             EnterWindow(p, PickFrom(ready \o order)), UNCHANGED child_pid
      PROVE  IInv' /\ StepKeeps
  BY <1>1, <1>5, WaitBlocks, Zenon
<1> QED
  BY <1>2, <1>3, <1>4, <1>5, Zenon

-----------------------------------------------------------------------------
(* Steps after which the thread never runs again.                          *)

\* yield_dead() and yield_zombie(), from a sound process table t.
LEMMA LeaveStep ==
    ASSUME IInv, ~fault, NEW t \in [Procs -> PcbType], NEW parents \in SUBSET listed,
           LeaveForGood(t, parents),
           Runnable(listed, t) = Runnable(listed, pcb) \cup parents,
           Runnable(listed, pcb) \cap parents = {},
           \A q \in sleepers : t[q].state = "SLEEPING",
           \A q \in listed : t[q].state = "SLEEPING" => pcb[q].state = "SLEEPING",
           \A q \in listed : pcb[q].state \in Gone => t[q].state = pcb[q].state,
           \A w, q \in listed :
              t[w].state = "BLOCKED" /\ is_waiting_for_child(t[w], q) /\ parent[q] = w
              => t[q].state # "ZOMBIE"
    PROVE  /\ IInv' /\ StepKeeps /\ pcb'[stk'].state = "RUNNING"
           /\ \A q \in listed : t[q].state \in Gone => pcb'[q].state \in Gone
<1>1. UNCHANGED <<parent, next_pid, listed, call, at, child_pid, next, keys>>
  BY Zenon DEF LeaveForGood, threadVars
<1>2. PICK first \in ListOrder(parents), order \in Orders(Due(t, sleepers)) :
         LET picked == PickFrom(ready \o first \o order)
         IN  /\ PickAndActivate(t, sleepers, ready \o first, order)
             /\ cpu' = picked
             /\ permanent_context_switch(picked)
  BY Zenon DEF LeaveForGood
<1> DEFINE x == PickFrom(ready \o first \o order)
<1>3. /\ listed \subseteq Pids /\ listed \subseteq Procs /\ next_pid \in Nat
      /\ sleepers \subseteq listed
  BY ListedFacts, Zenon
<1>4. /\ ready \o first \in Seq(Pids)
      /\ Lists(ready \o first, Runnable(listed, t))
  <2>1. ready \in Seq(Pids) /\ Lists(ready, Runnable(listed, pcb))
    BY Zenon DEF IInv, TypeOK, RunQueueExact
  <2>2. first \in Orders(parents)
    BY Zenon DEF ListOrder
  <2>3. first \in Seq(Pids) /\ Lists(first, parents)
    BY <1>3, <2>2, OrdersAreLists, Zenon
  <2>4. /\ ready \o first \in Seq(Pids)
        /\ Lists(ready \o first, Runnable(listed, pcb) \cup parents)
    BY <2>1, <2>3, ConcatLists, Zenon
  <2> QED
    BY <2>4, Zenon
<1>5. /\ x \in listed \cup {Idle} /\ x \in Procs
      /\ pcb' \in [Procs -> PcbType]
      /\ ready' \in Seq(Pids) /\ ran' \in 0..Slice
      /\ RunQueueExact' /\ SleepersAsleep'
      /\ x \notin sleepers' /\ sleepers' \subseteq sleepers
      /\ pcb'[x].state = "RUNNING"
      /\ \A q \in Procs : q # x =>
            pcb'[q] = t[q] \/ (q \in sleepers /\ pcb'[q].state = "READY")
      /\ \A q \in listed : t[q].state \in Gone => pcb'[q].state = t[q].state
      /\ \A q \in sleepers \ sleepers' : pcb'[q].state # "SLEEPING"
  <2> DEFINE queue == ready \o first
  <2>1. queue \in Seq(Pids) /\ Lists(queue, Runnable(listed, t))
    BY <1>4, Zenon
  <2>2. /\ PickAndActivate(t, sleepers, queue, order) /\ x = PickFrom(queue \o order)
        /\ order \in Orders(Due(t, sleepers))
    BY <1>2, Zenon
  <2>3. sleepers \in SUBSET listed /\ UNCHANGED listed
    BY <1>1, <1>3, Zenon
  <2>4. Sound(t, listed, sleepers, queue)
    BY <1>3, <2>1, <2>3, Zenon DEF Sound
  <2> HIDE DEF queue, x
  <2> QED
    BY ONLY <2>2, <2>3, <2>4, PickAndActivateFacts
<1>6. /\ cpu' = x /\ stk' = x /\ irq_on' = TRUE /\ fault' = (saved[x] # x)
      /\ saved' = [saved EXCEPT ![x] = None]
  BY <1>2, Zenon DEF permanent_context_switch
<1> HIDE DEF x
<1>7. /\ saved' \in [Procs -> Procs \cup {None}] /\ saved'[x] = None
      /\ \A q \in Procs : q # x => saved'[q] = saved[q]
  BY <1>5, <1>6, Zenon DEF IInv, TypeOK
<1>8. TypeOK'
  BY <1>1, <1>3, <1>5, <1>6, <1>7, Zenon DEF IInv, TypeOK
<1>9. NoMissedExit'
  <2> SUFFICES ASSUME NEW w \in listed, NEW q \in listed,
                      pcb'[w].state = "BLOCKED", is_waiting_for_child(pcb'[w], q),
                      parent[q] = w
               PROVE  pcb'[q].state # "ZOMBIE"
    BY <1>1 DEF NoMissedExit, is_waiting_for_child
  <2>1. pcb'[w] = t[w]
    BY <1>3, <1>5, Zenon
  <2>2. pcb'[q].state = "ZOMBIE" => t[q].state = "ZOMBIE"
    BY <1>3, <1>5, Zenon
  <2> QED
    BY <2>1, <2>2, Zenon
<1>10. CpuConsistent'
  BY <1>1, <1>5, <1>6, <1>7, SwitchConsistent, Zenon
<1>11. FramesConsistent'
  BY <1>1, <1>5, <1>7, Constants DEF IInv, FramesConsistent
<1>12. StepKeeps
  <2>1. ExitKept /\ Collected
    BY <1>1, <1>5, Zenon DEF ExitKept, Collected, Gone
  <2>2. \A q \in listed : pcb'[q].state = "SLEEPING" /\ q \notin sleepers' =>
           pcb[q].state = "SLEEPING" /\ q \notin sleepers
    BY <1>3, <1>5, Zenon
  <2> QED
    BY <2>1, <2>2, Zenon DEF StepKeeps
<1>13. \A q \in listed : t[q].state \in Gone => pcb'[q].state \in Gone
  BY <1>5, Zenon
<1> QED
  BY <1>5, <1>6, <1>8, <1>9, <1>10, <1>11, <1>12, <1>13, Zenon DEF IInv

\* A kthread that returns from its entry function leaves for good.
LEMMA DeadStep ==
    ASSUME IInv, NEW p \in Pids, yield_dead(p)
    PROVE  /\ IInv' /\ StepKeeps /\ pcb'[stk'].state = "RUNNING"
           /\ pcb'[p].state \in Gone
<1> DEFINE t == [pcb EXCEPT ![p] = kill(pcb[p])]
<1>1. ~fault /\ stk = p /\ at[p] = "body" /\ LeaveForGood(t, {})
  BY Zenon DEF yield_dead, Running
<1>2. /\ p \in listed /\ p \in Procs /\ pcb[p].state = "RUNNING" /\ p \notin sleepers
      /\ listed \subseteq Procs /\ sleepers \subseteq listed
  BY <1>1, RunningFacts, Zenon
<1>3. kill(pcb[p]) \in PcbType /\ kill(pcb[p]).state = "DEAD"
  BY <1>2, Zenon DEF IInv, TypeOK, kill, PcbType, States
<1>4. /\ t \in [Procs -> PcbType] /\ t[p].state = "DEAD"
      /\ \A q \in Procs : q # p => t[q] = pcb[q]
  BY <1>2, <1>3, Zenon DEF IInv, TypeOK
<1> HIDE DEF t
<1>5. Runnable(listed, t) = Runnable(listed, pcb) \cup {}
  BY <1>2, <1>4, Zenon DEF Runnable, is_ready
<1>6. \A q \in sleepers : t[q].state = "SLEEPING"
  BY <1>2, <1>4, Zenon DEF IInv, SleepersAsleep
<1>7. \A w, q \in listed :
         t[w].state = "BLOCKED" /\ is_waiting_for_child(t[w], q) /\ parent[q] = w
         => t[q].state # "ZOMBIE"
  BY <1>2, <1>4, Zenon DEF IInv, NoMissedExit
<1>8. \A q \in listed :
         /\ pcb[q].state \in Gone => t[q].state = pcb[q].state
         /\ t[q].state = "SLEEPING" => pcb[q].state = "SLEEPING"
  BY <1>2, <1>4, Zenon DEF Gone
<1>9. t[p].state \in Gone
  BY <1>4, Zenon DEF Gone
<1> QED
  BY <1>1, <1>2, <1>4, <1>5, <1>6, <1>7, <1>8, <1>9, LeaveStep, Zenon

\* sys_exit(): every waiter whose argument matches is woken in the same step
\* that makes the process a ZOMBIE.
LEMMA ExitStep ==
    ASSUME IInv, NEW p \in Pids, sys_exit(p)
    PROVE  /\ IInv' /\ StepKeeps /\ pcb'[stk'].state = "RUNNING"
           /\ pcb'[p].state \in Gone
<1> DEFINE z == [pcb EXCEPT ![p] = zombify(pcb[p])]
           parents == wake_parents(z, p)
           t == WakeAll(z, parents)
<1>1. ~fault /\ stk = p /\ at[p] = "body" /\ LeaveForGood(t, parents)
  BY Zenon DEF sys_exit, Running
<1>2. /\ p \in listed /\ p \in Procs /\ pcb[p].state = "RUNNING" /\ p \notin sleepers
      /\ listed \subseteq Procs /\ sleepers \subseteq listed
  BY <1>1, RunningFacts, Zenon
<1>3. zombify(pcb[p]) \in PcbType /\ zombify(pcb[p]).state = "ZOMBIE"
  BY <1>2, Zenon DEF IInv, TypeOK, zombify, PcbType, States
<1>4. /\ z \in [Procs -> PcbType] /\ z[p].state = "ZOMBIE"
      /\ \A q \in Procs : q # p => z[q] = pcb[q]
  BY <1>2, <1>3, Zenon DEF IInv, TypeOK
<1> HIDE DEF z
<1>5. /\ parents \subseteq listed
      /\ \A q \in listed : q \in parents <=>
            z[q].state = "BLOCKED" /\ is_waiting_for_child(z[q], p)
  BY Zenon DEF wake_parents
<1> HIDE DEF parents
<1>6. /\ t \in [Procs -> PcbType]
      /\ \A q \in Procs : q \in parents => t[q].state = "READY"
      /\ \A q \in Procs : q \notin parents => t[q] = z[q]
  <2>1. \A q \in Procs : t[q] = IF q \in parents THEN wake(z[q]) ELSE z[q]
    BY Zenon DEF WakeAll
  <2>2. t \in [Procs -> PcbType]
    BY <1>4, WakeResume, Zenon DEF WakeAll
  <2>3. ASSUME NEW q \in Procs, q \in parents PROVE t[q].state = "READY"
    <3>1. t[q] = wake(z[q]) /\ wake(z[q]).state = "READY"
      BY <2>1, <2>3, WakeResume, Zenon
    <3> QED
      BY <3>1, Zenon
  <2> QED
    BY <2>1, <2>2, <2>3, Zenon
<1> HIDE DEF t
<1>7. Runnable(listed, t) = Runnable(listed, pcb) \cup parents
  BY <1>2, <1>4, <1>5, <1>6 DEF Runnable, is_ready
<1>8. Runnable(listed, pcb) \cap parents = {}
  BY <1>2, <1>4, <1>5, Zenon DEF Runnable, is_ready
<1>9. \A q \in sleepers : t[q].state = "SLEEPING"
  BY <1>2, <1>4, <1>5, <1>6 DEF IInv, SleepersAsleep
<1>10. ASSUME NEW w \in listed, NEW q \in listed, t[w].state = "BLOCKED",
              is_waiting_for_child(t[w], q), parent[q] = w
       PROVE  t[q].state # "ZOMBIE"
  <2>1. w \notin parents /\ w # p /\ t[w] = pcb[w] /\ z[w] = pcb[w]
    BY <1>2, <1>4, <1>6, <1>10, Zenon
  <2>2. q # p
    BY <1>5, <1>10, <2>1, Zenon
  <2>3. pcb[q].state # "ZOMBIE"
    BY <1>10, <2>1, Zenon DEF IInv, NoMissedExit
  <2> QED
    BY <1>2, <1>4, <1>6, <2>2, <2>3, Zenon
<1>11. \A q \in listed :
          /\ pcb[q].state \in Gone => t[q].state = pcb[q].state
          /\ t[q].state = "SLEEPING" => pcb[q].state = "SLEEPING"
  BY <1>2, <1>4, <1>5, <1>6, Zenon DEF Gone
<1>12. t[p].state \in Gone
  BY <1>2, <1>4, <1>5, <1>6, Zenon DEF Gone
<1> QED
  BY <1>1, <1>2, <1>5, <1>6, <1>7, <1>8, <1>9, <1>10, <1>11, <1>12, LeaveStep

=============================================================================
