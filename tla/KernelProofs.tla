----------------------------- MODULE KernelProofs -----------------------------
(***************************************************************************)
(* Proofs about the parts of the kernel that stand on their own: kmutex,   *)
(* for any number of threads; page frames, for every memory map, limit and *)
(* number of frames; the timer, for every TSC frequency; and the routing   *)
(* of the keyboard's interrupt, for every table of the firmware.           *)
(***************************************************************************)
EXTENDS Kmutex, Pmm, ApicTimer, Madt, FiniteSetTheorems, WellFoundedInduction, TLAPS

-----------------------------------------------------------------------------
(* Mutual exclusion.                                                       *)

\* The flag is 0 exactly while one thread is between lock() and unlock().
HeldByOne ==
    /\ at \in [Threads -> Places] /\ lock \in {0, 1}
    /\ lock = 1 => \A t \in Threads : at[t] # "in"
    /\ lock = 0 => \E t \in Threads : at[t] = "in" /\ \A u \in Threads : at[u] = "in" => u = t

\* Who owns the mutex, from the places of the threads.
LEMMA OwnerFacts ==
    ASSUME HeldByOne
    PROVE  /\ lock = 1 => owner = NoOne
           /\ \A t \in Threads : at[t] = "in" => owner = t
           /\ \A t \in Threads : t # NoOne
<1>1. \A t \in Threads : t # NoOne
  BY KmutexAssumption DEF Threads, NoOne, Idle
<1>2. lock = 1 => owner = NoOne
  BY Zenon DEF HeldByOne, owner
<1>3. ASSUME NEW t \in Threads, at[t] = "in"
      PROVE  owner = t
  <2>1. \A u \in Threads : at[u] = "in" => u = t
    BY <1>3, Zenon DEF HeldByOne
  <2>2. owner \in Threads /\ at[owner] = "in"
    BY <1>3, Zenon DEF owner
  <2> QED
    BY <2>1, <2>2, Zenon
<1> QED
  BY <1>1, <1>2, <1>3, Zenon

\* A thread moves between places other than "in": the mutex does not change.
LEMMA OtherMove ==
    ASSUME HeldByOne, UNCHANGED lock, NEW t \in Threads, NEW to \in Places,
           at[t] # "in", to # "in", at' = [at EXCEPT ![t] = to]
    PROVE  HeldByOne' /\ owner' = owner
<1>1. /\ at' \in [Threads -> Places]
      /\ \A u \in Threads : at'[u] = "in" <=> at[u] = "in"
  BY Zenon DEF HeldByOne
<1>2. HeldByOne'
  BY <1>1, Zenon DEF HeldByOne
<1>3. (\E u \in Threads : at'[u] = "in") <=> (\E u \in Threads : at[u] = "in")
  BY <1>1, Zenon
<1>4. owner' = owner
  <2>1. CASE \E u \in Threads : at[u] = "in"
    <3>1. PICK u \in Threads : at[u] = "in" /\ at'[u] = "in"
      BY <1>1, <2>1, Zenon
    <3>2. owner = u
      BY <3>1, OwnerFacts, Zenon
    <3>3. owner' \in Threads /\ at'[owner'] = "in"
      BY <3>1, Zenon DEF owner
    <3>4. at[owner'] = "in"
      BY <1>1, <3>3, Zenon
    <3> QED
      BY <3>2, <3>3, <3>4, OwnerFacts, Zenon
  <2>2. CASE ~(\E u \in Threads : at[u] = "in")
    BY <1>3, <2>2, Zenon DEF owner
  <2> QED
    BY <2>1, <2>2
<1> QED
  BY <1>2, <1>4

\* Every step keeps HeldByOne and is a step of the abstract mutex or none.
LEMMA MutexStep ==
    ASSUME HeldByOne, [Next]_vars
    PROVE  HeldByOne' /\ [M!MutexNext]_owner
<1>1. ASSUME UNCHANGED <<lock, at>>
      PROVE  HeldByOne' /\ owner' = owner
  BY <1>1, Zenon DEF HeldByOne, owner
<1>2. ASSUME NEW t \in Threads, Exchange(t)
      PROVE  HeldByOne' /\ [M!MutexNext]_owner
  <2>1. CASE lock = 1
    <3>1. /\ lock' = 0 /\ at' = [at EXCEPT ![t] = "in"]
          /\ \A u \in Threads : at[u] # "in"
      BY <1>2, <2>1, Zenon DEF Exchange, Goto, HeldByOne
    <3>2. /\ at' \in [Threads -> Places] /\ at'[t] = "in"
          /\ \A u \in Threads : at'[u] = "in" => u = t
      BY <3>1, Zenon DEF HeldByOne, Places
    <3>3. HeldByOne'
      BY <3>1, <3>2, SMT DEF HeldByOne
    <3>4. owner' \in Threads /\ at'[owner'] = "in"
      BY <3>2, Zenon DEF owner
    <3>5. owner = NoOne /\ owner' = t
      BY <2>1, <3>2, <3>4, OwnerFacts, Zenon
    <3> QED
      BY <3>3, <3>5, Zenon DEF M!MutexNext, M!Acquire
  <2>2. CASE lock = 0
    <3>1. UNCHANGED lock /\ at' = [at EXCEPT ![t] = "failed"] /\ at[t] # "in"
      BY <1>2, <2>2 DEF Exchange, Goto
    <3> QED
      BY <3>1, OtherMove, Zenon DEF Places
  <2> QED
    BY <2>1, <2>2 DEF HeldByOne
<1>3. ASSUME NEW t \in Threads, Store(t)
      PROVE  HeldByOne' /\ [M!MutexNext]_owner
  <2>1. lock' = 1 /\ at[t] = "in" /\ at' = [at EXCEPT ![t] = "stored"]
    BY <1>3, Zenon DEF Store, Moves, Goto
  <2>2. /\ at' \in [Threads -> Places]
        /\ \A u \in Threads : at'[u] # "in"
    <3>1. \A u \in Threads : at[u] = "in" => u = t
      BY <2>1, Zenon DEF HeldByOne
    <3> QED
      BY <2>1, <3>1, Zenon DEF HeldByOne, Places
  <2>3. HeldByOne'
    BY <2>1, <2>2, SMT DEF HeldByOne
  <2>4. owner = t /\ owner' = NoOne
    BY <2>1, <2>2, OwnerFacts, Zenon DEF owner
  <2> QED
    BY <2>3, <2>4, Zenon DEF M!MutexNext, M!Release
<1>4. ASSUME NEW t \in Threads,
             CallLock(t) \/ wait_for_mutex(t) \/ yield_blocked(t) \/ wake_mutex(t)
      PROVE  HeldByOne' /\ owner' = owner
  <2>1. PICK to \in {"test", "marked", "out"} :
          UNCHANGED lock /\ at[t] # "in" /\ at' = [at EXCEPT ![t] = to]
    BY <1>4, Zenon DEF CallLock, wait_for_mutex, yield_blocked, wake_mutex, Moves, Goto
  <2> QED
    BY <2>1, OtherMove, Zenon DEF Places
<1>5. CASE preempt
  BY <1>1, <1>5, Zenon DEF preempt
<1>6. CASE UNCHANGED vars
  BY <1>1, <1>6, Zenon DEF vars
<1> QED
  BY <1>2, <1>3, <1>4, <1>5, <1>6, Zenon DEF Next, ThreadStep

\* kmutex implements the abstract mutex: lock() never returns in one thread
\* between lock() and unlock() of another, for any number of threads and with
\* ticks anywhere.
THEOREM KmutexIsMutex == Spec => IsMutex
<1>1. Init => HeldByOne /\ M!MutexInit
  <2>1. Init => HeldByOne
    BY SMT DEF Init, HeldByOne, Places
  <2> QED
    BY <2>1, OwnerFacts, Zenon DEF Init, M!MutexInit
<1>2. HeldByOne /\ [Next]_vars => HeldByOne' /\ [M!MutexNext]_owner
  BY MutexStep
<1> QED
  BY <1>1, <1>2, PTL DEF Spec, IsMutex, M!MutexSpec

-----------------------------------------------------------------------------
(* No wake-up is lost but in the gap.                                      *)

\* A thread between the failed test and the block that is not on the CPU was
\* preempted there; what the one on the CPU saw there still holds unless it was,
\* too; and it alone may be BLOCKED without being asleep.
GapInv ==
    /\ TypeOK /\ HeldByOne
    /\ \A t \in Threads : t \notin missed /\ at[t] \in Gap =>
          /\ cpu = t
          /\ lock = 0 \/ \E h \in Threads : at[h] = "stored"
    /\ \A t \in Threads : t \notin missed /\ at[t] = "marked" => wait_mutex[t]
    /\ cpu # Idle => (state[cpu] = "BLOCKED" => at[cpu] = "marked")
    /\ BlockedHasWaker

States == {"RUNNING", "READY", "BLOCKED"}

\* What pick_next_process() and activate_process() leave behind.
LEMMA DispatchFacts ==
    ASSUME NEW s \in [Threads -> States], NEW w \in [Threads -> BOOLEAN],
           NEW q \in Seq(Threads), Dispatch(s, w, q)
    PROVE  /\ state' \in [Threads -> States] /\ wait_mutex' \in [Threads -> BOOLEAN]
           /\ queue' \in Seq(Threads) /\ cpu' \in Threads \cup {Idle}
           /\ cpu' # Idle => cpu' \in Threads /\ state'[cpu'] = "RUNNING"
           /\ \A t \in Threads : t # cpu' => state'[t] = s[t] /\ wait_mutex'[t] = w[t]
<1>1. CASE q = <<>>
  BY <1>1 DEF Dispatch
<1>2. CASE q # <<>>
  <2>1. Head(q) \in Threads /\ Tail(q) \in Seq(Threads)
    BY <1>2
  <2>2. /\ cpu' = Head(q) /\ queue' = Tail(q)
        /\ state' = [s EXCEPT ![Head(q)] = "RUNNING"]
        /\ wait_mutex' = [w EXCEPT ![Head(q)] = FALSE]
    BY <1>2, Zenon DEF Dispatch
  <2> QED
    BY <2>1, <2>2, Zenon DEF States
<1> QED
  BY <1>1, <1>2

\* The new queue of wake_mutex() is a sequence of threads.
LEMMA ListOrderFacts ==
    ASSUME NEW S \in SUBSET Threads, NEW o \in ListOrder(S)
    PROVE  o \in Seq(Threads)
<1>1. IsFiniteSet(S)
  <2>1. IsFiniteSet(Threads)
    BY FS_Interval, KmutexAssumption DEF Threads
  <2> QED
    BY <2>1, FS_Subset, Zenon
<1>2. Cardinality(S) \in Nat
  BY <1>1, FS_CardinalityType
<1> QED
  BY <1>2 DEF ListOrder

\* After a step that leaves nobody in the gap but those preempted there only the
\* sleepers matter.
LEMMA NoneInGap ==
    ASSUME TypeOK', HeldByOne', \A u \in Threads : u \notin missed' => at'[u] \notin Gap,
           cpu' # Idle => (state'[cpu'] = "BLOCKED" => at'[cpu'] = "marked"),
           \A u \in Threads : u \notin missed' /\ state'[u] = "BLOCKED" =>
               /\ cpu' # u /\ wait_mutex'[u]
               /\ lock' = 0 \/ \E h \in Threads : at'[h] = "stored"
    PROVE  GapInv'
<1>1. cpu' # Idle => cpu' \in Threads
  BY Zenon DEF TypeOK
<1> QED
  BY <1>1, Zenon DEF GapInv, BlockedHasWaker, Gap

\* Every operation of kmutex and the tick keep the invariant.
LEMMA GapStep ==
    ASSUME GapInv, [Next]_vars
    PROVE  GapInv'
<1>1. HeldByOne' /\ Idle \notin Threads
  <2>1. HeldByOne'
    BY MutexStep, Zenon DEF GapInv
  <2>2. Idle \notin Threads
    BY ONLY KmutexAssumption DEF Threads, Idle
  <2> QED
    BY <2>1, <2>2
<1>2. /\ lock \in {0, 1} /\ state \in [Threads -> States]
      /\ wait_mutex \in [Threads -> BOOLEAN] /\ queue \in Seq(Threads)
      /\ cpu \in Threads \cup {Idle} /\ at \in [Threads -> Places]
      /\ missed \subseteq Threads
  BY Zenon DEF GapInv, TypeOK, States
<1>3. /\ lock' \in {0, 1} /\ at' \in [Threads -> Places]
  BY <1>1, Zenon DEF HeldByOne
<1>4. ASSUME /\ state' \in [Threads -> States] /\ wait_mutex' \in [Threads -> BOOLEAN]
             /\ queue' \in Seq(Threads) /\ cpu' \in Threads \cup {Idle}
             /\ missed' \subseteq Threads
      PROVE  TypeOK'
  BY <1>3, <1>4, Zenon DEF TypeOK, States
<1>5. ASSUME NEW t \in Threads, cpu = t
      PROVE  \A u \in Threads : u # t /\ u \notin missed => at[u] \notin Gap
  BY <1>5, Zenon DEF GapInv
<1>6. ASSUME NEW t \in Threads, CallLock(t) \/ Store(t)
      PROVE  GapInv'
  <2>1. /\ cpu = t /\ UNCHANGED <<state, wait_mutex, queue, cpu, missed>>
        /\ \/ at[t] = "out" /\ at' = [at EXCEPT ![t] = "test"] /\ UNCHANGED lock
           \/ at[t] = "in" /\ at' = [at EXCEPT ![t] = "stored"]
    BY <1>6, Zenon DEF CallLock, Store, Moves, Goto
  <2>2. \A u \in Threads : u # t => at'[u] = at[u]
    BY <1>2, <2>1, Zenon
  <2>3. at'[t] \in {"test", "stored"} /\ state[t] # "BLOCKED"
    BY <1>1, <1>2, <2>1 DEF GapInv
  <2>4. \A u \in Threads : u \notin missed' => at'[u] \notin Gap
    BY <1>5, <2>1, <2>2, <2>3, Zenon DEF Gap
  <2>5. (\E h \in Threads : at[h] = "stored") => \E h \in Threads : at'[h] = "stored"
    BY <1>2, <2>1, <2>2
  <2>6. at'[t] = "stored" \/ UNCHANGED lock
    BY <1>2, <2>1
  <2>7. \A u \in Threads : u \notin missed' /\ state'[u] = "BLOCKED" =>
               /\ cpu' # u /\ wait_mutex'[u]
               /\ lock' = 0 \/ \E h \in Threads : at'[h] = "stored"
    BY <2>1, <2>3, <2>5, <2>6, Zenon DEF GapInv, BlockedHasWaker
  <2>8. TypeOK'
    BY <1>2, <1>4, <2>1, Zenon
  <2> QED
    BY <1>1, <2>1, <2>3, <2>4, <2>7, <2>8, NoneInGap, Zenon
<1>7. ASSUME NEW t \in Threads, Exchange(t)
      PROVE  GapInv'
  <2>1. /\ cpu = t /\ UNCHANGED <<state, wait_mutex, queue, cpu>> /\ lock' = 0
        /\ at[t] = "test" /\ missed' = missed \ {t}
        /\ at' = [at EXCEPT ![t] = "in"] \/ at' = [at EXCEPT ![t] = "failed"]
    BY <1>7, Zenon DEF Exchange, Goto
  <2>2. at'[t] \in {"in", "failed"} /\ \A u \in Threads : u # t => at'[u] = at[u]
    BY <1>2, <2>1, Zenon
  <2>3. state[t] # "BLOCKED"
    BY <1>1, <2>1 DEF GapInv
  <2>4. TypeOK'
    <3>1. missed' \subseteq Threads
      BY <1>2, <2>1, Zenon
    <3> QED
      BY <1>2, <1>4, <2>1, <3>1, Zenon
  <2>5. \A u \in Threads : u \notin missed' /\ at'[u] \in Gap => u = t /\ at'[u] # "marked"
    BY <1>5, <2>1, <2>2, Zenon DEF Gap
  <2>6. BlockedHasWaker'
    BY <2>1, <2>3, Zenon DEF GapInv, BlockedHasWaker
  <2>7. \A u \in Threads : u \notin missed' /\ at'[u] = "marked" => wait_mutex'[u]
    BY <2>5, Zenon DEF Gap
  <2> QED
    BY <1>1, <2>1, <2>3, <2>4, <2>5, <2>6, <2>7, Zenon DEF GapInv
<1>8. ASSUME NEW t \in Threads, wait_for_mutex(t)
      PROVE  GapInv'
  <2>1. /\ cpu = t /\ UNCHANGED <<lock, queue, cpu, missed>> /\ at[t] = "failed"
        /\ at' = [at EXCEPT ![t] = "marked"]
        /\ state' = [state EXCEPT ![t] = "BLOCKED"]
        /\ wait_mutex' = [wait_mutex EXCEPT ![t] = TRUE]
    BY <1>8, Zenon DEF wait_for_mutex, Moves, Goto
  <2>2. /\ at'[t] = "marked" /\ state'[t] = "BLOCKED" /\ wait_mutex'[t] = TRUE
        /\ \A u \in Threads : u # t =>
              at'[u] = at[u] /\ state'[u] = state[u] /\ wait_mutex'[u] = wait_mutex[u]
    BY <1>2, <2>1, Zenon
  <2>3. TypeOK'
    BY <1>2, <1>4, <2>1, Zenon DEF States
  <2>4. (\E h \in Threads : at[h] = "stored") => \E h \in Threads : at'[h] = "stored"
    BY <2>1, <2>2
  <2>5. t \notin missed => lock' = 0 \/ \E h \in Threads : at'[h] = "stored"
    BY <2>1, <2>4, Zenon DEF GapInv, Gap
  <2>6. \A u \in Threads : u \notin missed' /\ at'[u] \in Gap => u = t
    BY <1>5, <2>1, <2>2, Zenon
  <2>7. \A u \in Threads : u # t /\ u \notin missed' /\ state'[u] = "BLOCKED" =>
           wait_mutex'[u] /\ (lock' = 0 \/ \E h \in Threads : at'[h] = "stored")
    BY <2>1, <2>2, <2>4, Zenon DEF GapInv, BlockedHasWaker
  <2>8. BlockedHasWaker'
    BY <2>1, <2>7, Zenon DEF BlockedHasWaker
  <2>9. \A u \in Threads : u \notin missed' /\ at'[u] = "marked" => wait_mutex'[u]
    BY <2>2, <2>6, Zenon DEF Gap
  <2> QED
    BY <1>1, <2>1, <2>2, <2>3, <2>5, <2>6, <2>8, <2>9, Zenon DEF GapInv
<1>9. ASSUME NEW t \in Threads, yield_blocked(t)
      PROVE  GapInv'
  <2> DEFINE s == [state EXCEPT ![t] = "BLOCKED"]
  <2>1. /\ cpu = t /\ UNCHANGED <<lock, missed>> /\ at[t] = "marked"
        /\ at' = [at EXCEPT ![t] = "test"] /\ Dispatch(s, wait_mutex, queue)
    BY <1>9, Zenon DEF yield_blocked, Moves, Goto
  <2>2. /\ s \in [Threads -> States] /\ at'[t] = "test"
        /\ \A u \in Threads : u # t => at'[u] = at[u] /\ s[u] = state[u]
    BY <1>2, <2>1, Zenon DEF States
  <2> HIDE DEF s
  <2>3. /\ state' \in [Threads -> States] /\ wait_mutex' \in [Threads -> BOOLEAN]
        /\ queue' \in Seq(Threads) /\ cpu' \in Threads \cup {Idle}
        /\ cpu' # Idle => cpu' \in Threads /\ state'[cpu'] = "RUNNING"
        /\ \A u \in Threads : u # cpu' => state'[u] = s[u] /\ wait_mutex'[u] = wait_mutex[u]
    BY <1>2, <2>1, <2>2, DispatchFacts, Zenon
  <2>4. \A u \in Threads : u \notin missed' => at'[u] \notin Gap
    BY <1>5, <2>1, <2>2, Zenon DEF Gap
  <2>5. (\E h \in Threads : at[h] = "stored") => \E h \in Threads : at'[h] = "stored"
    BY <2>1, <2>2
  <2>6. \A u \in Threads : state'[u] = "BLOCKED" => cpu' # u
    BY <1>1, <2>3, Zenon
  <2>7. \A u \in Threads : u \notin missed' /\ state'[u] = "BLOCKED" =>
           wait_mutex'[u] /\ (lock' = 0 \/ \E h \in Threads : at'[h] = "stored")
    <3>1. ASSUME NEW u \in Threads, u # t, u \notin missed', state'[u] = "BLOCKED"
          PROVE  wait_mutex'[u] /\ (lock' = 0 \/ \E h \in Threads : at'[h] = "stored")
      BY <2>1, <2>2, <2>3, <2>5, <2>6, <3>1, Zenon DEF GapInv, BlockedHasWaker
    <3>2. ASSUME t \notin missed', state'[t] = "BLOCKED"
          PROVE  wait_mutex'[t] /\ (lock' = 0 \/ \E h \in Threads : at'[h] = "stored")
      BY <2>1, <2>3, <2>5, <2>6, <3>2, Zenon DEF GapInv, Gap
    <3> QED
      BY <3>1, <3>2, Zenon
  <2>8. TypeOK'
    BY <1>2, <1>4, <2>1, <2>3, Zenon
  <2>9. cpu' # Idle => (state'[cpu'] = "BLOCKED" => at'[cpu'] = "marked")
    BY <2>3
  <2> QED
    BY <1>1, <2>4, <2>6, <2>7, <2>8, <2>9, NoneInGap, Zenon
<1>10. ASSUME NEW t \in Threads, wake_mutex(t)
       PROVE  GapInv'
  <2>1. /\ cpu = t /\ UNCHANGED <<lock, cpu, missed>> /\ at[t] = "stored"
        /\ at' = [at EXCEPT ![t] = "out"] /\ Wake(Waiters)
    BY <1>10, Zenon DEF wake_mutex, Moves, Goto
  <2>2. PICK order \in ListOrder(Waiters) :
          /\ state' = [q \in Threads |-> IF q \in Waiters THEN "READY" ELSE state[q]]
          /\ wait_mutex' = [q \in Threads |-> wait_mutex[q] /\ q \notin Waiters]
          /\ queue' = queue \o order
    BY <2>1, Zenon DEF Wake
  <2>3. queue' \in Seq(Threads)
    <3>1. order \in Seq(Threads)
      BY ListOrderFacts, Zenon DEF Waiters
    <3> QED
      BY <1>2, <2>2, <3>1
  <2>4. state' \in [Threads -> States] /\ wait_mutex' \in [Threads -> BOOLEAN]
    BY <1>2, <2>2, SMT DEF States
  <2>5. at'[t] = "out" /\ \A u \in Threads : u # t => at'[u] = at[u]
    BY <1>2, <2>1, Zenon
  <2>6. \A u \in Threads : u \notin missed' => at'[u] \notin Gap
    BY <1>5, <2>1, <2>5, Zenon DEF Gap
  <2>7. state'[t] # "BLOCKED"
    BY <1>1, <2>1, <2>2 DEF GapInv
  <2>8. \A u \in Threads : u \notin missed' => state'[u] # "BLOCKED"
    <3> SUFFICES ASSUME NEW u \in Threads, u \notin missed', state'[u] = "BLOCKED" PROVE FALSE
      OBVIOUS
    <3>1. u \notin Waiters /\ state[u] = "BLOCKED"
      BY <2>2, Zenon
    <3>2. ~wait_mutex[u]
      BY <3>1, Zenon DEF Waiters
    <3>3. u = t
      BY <2>1, <3>1, <3>2, Zenon DEF GapInv, BlockedHasWaker
    <3> QED
      BY <2>7, <3>3
  <2>9. TypeOK'
    BY <1>2, <1>4, <2>1, <2>3, <2>4, Zenon
  <2> QED
    BY <1>1, <2>1, <2>6, <2>7, <2>8, <2>9, NoneInGap, Zenon
<1>11. CASE preempt
  <2>1. UNCHANGED <<lock, at>> /\ missed' = missed \cup {t \in {cpu} \ {Idle} : at[t] \in Gap}
    BY <1>11, Zenon DEF preempt, Miss
  <2>2. \A u \in Threads : u \notin missed' => u \notin missed /\ (u = cpu => at[u] \notin Gap)
    BY <1>1, <2>1, Zenon
  <2>3. \A u \in Threads : u \notin missed' => at'[u] \notin Gap
    BY <2>1, <2>2, Zenon DEF GapInv
  <2>4. missed' \subseteq Threads
    BY <1>2, <2>1, Zenon
  <2>5. \A u \in Threads : u \notin missed' /\ state[u] = "BLOCKED" => cpu # u
    BY <1>1, <2>2, Zenon DEF GapInv, Gap
  <2>6. ASSUME /\ state' \in [Threads -> States] /\ wait_mutex' \in [Threads -> BOOLEAN]
               /\ queue' \in Seq(Threads) /\ cpu' \in Threads \cup {Idle},
               cpu' # Idle => state'[cpu'] # "BLOCKED",
               \A u \in Threads : state'[u] = "BLOCKED" =>
                   cpu' # u /\ state[u] = "BLOCKED" /\ wait_mutex'[u] = wait_mutex[u]
        PROVE  GapInv'
    <3>1. \A u \in Threads : u \notin missed' /\ state'[u] = "BLOCKED" =>
               /\ cpu' # u /\ wait_mutex'[u]
               /\ lock' = 0 \/ \E h \in Threads : at'[h] = "stored"
      BY <2>1, <2>2, <2>5, <2>6, Zenon DEF GapInv, BlockedHasWaker
    <3>2. TypeOK'
      BY <1>4, <2>4, <2>6, Zenon
    <3> QED
      BY <1>1, <2>3, <2>6, <3>1, <3>2, NoneInGap, Zenon
  <2>7. ASSUME NEW s \in [Threads -> States], NEW q \in Seq(Threads),
               Dispatch(s, wait_mutex, q),
               \A u \in Threads : s[u] = "BLOCKED" => state[u] = "BLOCKED"
        PROVE  GapInv'
    <3>1. /\ state' \in [Threads -> States] /\ wait_mutex' \in [Threads -> BOOLEAN]
          /\ queue' \in Seq(Threads) /\ cpu' \in Threads \cup {Idle}
          /\ cpu' # Idle => cpu' \in Threads /\ state'[cpu'] = "RUNNING"
          /\ \A t \in Threads : t # cpu' => state'[t] = s[t] /\ wait_mutex'[t] = wait_mutex[t]
      BY <1>2, <2>7, DispatchFacts, Zenon
    <3>2. \A u \in Threads : state'[u] = "BLOCKED" =>
                   cpu' # u /\ state[u] = "BLOCKED" /\ wait_mutex'[u] = wait_mutex[u]
      BY <1>1, <2>7, <3>1, Zenon
    <3>3. cpu' # Idle => state'[cpu'] # "BLOCKED"
      BY <3>1
    <3> QED
      BY <2>6, <3>1, <3>2, <3>3, Zenon
  <2>8. CASE cpu = Idle
    <3>1. Dispatch(state, wait_mutex, queue)
      BY <1>11, <2>8, Zenon DEF preempt
    <3> QED
      BY <1>2, <2>7, <3>1, Zenon
  <2>9. CASE cpu # Idle
    <3> DEFINE paused == state[cpu] = "RUNNING"
               s == IF paused THEN [state EXCEPT ![cpu] = "READY"] ELSE state
               back == IF paused THEN <<cpu>> ELSE <<>>
    <3>1. /\ s \in [Threads -> States]
          /\ \A u \in Threads : s[u] = "BLOCKED" => state[u] = "BLOCKED"
      BY <1>2, <2>9, Zenon DEF States
    <3>2. back \in Seq(Threads) /\ queue \o back \in Seq(Threads)
      <4>1. back \in Seq(Threads)
        BY <1>2, <2>9
      <4> QED
        BY <1>2, <4>1
    <3>3. \/ cpu' = Idle /\ state' = s /\ queue' = back /\ UNCHANGED wait_mutex
          \/ Dispatch(s, wait_mutex, queue \o back)
      BY <1>11, <2>9, Zenon DEF preempt
    <3> HIDE DEF s, back
    <3>4. CASE cpu' = Idle /\ state' = s /\ queue' = back /\ UNCHANGED wait_mutex
      <4>1. \A u \in Threads : state'[u] = "BLOCKED" =>
                   cpu' # u /\ state[u] = "BLOCKED" /\ wait_mutex'[u] = wait_mutex[u]
        BY <1>1, <3>1, <3>4, Zenon
      <4> QED
        BY <1>2, <2>6, <3>1, <3>2, <3>4, <4>1, Zenon
    <3> QED
      BY <2>7, <3>1, <3>2, <3>3, <3>4, Zenon
  <2> QED
    BY <2>8, <2>9
<1>12. CASE UNCHANGED vars
  BY <1>12 DEF vars, GapInv, TypeOK, HeldByOne, BlockedHasWaker
<1> QED
  BY <1>6, <1>7, <1>8, <1>9, <1>10, <1>11, <1>12, Zenon DEF Next, ThreadStep

\* For any number of threads, with ticks anywhere: a thread asleep in lock() that
\* was not preempted between its failed exchange and its block is recognised by
\* a wake_mutex() that is still to come.
THEOREM NoLostWakeup == Spec => []BlockedHasWaker
<1>1. Init => GapInv
  <2>1. Init => HeldByOne
    BY SMT DEF Init, HeldByOne, Places
  <2>2. Init => TypeOK
    BY KmutexAssumption DEF Init, TypeOK, Places, Threads
  <2>3. Init => \A t \in Threads : at[t] \notin Gap /\ state[t] # "BLOCKED"
    BY DEF Init, Gap
  <2>4. Init => cpu = Idle
    BY DEF Init
  <2> QED
    BY <2>1, <2>2, <2>3, <2>4, Zenon DEF GapInv, BlockedHasWaker, Gap
<1>2. GapInv /\ [Next]_vars => GapInv'
  BY GapStep
<1>3. GapInv => BlockedHasWaker
  BY DEF GapInv
<1> QED
  BY <1>1, <1>2, <1>3, PTL DEF Spec

-----------------------------------------------------------------------------
(* Page frames.                                                            *)

\* The map reaches the limit of the bitmap.
AtLimit == \E f \in usable : f + 1 >= MAX_NUM_FRAMES

\* What does not depend on where the map ends: the regions still to come are
\* regions, callers have nothing before the map is read, frame 0 is used, and
\* the search stays below the limit.
CursorInv ==
    /\ regions \in Seq(Region)
    /\ regions # <<>> => taken = {}
    /\ taken \subseteq used /\ 0 \in used /\ taken \subseteq 1..(MAX_NUM_FRAMES - 1)
    /\ start \in Nat /\ end \in Nat /\ end <= MAX_NUM_FRAMES

\* Below the limit all that can be handed out is usable.
UsableInv ==
    /\ \A i \in 1..Len(regions) : regions[i].lo..(regions[i].hi - 1) \subseteq usable
    /\ ~AtLimit => start..(end - 1) \subseteq usable /\ taken \subseteq usable

\* What nobody was given yet is free and ahead of the cursor.
ServedInv ==
    /\ unserved \subseteq start..(end - 1) /\ unserved \cap used = {}
    /\ panicked => regions = <<>> /\ unserved = {}

\* A region lies below Top, and clearing bit 0 of its first frame moves at
\* most one frame down.
LEMMA RegionFacts ==
    ASSUME NEW r \in Region
    PROVE  /\ r.lo \in Nat /\ r.hi \in Nat /\ r.lo < r.hi
           /\ ClearBit0(r.lo) \in Nat /\ ClearBit0(r.lo) <= r.lo
  BY PmmAssumption DEF Region, ClearBit0

\* The next region and the ones behind it.
LEMMA QueueFacts ==
    ASSUME regions \in Seq(Region), regions # <<>>
    PROVE  /\ Head(regions) \in Region /\ Head(regions) = regions[1] /\ 1 \in 1..Len(regions)
           /\ Tail(regions) \in Seq(Region)
           /\ \A i \in 1..Len(Tail(regions)) : /\ i + 1 \in 1..Len(regions)
                                               /\ Tail(regions)[i] = regions[i + 1]
  OBVIOUS

\* init() establishes the three invariants.
LEMMA InitCursor ==
    ASSUME PmmInit
    PROVE  CursorInv /\ UsableInv /\ ServedInv
<1>1. regions \in Seq(Region)
  BY DEF PmmInit, Map
<1>2. \A i \in 1..Len(regions) : regions[i].lo..(regions[i].hi - 1) \subseteq usable
  <2>1. DOMAIN regions = 1..Len(regions)
    BY <1>1
  <2> QED
    BY <2>1, Zenon DEF PmmInit, FramesOf
<1>3. 0 \in used
  BY PmmAssumption DEF PmmInit
<1>4. start..(end - 1) = {}
  BY DEF PmmInit
<1> QED
  BY <1>1, <1>2, <1>3, <1>4, PmmAssumption DEF PmmInit, CursorInv, UsableInv, ServedInv

\* What a step of add_free_memory() does to the cursor and the bitmap.
LEMMA AddFacts ==
    ASSUME CursorInv, ServedInv, add_free_memory
    PROVE  /\ regions # <<>> /\ regions' = Tail(regions) /\ UNCHANGED <<usable, panicked, taken>>
           /\ 0 \in used' /\ start' \in Nat /\ end' \in Nat /\ end' <= MAX_NUM_FRAMES
           /\ unserved' \subseteq start'..(end' - 1) /\ unserved' \cap used' = {}
           /\ \/ UNCHANGED <<start, end>>
              \/ Head(regions).hi < MAX_NUM_FRAMES =>
                     start' = Head(regions).lo /\ end' = Head(regions).hi
<1> DEFINE r == Head(regions)
<1>1. regions # <<>> /\ regions' = Tail(regions) /\ UNCHANGED <<usable, panicked, taken>>
  BY DEF add_free_memory
<1>2. r \in Region
  BY <1>1, QueueFacts DEF CursorInv
<1>3. /\ r.lo \in Nat /\ r.hi \in Nat
      /\ ClearBit0(r.lo) \in Nat /\ ClearBit0(r.lo) <= r.lo
  BY <1>2, RegionFacts
<1> HIDE DEF r
<1>4. CASE UNCHANGED <<used, start, end, unserved>>
  BY <1>1, <1>4, Zenon DEF CursorInv, ServedInv
<1>5. CASE AddRegion(r)
  <2> DEFINE last == IF r.hi >= MAX_NUM_FRAMES THEN MAX_NUM_FRAMES ELSE r.hi
  <2>1. /\ used' = (used \ (r.lo..last)) \cup {0} /\ end' = last
        /\ unserved' = (r.lo..(last - 1)) \ {0}
        /\ start' = r.lo \/ start' = ClearBit0(r.lo)
        /\ last # MAX_NUM_FRAMES => start' = r.lo
    BY <1>5, Zenon DEF AddRegion
  <2>2. last \in Nat /\ last <= MAX_NUM_FRAMES /\ (r.hi < MAX_NUM_FRAMES => last = r.hi)
    BY <1>3, PmmAssumption
  <2> HIDE DEF last
  <2>3. r.hi < MAX_NUM_FRAMES => last # MAX_NUM_FRAMES
    BY <1>3, <2>2, PmmAssumption
  <2>4. unserved' \subseteq start'..(end' - 1)
    BY <1>3, <2>1, <2>2
  <2>5. unserved' \cap used' = {}
    <3>1. r.lo..(last - 1) \subseteq r.lo..last
      BY <1>3, <2>2
    <3> QED
      BY <2>1, <3>1, Zenon
  <2> QED
    BY <1>1, <1>3, <2>1, <2>2, <2>3, <2>4, <2>5, Zenon DEF r
<1> QED
  BY <1>4, <1>5, Zenon DEF add_free_memory, r

\* What a step of alloc_frame() does.
LEMMA AllocFacts ==
    ASSUME CursorInv, alloc_frame
    PROVE  /\ regions = <<>> /\ UNCHANGED <<regions, usable, end>>
           /\ \/ /\ UNCHANGED <<used, start, taken, unserved>>
                 /\ panicked' = TRUE /\ start..(end - 1) \subseteq used
              \/ \E f \in start..(end - 1) :
                    /\ f \notin used /\ \A g \in start..(end - 1) : g \notin used => f <= g
                    /\ used' = used \cup {f} /\ start' = f + 1
                    /\ taken' = taken \cup {f} /\ unserved' = unserved \ {f}
                    /\ panicked' = panicked /\ ~panicked
  BY Zenon DEF alloc_frame, TakeFirst, Candidates

\* The cursor, the bitmap and what callers have stay consistent, and so does
\* what was not handed out yet.
LEMMA CursorStep ==
    ASSUME CursorInv, ServedInv, [PmmNext]_pmmVars
    PROVE  CursorInv' /\ ServedInv'
<1>1. CASE add_free_memory
  <2>1. /\ regions # <<>> /\ regions' = Tail(regions) /\ UNCHANGED <<panicked, taken>>
        /\ 0 \in used' /\ start' \in Nat /\ end' \in Nat /\ end' <= MAX_NUM_FRAMES
        /\ unserved' \subseteq start'..(end' - 1) /\ unserved' \cap used' = {}
    BY <1>1, AddFacts, Zenon
  <2>2. Tail(regions) \in Seq(Region)
    BY <2>1, QueueFacts DEF CursorInv
  <2>3. taken = {} /\ ~panicked
    BY <2>1, Zenon DEF CursorInv, ServedInv
  <2> QED
    BY <2>1, <2>2, <2>3, Zenon DEF CursorInv, ServedInv
<1>2. CASE alloc_frame
  <2>1. regions = <<>> /\ UNCHANGED <<regions, end>>
    BY <1>2, AllocFacts, Zenon
  <2>2. CASE /\ UNCHANGED <<used, start, taken, unserved>>
             /\ panicked' = TRUE /\ start..(end - 1) \subseteq used
    BY <2>1, <2>2, Zenon DEF CursorInv, ServedInv
  <2>3. ASSUME NEW f \in start..(end - 1), f \notin used,
               \A g \in start..(end - 1) : g \notin used => f <= g,
               used' = used \cup {f}, start' = f + 1,
               taken' = taken \cup {f}, unserved' = unserved \ {f},
               panicked' = panicked, ~panicked
        PROVE  CursorInv' /\ ServedInv'
    <3>1. f \in 1..(MAX_NUM_FRAMES - 1) /\ start' \in Nat
      BY <2>3, PmmAssumption DEF CursorInv
    <3>2. CursorInv'
      BY <2>1, <2>3, <3>1, Zenon DEF CursorInv
    <3>3. ASSUME NEW g \in unserved' PROVE g \in start'..(end - 1)
      <4>1. g \in start..(end - 1) /\ f <= g /\ g # f
        BY <2>3, <3>3, Zenon DEF ServedInv
      <4> QED
        BY <2>3, <4>1 DEF CursorInv
    <3>4. unserved' \cap used' = {}
      BY <2>3, Zenon DEF ServedInv
    <3> QED
      BY <2>1, <2>3, <3>2, <3>3, <3>4, Zenon DEF ServedInv
  <2> QED
    BY <1>2, <2>2, <2>3, AllocFacts, Zenon
<1>3. ASSUME NEW f \in taken, free_frame(f)
      PROVE  CursorInv' /\ ServedInv'
  <2>1. /\ f \in taken /\ used' = used \ {f} /\ taken' = taken \ {f}
        /\ UNCHANGED <<regions, start, end, panicked, unserved>>
    BY <1>3, Zenon DEF free_frame
  <2>2. f # 0
    BY <2>1 DEF CursorInv
  <2> QED
    BY <2>1, <2>2, Zenon DEF CursorInv, ServedInv
<1>4. CASE UNCHANGED pmmVars
  BY <1>4 DEF pmmVars, CursorInv, ServedInv
<1> QED
  BY <1>1, <1>2, <1>3, <1>4, Zenon DEF PmmNext

\* For every memory map and limit, alloc_frame() panics only when every frame of
\* the region it searches has been handed out.
THEOREM PmmServesLastRegion == PmmSpec => []LastRegionServed
<1>1. PmmInit => CursorInv /\ ServedInv
  BY InitCursor
<1>2. CursorInv /\ ServedInv /\ [PmmNext]_pmmVars => CursorInv' /\ ServedInv'
  BY CursorStep
<1>3. ServedInv => LastRegionServed
  BY DEF ServedInv, LastRegionServed
<1> QED
  BY <1>1, <1>2, <1>3, PTL DEF PmmSpec

-----------------------------------------------------------------------------
(* Refinement of FrameAllocator.                                           *)

\* A frame ahead of the cursor is a frame that was promised.
LEMMA AheadIsPromised ==
    ASSUME CursorInv, UsableInv
    PROVE  start..(end - 1) \subseteq Promised /\ taken \subseteq Promised
<1>1. CASE AtLimit
  <2>1. Promised = 0..(MAX_NUM_FRAMES - 1)
    BY <1>1, Zenon DEF AtLimit, Promised
  <2> QED
    BY <2>1, PmmAssumption DEF CursorInv
<1>2. CASE ~AtLimit
  <2>1. Promised = usable
    BY <1>2, Zenon DEF AtLimit, Promised
  <2> QED
    BY <1>2, <2>1, Zenon DEF UsableInv
<1> QED
  BY <1>1, <1>2

\* Every step is a step of the abstract allocator or none of its.
LEMMA UsableStep ==
    ASSUME CursorInv, UsableInv, ServedInv, [PmmNext]_pmmVars
    PROVE  UsableInv' /\ [A!AllocatorNext]_<<Promised, taken>>
<1>1. start..(end - 1) \subseteq Promised /\ taken \subseteq Promised
  BY AheadIsPromised
<1>2. UNCHANGED usable => (AtLimit' <=> AtLimit) /\ Promised' = Promised
  BY DEF AtLimit, Promised
<1>3. CASE add_free_memory
  <2>1. /\ regions # <<>> /\ regions' = Tail(regions) /\ UNCHANGED <<usable, taken>>
        /\ \/ UNCHANGED <<start, end>>
           \/ Head(regions).hi < MAX_NUM_FRAMES =>
                  start' = Head(regions).lo /\ end' = Head(regions).hi
    BY <1>3, AddFacts, Zenon
  <2>2. /\ Head(regions) \in Region /\ Head(regions) = regions[1] /\ 1 \in 1..Len(regions)
        /\ \A i \in 1..Len(Tail(regions)) : /\ i + 1 \in 1..Len(regions)
                                            /\ Tail(regions)[i] = regions[i + 1]
    BY <2>1, QueueFacts, Zenon DEF CursorInv
  <2>3. Head(regions).lo..(Head(regions).hi - 1) \subseteq usable
    BY <2>2, Zenon DEF UsableInv
  <2>4. ~AtLimit => Head(regions).hi < MAX_NUM_FRAMES
    <3>1. Head(regions).hi - 1 \in usable /\ Head(regions).hi \in Nat
      BY <2>2, <2>3, RegionFacts
    <3> QED
      BY <3>1, PmmAssumption DEF AtLimit
  <2>5. \A i \in 1..Len(Tail(regions)) :
           Tail(regions)[i].lo..(Tail(regions)[i].hi - 1) \subseteq usable
    BY <2>2, Zenon DEF UsableInv
  <2>6. ~AtLimit => start'..(end' - 1) \subseteq usable
    BY <2>1, <2>3, <2>4, Zenon DEF UsableInv
  <2> QED
    BY <1>2, <2>1, <2>5, <2>6, Zenon DEF UsableInv
<1>4. CASE alloc_frame
  <2>1. regions = <<>> /\ UNCHANGED <<regions, usable, end>>
    BY <1>4, AllocFacts, Zenon
  <2>2. CASE UNCHANGED <<used, start, taken>>
    BY <1>2, <2>1, <2>2, Zenon DEF UsableInv
  <2>3. ASSUME NEW f \in start..(end - 1), f \notin used, start' = f + 1,
               taken' = taken \cup {f}
        PROVE  UsableInv' /\ [A!AllocatorNext]_<<Promised, taken>>
    <3>1. f \in Promised /\ f \notin taken /\ f # 0
      BY <1>1, <2>3, Zenon DEF CursorInv
    <3>2. start'..(end - 1) \subseteq start..(end - 1)
      BY <2>3 DEF CursorInv
    <3>3. UsableInv'
      BY <1>2, <2>1, <2>3, <3>2, Zenon DEF UsableInv
    <3>4. A!Grant(f)
      BY <2>3, <3>1, Zenon DEF A!Grant
    <3> QED
      BY <1>2, <2>1, <3>1, <3>3, <3>4, Zenon DEF A!AllocatorNext
  <2> QED
    BY <1>4, <2>2, <2>3, AllocFacts, Zenon
<1>5. ASSUME NEW f \in taken, free_frame(f)
      PROVE  UsableInv' /\ [A!AllocatorNext]_<<Promised, taken>>
  <2>1. taken' = taken \ {f} /\ UNCHANGED <<regions, usable, start, end>>
    BY <1>5, Zenon DEF free_frame
  <2>2. UsableInv'
    BY <1>2, <2>1, Zenon DEF UsableInv
  <2>3. A!GiveBack(f) /\ f \in Promised
    BY <1>1, <1>5, <2>1, Zenon DEF A!GiveBack
  <2> QED
    BY <1>2, <2>1, <2>2, <2>3, Zenon DEF A!AllocatorNext
<1>6. CASE UNCHANGED pmmVars
  <2>1. UNCHANGED <<regions, usable, start, end, taken>>
    BY <1>6 DEF pmmVars
  <2> QED
    BY <1>2, <2>1, Zenon DEF UsableInv
<1> QED
  BY <1>3, <1>4, <1>5, <1>6, Zenon DEF PmmNext

\* For every memory map and limit, pmm implements a frame allocator: what it
\* hands out was promised, is not frame 0, and has no other holder.
THEOREM PmmIsFrameAllocator == PmmSpec => IsFrameAllocator
<1>1. PmmInit => CursorInv /\ UsableInv /\ ServedInv /\ A!AllocatorInit
  BY InitCursor, Zenon DEF PmmInit, A!AllocatorInit
<1>2. CursorInv /\ UsableInv /\ ServedInv /\ [PmmNext]_pmmVars =>
        CursorInv' /\ UsableInv' /\ ServedInv' /\ [A!AllocatorNext]_<<Promised, taken>>
  BY CursorStep, UsableStep
<1> QED
  BY <1>1, <1>2, PTL DEF PmmSpec, IsFrameAllocator, A!AllocatorSpec

-----------------------------------------------------------------------------
(* The timer.                                                              *)

\* The parameters are positive.
LEMMA TimerConstants ==
    /\ Freq \in Nat /\ Freq > 0 /\ Giga \in Nat /\ Giga > 0
    /\ BootTsc \in Nat /\ BootTsc > 0 /\ InitTsc \in Nat /\ InitTsc >= BootTsc
    /\ InitTsc <= MaxTsc /\ IntervalNs \in Nat /\ MaxSleepNs \in Nat
    /\ MaxHold \in Nat /\ MaxTsc \in Nat
BY TimerAssumption

-----------------------------------------------------------------------------
(* Arithmetic of the conversions.                                          *)

\* Multiplication keeps the order.
LEMMA TimesMonotone ==
    ASSUME NEW a \in Nat, NEW b \in Nat, NEW n \in Nat, a <= b
    PROVE  a * n \in Nat /\ a * n <= b * n
OBVIOUS

\* \div is the largest number of times.
LEMMA DivAtLeast ==
    ASSUME NEW x \in Nat, NEW n \in Nat, n > 0, NEW k \in Nat, k * n <= x
    PROVE  k <= x \div n
OBVIOUS

\* And no more than that.
LEMMA DivLess ==
    ASSUME NEW x \in Nat, NEW n \in Nat, n > 0, NEW k \in Nat, x < k * n
    PROVE  x \div n < k
OBVIOUS

\* Quotient and remainder of a number in parts.
LEMMA DivParts ==
    ASSUME NEW n \in Nat, n > 0, NEW q \in Nat, NEW r \in Nat, r < n
    PROVE  (q * n + r) \div n = q /\ (q * n + r) % n = r
OBVIOUS

\* What \div and % are.
LEMMA DivMod ==
    ASSUME NEW x \in Nat, NEW n \in Nat, n > 0
    PROVE  /\ x \div n \in Nat /\ x % n \in Nat /\ x % n < n
           /\ x = (x \div n) * n + (x % n)
OBVIOUS

-----------------------------------------------------------------------------
(* The conversions of tsc.cpp.                                             *)

\* The clock shows a time from boot on.
LEMMA TimeIsNat ==
    ASSUME NEW raw \in Nat, raw >= BootTsc
    PROVE  get_time_ns(raw) \in Nat
<1> DEFINE d == raw - BootTsc
<1>1. d \in Nat /\ d \div Freq \in Nat /\ d % Freq \in Nat
  BY TimerConstants, DivMod
<1>2. (d \div Freq) * Giga \in Nat /\ (d % Freq) * Giga \in Nat
  BY <1>1, TimerConstants, TimesMonotone
<1>3. ((d % Freq) * Giga) \div Freq \in Nat
  BY <1>2, TimerConstants, DivMod
<1> QED
  BY <1>2, <1>3 DEF get_time_ns

\* ns_to_ticks() in terms of quotient and remainder.
LEMMA TicksParts ==
    ASSUME NEW q \in Nat, NEW r \in Nat, r < Giga
    PROVE  /\ ns_to_ticks(q * Giga + r) = q * Freq + (r * Freq) \div Giga
           /\ q * Freq \in Nat /\ (r * Freq) \div Giga \in Nat
           /\ (r * Freq) \div Giga < Freq
<1>1. /\ (q * Giga + r) \div Giga = q /\ (q * Giga + r) % Giga = r
  BY TimerConstants, DivParts
<1>2. q * Freq \in Nat /\ r * Freq \in Nat /\ r * Freq < Giga * Freq
  BY TimerConstants
<1>3. (r * Freq) \div Giga \in Nat
  BY <1>2, TimerConstants, DivMod
<1>4. (r * Freq) \div Giga < Freq
  BY <1>2, TimerConstants, DivLess
<1> QED
  BY <1>1, <1>2, <1>3, <1>4 DEF ns_to_ticks

\* Every time is a number of seconds and a rest.
LEMMA TimeParts ==
    ASSUME NEW ns \in Nat
    PROVE  \E q \in Nat, r \in Nat : r < Giga /\ ns = q * Giga + r
<1>1. /\ ns \div Giga \in Nat /\ ns % Giga \in Nat /\ ns % Giga < Giga
      /\ ns = (ns \div Giga) * Giga + (ns % Giga)
  BY DivMod, TimerConstants
<1> QED
  BY <1>1, Zenon

\* A later time has no smaller number of ticks.
LEMMA TicksMonotone ==
    ASSUME NEW a \in Nat, NEW b \in Nat, a <= b
    PROVE  ns_to_ticks(a) \in Nat /\ ns_to_ticks(a) <= ns_to_ticks(b)
<1>1. PICK q \in Nat, r \in Nat : r < Giga /\ a = q * Giga + r
  BY TimeParts
<1>2. PICK u \in Nat, v \in Nat : v < Giga /\ b = u * Giga + v
  BY TimeParts
<1>3. q <= u
  <2>1. ASSUME u + 1 <= q PROVE FALSE
    <3>1. (u + 1) * Giga <= q * Giga /\ (u + 1) * Giga = u * Giga + Giga
          /\ u * Giga \in Nat /\ q * Giga \in Nat
      BY <2>1, TimesMonotone, TimerConstants
    <3> QED
      BY <1>1, <1>2, <3>1, TimerConstants
  <2> QED
    BY <2>1
<1>4. /\ ns_to_ticks(a) = q * Freq + (r * Freq) \div Giga
      /\ ns_to_ticks(b) = u * Freq + (v * Freq) \div Giga
      /\ q * Freq \in Nat /\ u * Freq \in Nat
      /\ (r * Freq) \div Giga \in Nat /\ (v * Freq) \div Giga \in Nat
      /\ (r * Freq) \div Giga < Freq
  BY <1>1, <1>2, TicksParts
<1>5. CASE q = u
  <2>1. r <= v
    BY <1>1, <1>2, <1>5, TimerConstants
  <2>2. r * Freq \in Nat /\ v * Freq \in Nat /\ r * Freq <= v * Freq
    BY <2>1, TimesMonotone, TimerConstants
  <2> DEFINE k == (r * Freq) \div Giga
  <2>3. k \in Nat /\ k * Giga <= r * Freq
    BY <2>2, DivMod, TimerConstants
  <2>4. k * Giga <= v * Freq
    BY <2>2, <2>3, TimerConstants
  <2>5. k <= (v * Freq) \div Giga
    BY <2>2, <2>3, <2>4, DivAtLeast, TimerConstants
  <2> QED
    BY <1>4, <1>5, <2>5
<1>6. CASE q + 1 <= u
  <2>1. (q + 1) * Freq <= u * Freq /\ (q + 1) * Freq = q * Freq + Freq
    BY <1>6, TimesMonotone, TimerConstants
  <2> QED
    BY <1>4, <2>1, TimerConstants
<1> QED
  BY <1>3, <1>4, <1>5, <1>6

\* A sleeper that is not due yet at tsc has a raw deadline that is not before
\* tsc, however both conversions round.
LEMMA NotDueYet ==
    ASSUME NEW raw \in Nat, raw >= BootTsc, NEW w \in Nat, get_time_ns(raw) < w
    PROVE  raw <= ns_to_raw_ticks(w)
<1> DEFINE d == raw - BootTsc
           q == d \div Freq
           s == d % Freq
           t == (s * Giga) \div Freq + 1
<1>1. d \in Nat /\ q \in Nat /\ s \in Nat /\ s < Freq /\ d = q * Freq + s
  BY TimerConstants, DivMod
<1>2. get_time_ns(raw) = q * Giga + (s * Giga) \div Freq
  BY DEF get_time_ns
<1> HIDE DEF d, q, s
<1>3. /\ s * Giga \in Nat /\ s * Giga < Freq * Giga /\ q * Giga \in Nat
      /\ q * Freq \in Nat
  BY <1>1, TimerConstants
<1>4. (s * Giga) \div Freq \in Nat /\ (s * Giga) \div Freq < Giga
  BY <1>3, TimerConstants, DivLess, DivMod
<1>5. t \in Nat /\ t <= Giga /\ q * Giga + t \in Nat /\ q * Giga + t <= w
  <2> DEFINE v == (s * Giga) \div Freq
  <2>1. v \in Nat /\ v < Giga /\ q * Giga + v < w
    BY <1>2, <1>4
  <2> HIDE DEF v
  <2>2. v + 1 \in Nat /\ v + 1 <= Giga /\ q * Giga + (v + 1) \in Nat /\ q * Giga + (v + 1) <= w
    BY <1>3, <2>1, TimerConstants
  <2> QED
    BY <2>2 DEF v
<1> HIDE DEF t
<1>6. s * Giga < t * Freq
  <2>1. ASSUME t * Freq <= s * Giga PROVE FALSE
    <3>1. t <= (s * Giga) \div Freq
      BY <1>3, <1>5, <2>1, TimerConstants, DivAtLeast
    <3> QED
      BY <1>4, <3>1 DEF t
  <2>2. t * Freq \in Nat
    BY <1>5, TimerConstants
  <2> QED
    BY <1>3, <2>1, <2>2
<1>7. ns_to_ticks(q * Giga + t) \in Nat /\ ns_to_ticks(q * Giga + t) <= ns_to_ticks(w)
  BY <1>5, TicksMonotone
<1>8. d <= ns_to_ticks(q * Giga + t)
  <2>1. CASE t = Giga
    <3> DEFINE u == q + 1
    <3>1. u \in Nat /\ u * Giga + 0 = q * Giga + t /\ u * Freq = q * Freq + Freq
      BY <1>1, <1>3, <2>1, TimerConstants
    <3> HIDE DEF u
    <3>2. /\ ns_to_ticks(u * Giga + 0) = u * Freq + (0 * Freq) \div Giga
          /\ (0 * Freq) \div Giga \in Nat /\ u * Freq \in Nat
      BY <3>1, TicksParts, TimerConstants
    <3>3. ns_to_ticks(q * Giga + t) = u * Freq + (0 * Freq) \div Giga
      BY <3>1, <3>2, Zenon
    <3> QED
      BY <1>1, <1>3, <3>1, <3>2, <3>3, TimerConstants
  <2>2. CASE t < Giga
    <3>1. ns_to_ticks(q * Giga + t) = q * Freq + (t * Freq) \div Giga
      BY <1>1, <1>5, <2>2, TicksParts
    <3>2. t * Freq \in Nat /\ s * Giga <= t * Freq
      BY <1>3, <1>5, <1>6, TimerConstants
    <3>3. s <= (t * Freq) \div Giga
      BY <1>1, <3>2, DivAtLeast, TimerConstants
    <3> QED
      BY <1>1, <1>3, <3>1, <3>3, <3>2, DivMod, TimerConstants
  <2> QED
    BY <1>5, <2>1, <2>2, TimerConstants
<1> QED
  BY <1>1, <1>7, <1>8, TimerConstants, TicksMonotone DEF ns_to_raw_ticks, d

-----------------------------------------------------------------------------
(* The timer.                                                              *)

\* The deadline of a sleeper is still ahead of what the timer is armed for, or
\* of the moment at which a pending interrupt became pending.
DeadlineAhead(p) ==
    LET due == ns_to_raw_ticks(wake_time_ns[p]) + interrupt_delta
    IN  IF Pending THEN tsc - held_off < due ELSE armed < due

TimerInv ==
    /\ TimerTypeOK /\ ArmedForEarliest
    /\ armed = interrupt_deadline /\ armed < tsc + interrupt_delta
    /\ \A p \in Asleep(wake_time_ns) : DeadlineAhead(p)

\* Every set of numbers that is not empty has a least one.
LEMMA LeastNat ==
    ASSUME NEW T, T \subseteq Nat, T # {}
    PROVE  Min(T) \in T /\ \A y \in T : Min(T) <= y
<1>1. \E x \in T : \A y \in T : <<y, x>> \notin OpToRel(<, Nat)
  BY WFMin, NatLessThanWellFounded, Zenon
<1>2. PICK x \in T : \A y \in T : <<y, x>> \notin OpToRel(<, Nat)
  BY <1>1, Zenon
<1>3. \A y \in T : x <= y
  <2> SUFFICES ASSUME NEW y \in T PROVE x <= y
    OBVIOUS
  <2>1. ~(y < x)
    BY <1>2 DEF OpToRel
  <2> QED
    BY <2>1
<1> QED
  BY <1>3, Zenon DEF Min

\* interrupt_delta and raw deadlines are numbers.
LEMMA DeltaIsNat == interrupt_delta \in Nat
BY TimerConstants, TicksMonotone DEF interrupt_delta

\* Raw deadlines are numbers, in the order of the times.
LEMMA RawMonotone ==
    ASSUME NEW a \in Nat, NEW b \in Nat, a <= b
    PROVE  ns_to_raw_ticks(a) \in Nat /\ ns_to_raw_ticks(a) <= ns_to_raw_ticks(b)
BY TimerConstants, TicksMonotone DEF ns_to_raw_ticks

\* Those who sleep on after wake_sleepers() slept before and are not due.
LEMMA SleepOn ==
    ASSUME NEW wake \in [Sleepers -> Nat \cup {Awake}], NEW raw \in Nat, raw >= BootTsc
    PROVE  /\ wake_sleepers(wake, raw) \in [Sleepers -> Nat \cup {Awake}]
           /\ \A p \in Asleep(wake_sleepers(wake, raw)) :
                 /\ p \in Asleep(wake) /\ wake_sleepers(wake, raw)[p] = wake[p]
                 /\ wake[p] \in Nat /\ raw <= ns_to_raw_ticks(wake[p])
<1>1. get_time_ns(raw) \in Nat
  BY TimeIsNat
<1>2. wake_sleepers(wake, raw) \in [Sleepers -> Nat \cup {Awake}]
  BY Zenon DEF wake_sleepers
<1>3. ASSUME NEW p \in Asleep(wake_sleepers(wake, raw))
      PROVE  /\ p \in Asleep(wake) /\ wake_sleepers(wake, raw)[p] = wake[p]
             /\ wake[p] \in Nat /\ raw <= ns_to_raw_ticks(wake[p])
  <2>1. p \in Sleepers /\ wake_sleepers(wake, raw)[p] # Awake
    BY <1>3, Zenon DEF Asleep
  <2>2. ~(wake[p] <= get_time_ns(raw)) /\ wake_sleepers(wake, raw)[p] = wake[p]
    BY <2>1, Zenon DEF wake_sleepers
  <2>3. wake[p] \in Nat /\ p \in Asleep(wake)
    BY <2>1, <2>2, Zenon DEF Asleep
  <2>4. get_time_ns(raw) < wake[p]
    BY <1>1, <2>2, <2>3
  <2> QED
    BY <2>2, <2>3, <2>4, NotDueYet
<1> QED
  BY <1>2, <1>3, Zenon

\* The handler arms no later than one tick ahead and for the first sleeper.
LEMMA NextDeadline ==
    ASSUME TimerTypeOK, NEW deadline \in Nat
    PROVE  /\ OrNextSleeper(deadline) \in Nat /\ OrNextSleeper(deadline) <= deadline
           /\ \A p \in Asleep(wake_time_ns) :
                 OrNextSleeper(deadline) <= ns_to_raw_ticks(wake_time_ns[p])
<1> DEFINE T == {wake_time_ns[p] : p \in Asleep(wake_time_ns)}
<1>1. T \subseteq Nat /\ \A p \in Asleep(wake_time_ns) : wake_time_ns[p] \in T
  BY Zenon DEF TimerTypeOK, Asleep
<1>2. CASE Asleep(wake_time_ns) = {}
  BY <1>2 DEF OrNextSleeper
<1>3. CASE Asleep(wake_time_ns) # {}
  <2> DEFINE g == get_next_sleeper(wake_time_ns)
  <2>1. Min(T) \in T /\ \A y \in T : Min(T) <= y
    BY <1>1, <1>3, LeastNat, Zenon
  <2>2. g = ns_to_raw_ticks(Min(T)) /\ Min(T) \in Nat
    BY <1>1, <2>1, Zenon DEF get_next_sleeper
  <2>3. g \in Nat /\ \A p \in Asleep(wake_time_ns) :
           g <= ns_to_raw_ticks(wake_time_ns[p]) /\ ns_to_raw_ticks(wake_time_ns[p]) \in Nat
    <3>1. g \in Nat
      BY <2>2, RawMonotone
    <3>2. ASSUME NEW p \in Asleep(wake_time_ns)
          PROVE  g <= ns_to_raw_ticks(wake_time_ns[p]) /\ ns_to_raw_ticks(wake_time_ns[p]) \in Nat
      <4>1. wake_time_ns[p] \in Nat /\ Min(T) <= wake_time_ns[p]
        BY <1>1, <2>1, Zenon
      <4> QED
        BY <2>2, <4>1, RawMonotone
    <3> QED
      BY <3>1, <3>2, Zenon
  <2>4. OrNextSleeper(deadline) = IF g < deadline THEN g ELSE deadline
    BY <1>3, Zenon DEF OrNextSleeper
  <2> HIDE DEF g
  <2> QED
    BY <2>3, <2>4
<1> QED
  BY <1>2, <1>3

\* timer_init() establishes the invariant.
LEMMA TimerInitInv == timer_init => TimerInv
<1> SUFFICES ASSUME timer_init PROVE TimerInv
  OBVIOUS
<1>1. Asleep(wake_time_ns) = {} /\ wake_time_ns \in [Sleepers -> Nat \cup {Awake}]
  BY Zenon DEF timer_init, Asleep
<1>2. TimerTypeOK
  BY <1>1, TimerConstants, DeltaIsNat DEF timer_init, TimerTypeOK
<1>3. armed < tsc + interrupt_delta
  BY TimerConstants, DeltaIsNat DEF timer_init
<1> QED
  BY <1>1, <1>2, <1>3, Zenon DEF timer_init, TimerInv, ArmedForEarliest

\* apic_timer_handler() keeps it.
LEMMA HandlerKeeps ==
    ASSUME TimerInv, apic_timer_handler
    PROVE  TimerInv'
<1> DEFINE d == interrupt_delta
           wake == wake_sleepers(wake_time_ns, tsc)
           next == OrNextSleeper(interrupt_deadline + d)
<1>1. /\ tsc \in Nat /\ tsc >= BootTsc /\ tsc < MaxTsc /\ armed \in Nat /\ armed <= tsc
      /\ interrupt_deadline = armed /\ d \in Nat /\ d > 1
      /\ wake_time_ns \in [Sleepers -> Nat \cup {Awake}]
  BY TimerConstants, TickAssumption, DeltaIsNat
     DEF TimerInv, TimerTypeOK, apic_timer_handler, Pending
<1>2. /\ interrupt_deadline' = next /\ armed' = next /\ wake_time_ns' = wake
      /\ fresh' = {} /\ tsc' = tsc + 1 /\ held_off' = 0
  BY Zenon DEF apic_timer_handler
<1> HIDE DEF d
<1>3. /\ wake \in [Sleepers -> Nat \cup {Awake}]
      /\ \A p \in Asleep(wake) :
            /\ p \in Asleep(wake_time_ns) /\ wake[p] = wake_time_ns[p]
            /\ wake[p] \in Nat /\ tsc <= ns_to_raw_ticks(wake[p])
  BY ONLY <1>1, SleepOn
<1>4. /\ next \in Nat /\ next <= armed + d
      /\ \A p \in Asleep(wake_time_ns) : next <= ns_to_raw_ticks(wake_time_ns[p])
  <2>1. TimerTypeOK /\ interrupt_deadline + d \in Nat
    BY <1>1 DEF TimerInv
  <2> QED
    BY <1>1, <2>1, NextDeadline
<1> HIDE DEF wake, next
<1>5. TimerTypeOK'
  BY <1>1, <1>2, <1>3, <1>4, TimerConstants DEF TimerTypeOK
<1>6. ArmedForEarliest'
  BY <1>2, <1>3, <1>4 DEF ArmedForEarliest
<1>7. armed' < tsc' + d
  BY <1>1, <1>2, <1>4
<1>8. ASSUME NEW p \in Asleep(wake) PROVE DeadlineAhead(p)'
  <2> DEFINE r == ns_to_raw_ticks(wake_time_ns'[p])
  <2>1. r \in Nat /\ tsc <= r /\ next <= r
    BY <1>2, <1>3, <1>4, RawMonotone
  <2> HIDE DEF r
  <2>2. IF tsc' >= armed' THEN tsc' - held_off' < r + d ELSE armed' < r + d
    BY <1>1, <1>2, <1>4, <2>1
  <2> QED
    BY <2>2, Zenon DEF DeadlineAhead, Pending, r, d, interrupt_delta
<1> QED
  BY <1>2, <1>5, <1>6, <1>7, <1>8, Zenon DEF TimerInv, d, interrupt_delta

\* So does the passing of time.
LEMMA TimeKeeps ==
    ASSUME TimerInv, Elapse
    PROVE  TimerInv'
<1> DEFINE d == interrupt_delta
<1>1. /\ tsc \in Nat /\ tsc >= BootTsc /\ tsc < MaxTsc /\ armed \in Nat /\ d \in Nat
      /\ held_off \in 0..MaxHold /\ armed < tsc + d
  BY TimerConstants, DeltaIsNat DEF TimerInv, TimerTypeOK, Elapse
<1>2. /\ tsc' = tsc + 1 /\ UNCHANGED <<interrupt_deadline, armed, wake_time_ns, fresh>>
      /\ held_off' = IF tsc >= armed THEN held_off + 1 ELSE 0
      /\ tsc >= armed => held_off < MaxHold
  BY Zenon DEF Elapse, Pending
<1> HIDE DEF d
<1>3. TimerTypeOK'
  BY <1>1, <1>2, TimerConstants DEF TimerTypeOK, TimerInv
<1>4. ArmedForEarliest'
  BY <1>2 DEF ArmedForEarliest, TimerInv
<1>5. ASSUME NEW p \in Asleep(wake_time_ns) PROVE DeadlineAhead(p)'
  <2> DEFINE r == ns_to_raw_ticks(wake_time_ns[p])
  <2>1. r \in Nat
    BY <1>5, RawMonotone DEF TimerInv, TimerTypeOK, Asleep
  <2>2. IF tsc >= armed THEN tsc - held_off < r + d ELSE armed < r + d
    BY <1>5, Zenon DEF TimerInv, DeadlineAhead, Pending, d
  <2>3. r = ns_to_raw_ticks(wake_time_ns'[p])
    BY <1>2, Zenon
  <2> HIDE DEF r
  <2>4. IF tsc' >= armed' THEN tsc' - held_off' < r + d ELSE armed' < r + d
    BY <1>1, <1>2, <2>1, <2>2
  <2> QED
    BY <2>3, <2>4, Zenon DEF DeadlineAhead, Pending, d, interrupt_delta
<1>6. armed' < tsc' + d
  BY <1>1, <1>2
<1> QED
  BY <1>2, <1>3, <1>4, <1>5, <1>6, Zenon DEF TimerInv, d, interrupt_delta

\* And so does yield_sleep_ns(), with the look at the due sleepers in it.
LEMMA SleepKeeps ==
    ASSUME TimerInv, NEW p \in Sleepers, yield_sleep_ns(p)
    PROVE  TimerInv'
<1> DEFINE d == interrupt_delta
<1>1. /\ tsc \in Nat /\ tsc >= BootTsc /\ armed \in Nat /\ d \in Nat /\ d > 1
      /\ held_off \in 0..MaxHold /\ armed < tsc + d /\ fresh \subseteq Sleepers
      /\ wake_time_ns \in [Sleepers -> Nat \cup {Awake}]
  BY TimerConstants, TickAssumption, DeltaIsNat DEF TimerInv, TimerTypeOK
<1>2. /\ UNCHANGED <<tsc, interrupt_deadline, armed, held_off>> /\ fresh' = fresh \cup {p}
  BY Zenon DEF yield_sleep_ns
<1>3. PICK duration \in 0..MaxSleepNs :
         wake_time_ns' = wake_sleepers(
             [wake_time_ns EXCEPT ![p] = get_time_ns(tsc) + duration], tsc)
  BY Zenon DEF yield_sleep_ns
<1> DEFINE w == get_time_ns(tsc) + duration
           W == [wake_time_ns EXCEPT ![p] = w]
<1>4. w \in Nat
  BY <1>1, TimeIsNat, TimerConstants
<1>5. wake_time_ns' = wake_sleepers(W, tsc)
  BY <1>3, Zenon
<1> HIDE DEF w, d
<1>6. W \in [Sleepers -> Nat \cup {Awake}]
  BY <1>1, <1>4, Zenon
<1>7. \A q \in Sleepers : q # p => W[q] = wake_time_ns[q]
  BY <1>1, Zenon
<1> HIDE DEF W
<1>8. /\ wake_time_ns' \in [Sleepers -> Nat \cup {Awake}]
      /\ \A q \in Asleep(wake_time_ns') :
            /\ q \in Asleep(W) /\ wake_time_ns'[q] = W[q]
            /\ wake_time_ns'[q] \in Nat /\ tsc <= ns_to_raw_ticks(wake_time_ns'[q])
  BY ONLY <1>1, <1>5, <1>6, SleepOn
<1>9. \A q \in Asleep(wake_time_ns') : q \in Sleepers /\
         (q # p => q \in Asleep(wake_time_ns) /\ wake_time_ns'[q] = wake_time_ns[q])
  BY <1>7, <1>8, Zenon DEF Asleep
<1>10. TimerTypeOK'
  BY <1>1, <1>2, <1>8 DEF TimerTypeOK, TimerInv
<1>11. ArmedForEarliest'
  BY <1>2, <1>9, Zenon DEF ArmedForEarliest, TimerInv
<1>12. ASSUME NEW q \in Asleep(wake_time_ns') PROVE DeadlineAhead(q)'
  <2> DEFINE r == ns_to_raw_ticks(wake_time_ns'[q])
  <2>1. r \in Nat /\ tsc <= r
    BY <1>8, RawMonotone
  <2>2. q # p => IF tsc >= armed THEN tsc - held_off < r + d ELSE armed < r + d
    BY <1>9, Zenon DEF TimerInv, DeadlineAhead, Pending, d
  <2> HIDE DEF r
  <2>3. IF tsc' >= armed' THEN tsc' - held_off' < r + d ELSE armed' < r + d
    BY <1>1, <1>2, <2>1, <2>2
  <2> QED
    BY <2>3, Zenon DEF DeadlineAhead, Pending, r, d, interrupt_delta
<1>13. armed' < tsc' + d
  BY <1>1, <1>2
<1> QED
  BY <1>2, <1>10, <1>11, <1>12, <1>13, Zenon DEF TimerInv, d, interrupt_delta

\* apic_timer_handler() always arms the timer again, early enough for the next tick
\* and for every sleeper, whatever the TSC's frequency and however the conversions
\* between ticks and nanoseconds round.
THEOREM TimerIsInTime == TimerSpec => []TimerInTime
<1>1. TimerInv /\ [TimerNext]_timerVars => TimerInv'
  <2> SUFFICES ASSUME TimerInv, [TimerNext]_timerVars PROVE TimerInv'
    OBVIOUS
  <2>1. CASE UNCHANGED timerVars
    BY <2>1 DEF timerVars, TimerInv, TimerTypeOK, ArmedForEarliest, DeadlineAhead, Pending
  <2> QED
    BY <2>1, HandlerKeeps, TimeKeeps, SleepKeeps, Zenon DEF TimerNext
<1>2. TimerInv => TimerInTime
  <2> SUFFICES ASSUME TimerInv PROVE TimerInTime
    OBVIOUS
  <2>1. /\ tsc \in Nat /\ armed \in Nat /\ interrupt_delta \in Nat /\ held_off \in 0..MaxHold
        /\ armed < tsc + interrupt_delta /\ MaxHold \in Nat
    BY TimerConstants, DeltaIsNat DEF TimerInv, TimerTypeOK
  <2>2. ArmedWithinTick
    BY <2>1 DEF ArmedWithinTick
  <2>3. ASSUME NEW p \in Asleep(wake_time_ns)
        PROVE  tsc < ns_to_raw_ticks(wake_time_ns[p]) + interrupt_delta + MaxHold
    <3>1. ns_to_raw_ticks(wake_time_ns[p]) \in Nat
      BY <2>3, RawMonotone DEF TimerInv, TimerTypeOK, Asleep
    <3>2. IF tsc >= armed THEN tsc - held_off < ns_to_raw_ticks(wake_time_ns[p]) + interrupt_delta
          ELSE armed < ns_to_raw_ticks(wake_time_ns[p]) + interrupt_delta
      BY <2>3, Zenon DEF TimerInv, DeadlineAhead, Pending
    <3> QED
      BY <2>1, <3>1, <3>2
  <2> QED
    BY <2>2, <2>3, Zenon DEF TimerInTime, TimerInv, WokenInTime
<1> QED
  BY TimerInitInv, <1>1, <1>2, PTL DEF TimerSpec

-----------------------------------------------------------------------------
(* Routing.                                                                *)

Override == [source : Irqs, gsi : Gsis, flags : Flags]

\* What the entry r says is what the table says.
AsTabled(r) ==
    /\ r.pin \in 0..(Pins - 1)
    /\ \A iso \in Range(overrides) : iso.source = r.irq =>
         /\ r.ioapic + r.pin = iso.gsi
         /\ r.low = (iso.flags \in {ActiveLow, ActiveLow + Level})
         /\ r.level = (iso.flags \in {Level, ActiveLow + Level})
    /\ (\A iso \in Range(overrides) : iso.source # r.irq) =>
         r.ioapic + r.pin = r.irq /\ ~r.low /\ ~r.level

MadtInv ==
    /\ ioapics \in Seq(Bases) /\ overrides \in Seq(Override)
    /\ \A i, j \in DOMAIN overrides : overrides[i].source = overrides[j].source => i = j
    /\ lapic_addr \in {HeaderAddr, OverrideAddr} /\ route_panicked \in BOOLEAN
    /\ \A r \in redirections : r.irq \in Irqs /\ r.ioapic \in Bases /\ AsTabled(r)

\* The bits of a redirection entry are those of the override's flags.
LEMMA FlagBits ==
    ASSUME NEW flags \in Flags
    PROVE  /\ (flags % 4 = ActiveLow) = (flags \in {ActiveLow, ActiveLow + Level})
           /\ (flags \div 4 = 3) = (flags \in {Level, ActiveLow + Level})
<1>1. flags = 0 \/ flags = 3 \/ flags = 12 \/ flags = 15
  BY DEF Flags, Conforms, ActiveLow, Level
<1>2. 0 % 4 = 0 /\ 3 % 4 = 3 /\ 12 % 4 = 0 /\ 15 % 4 = 3
  OBVIOUS
<1>3. 0 \div 4 = 0 /\ 3 \div 4 = 0 /\ 12 \div 4 = 3 /\ 15 \div 4 = 3
  OBVIOUS
<1> QED
  BY <1>1, <1>2, <1>3 DEF ActiveLow, Level

\* ioapic_route_irq() writes what the table says.
LEMMA RouteKeeps ==
    ASSUME MadtInv, NEW irq \in Irqs, ioapic_route_irq(irq)
    PROVE  MadtInv'
<1> DEFINE gsi   == get_gsi_for_irq(irq)
           found == get_ioapic_for_gsi(gsi)
           flags == IF OverridesFor(irq) # {} THEN get_override_for_irq(irq).flags ELSE Conforms
           base  == ioapics[Min(found)]
           r     == Redirection(irq, base, gsi, flags)
<1>1. UNCHANGED <<ioapics, overrides, lapic_addr>>
  BY Zenon DEF ioapic_route_irq
<1>2. \/ found = {} /\ route_panicked' = TRUE /\ UNCHANGED redirections
      \/ found # {} /\ redirections' = redirections \cup {r} /\ UNCHANGED route_panicked
  BY Zenon DEF ioapic_route_irq
<1>3. \A x : AsTabled(x) => AsTabled(x)'
  BY <1>1, Zenon DEF AsTabled
<1>4. CASE found = {} /\ route_panicked' = TRUE /\ UNCHANGED redirections
  BY <1>1, <1>3, <1>4, Zenon DEF MadtInv
<1>5. CASE found # {} /\ redirections' = redirections \cup {r} /\ UNCHANGED route_panicked
  <2>1. /\ ioapics \in Seq(Bases) /\ overrides \in Seq(Override)
        /\ DOMAIN ioapics \subseteq Nat /\ DOMAIN overrides \subseteq Nat
        /\ \A i \in DOMAIN ioapics : ioapics[i] \in Bases
        /\ \A i \in DOMAIN overrides : overrides[i] \in Override
    BY DEF MadtInv
  <2>2. Min(found) \in found
    <3>1. found \subseteq Nat
      BY <2>1, Zenon DEF get_ioapic_for_gsi
    <3> QED
      BY <1>5, <3>1, LeastNat, Zenon
  <2>3. base \in Bases /\ gsi >= base /\ gsi < base + Pins
    BY <2>1, <2>2 DEF get_ioapic_for_gsi
  <2> HIDE DEF base, gsi, flags, found
  <2>4. /\ r.irq = irq /\ r.ioapic = base /\ r.pin = gsi - base
        /\ r.low = (flags % 4 = ActiveLow) /\ r.level = (flags \div 4 = 3)
    BY Zenon DEF Redirection
  <2> HIDE DEF r
  <2>5. gsi \in Nat /\ flags \in Flags /\ AsTabled(r)
    <3>1. CASE OverridesFor(irq) = {}
      <4>1. gsi = irq /\ flags = Conforms /\ irq \in Nat
        BY <3>1, MadtAssumption, Zenon DEF gsi, flags, get_gsi_for_irq
      <4>2. \A iso \in Range(overrides) : iso.source # irq
        BY <3>1, Zenon DEF Range, OverridesFor
      <4>3. flags \in Flags /\ flags \notin {ActiveLow, ActiveLow + Level, Level}
        BY <4>1 DEF Flags, Conforms, ActiveLow, Level
      <4>4. ~r.low /\ ~r.level
        BY <2>4, <4>3, FlagBits, Zenon
      <4>5. r.pin \in 0..(Pins - 1) /\ r.ioapic + r.pin = irq
        BY <2>3, <2>4, <4>1, MadtAssumption
      <4> QED
        BY <2>4, <4>1, <4>2, <4>3, <4>4, <4>5, Zenon DEF AsTabled
    <3>2. CASE OverridesFor(irq) # {}
      <4> DEFINE i == Min(OverridesFor(irq))
                 iso == overrides[i]
      <4>1. i \in OverridesFor(irq)
        <5>1. OverridesFor(irq) \subseteq Nat
          BY <2>1, Zenon DEF OverridesFor
        <5> QED
          BY <3>2, <5>1, LeastNat, Zenon
      <4>2. i \in DOMAIN overrides /\ iso.source = irq /\ iso \in Override
        BY <2>1, <4>1, Zenon DEF OverridesFor
      <4>3. gsi = iso.gsi /\ flags = iso.flags
        BY <3>2, Zenon DEF gsi, flags, get_gsi_for_irq, get_override_for_irq
      <4>4. gsi \in Nat /\ flags \in Flags
        BY <4>2, <4>3, MadtAssumption DEF Override
      <4>5. \A o \in Range(overrides) : o.source = irq => o = iso
        BY <4>2, Zenon DEF Range, MadtInv
      <4>6. iso \in Range(overrides)
        BY <4>2, Zenon DEF Range
      <4>7. /\ r.low = (flags \in {ActiveLow, ActiveLow + Level})
            /\ r.level = (flags \in {Level, ActiveLow + Level})
        BY <2>4, <4>4, FlagBits, Zenon
      <4>8. r.pin \in 0..(Pins - 1) /\ r.ioapic + r.pin = gsi
        BY <2>3, <2>4, <4>4, MadtAssumption
      <4> HIDE DEF iso, i
      <4>9. ASSUME NEW o \in Range(overrides), o.source = r.irq
            PROVE  /\ r.ioapic + r.pin = o.gsi
                   /\ r.low = (o.flags \in {ActiveLow, ActiveLow + Level})
                   /\ r.level = (o.flags \in {Level, ActiveLow + Level})
        <5>1. o = iso
          BY <2>4, <4>5, <4>9, Zenon
        <5> QED
          BY <4>3, <4>7, <4>8, <5>1, Zenon
      <4> QED
        BY <2>4, <4>2, <4>4, <4>6, <4>8, <4>9, Zenon DEF AsTabled
    <3> QED
      BY <3>1, <3>2
  <2>6. \A x \in redirections' : x.irq \in Irqs /\ x.ioapic \in Bases /\ AsTabled(x)
    BY <1>5, <2>3, <2>4, <2>5, Zenon DEF MadtInv
  <2>7. \A x \in redirections' : x.irq \in Irqs /\ x.ioapic \in Bases /\ AsTabled(x)'
    BY <1>3, <2>6, Zenon
  <2> QED
    BY <1>1, <1>5, <2>7, Zenon DEF MadtInv
<1> QED
  BY <1>2, <1>4, <1>5, Zenon

\* Reading one more record keeps the invariant: nothing is routed yet.
LEMMA ParseKeeps ==
    ASSUME MadtInv, parse_ioapic \/ parse_ioapic_iso \/ parse_lapic_addr_override
    PROVE  MadtInv'
<1>1. redirections' = {} /\ route_panicked' = route_panicked
  BY Zenon DEF parse_ioapic, parse_ioapic_iso, parse_lapic_addr_override, MoreRecords
<1>2. CASE parse_ioapic
  <2>1. PICK base \in Bases : ioapics' = Append(ioapics, base)
    BY <1>2, Zenon DEF parse_ioapic
  <2>2. ioapics' \in Seq(Bases)
    BY <2>1 DEF MadtInv
  <2> QED
    BY <1>1, <1>2, <2>2, Zenon DEF parse_ioapic, MadtInv
<1>3. CASE parse_ioapic_iso
  <2>1. PICK source \in Irqs, gsi \in Gsis, flags \in Flags :
           /\ \A i \in DOMAIN overrides : overrides[i].source # source
           /\ overrides' = Append(overrides, [source |-> source, gsi |-> gsi, flags |-> flags])
    BY <1>3, Zenon DEF parse_ioapic_iso
  <2> DEFINE iso == [source |-> source, gsi |-> gsi, flags |-> flags]
  <2>2. iso \in Override /\ iso.source = source
    BY Zenon DEF Override
  <2> HIDE DEF iso
  <2>3. overrides' = Append(overrides, iso)
    BY <2>1, Zenon DEF iso
  <2>4. /\ overrides' \in Seq(Override)
        /\ \A i \in DOMAIN overrides' :
              \/ (i = Len(overrides) + 1 /\ overrides'[i] = iso)
              \/ (i \in DOMAIN overrides /\ overrides'[i] = overrides[i])
    <3>1. overrides \in Seq(Override)
      BY Zenon DEF MadtInv
    <3> QED
      BY ONLY <2>2, <2>3, <3>1
  <2>5. ASSUME NEW i \in DOMAIN overrides', NEW j \in DOMAIN overrides',
               overrides'[i].source = overrides'[j].source
        PROVE  i = j
    <3>1. CASE i \in DOMAIN overrides /\ overrides'[i] = overrides[i]
      BY <2>1, <2>2, <2>4, <2>5, <3>1, Zenon DEF MadtInv
    <3>2. CASE i = Len(overrides) + 1 /\ overrides'[i] = iso
      BY <2>1, <2>2, <2>4, <2>5, <3>2, Zenon
    <3> QED
      BY <2>4, <3>1, <3>2, Zenon
  <2> QED
    BY <1>1, <1>3, <2>4, <2>5, Zenon DEF parse_ioapic_iso, MadtInv
<1>4. CASE parse_lapic_addr_override
  BY <1>1, <1>4 DEF parse_lapic_addr_override, MadtInv
<1> QED
  BY <1>2, <1>3, <1>4

\* ioapic_route_irq() writes the entry that the firmware's table means, whatever the
\* order and the number of its records.
THEOREM RoutingIsAsTabled == MadtSpec => []RoutedAsTabled
<1>1. MadtInit => MadtInv
  <2> SUFFICES ASSUME MadtInit PROVE MadtInv
    OBVIOUS
  <2>1. /\ ioapics \in Seq(Bases) /\ overrides \in Seq(Override) /\ DOMAIN overrides = {}
    BY DEF MadtInit
  <2> QED
    BY <2>1, Zenon DEF MadtInit, MadtInv
<1>2. MadtInv /\ [MadtNext]_madtVars => MadtInv'
  <2> SUFFICES ASSUME MadtInv, [MadtNext]_madtVars PROVE MadtInv'
    OBVIOUS
  <2>1. CASE UNCHANGED madtVars
    BY <2>1 DEF madtVars, MadtInv, AsTabled
  <2>2. IRQ_KEYBOARD \in Irqs
    BY MadtAssumption DEF IRQ_KEYBOARD
  <2> QED
    BY <2>1, <2>2, ParseKeeps, RouteKeeps, Zenon DEF MadtNext
<1>3. MadtInv => RoutedAsTabled
  <2> SUFFICES ASSUME MadtInv PROVE RoutedAsTabled
    OBVIOUS
  <2>1. Range(ioapics) \subseteq Bases /\ Range(overrides) \subseteq Override
    BY DEF MadtInv, Range
  <2>2. MadtTypeOK
    BY <2>1 DEF MadtInv, MadtTypeOK, Override
  <2> QED
    BY <2>2, Zenon DEF MadtInv, RoutedAsTabled, AsTabled
<1> QED
  BY <1>1, <1>2, <1>3, PTL DEF MadtSpec

=============================================================================
