-------------------------------- MODULE Kmutex --------------------------------
(***************************************************************************)
(* kmutex (lib/exclusive/kmutex.cpp) with the scheduler operations that    *)
(* block and wake its users: yield_mutex(), wake_mutex(), yield_blocked()  *)
(* and preempt().  The threads are kernel threads of one CPU that run with *)
(* interrupts enabled, so a tick may come between any two steps.           *)
(***************************************************************************)
EXTENDS Integers, Sequences, FiniteSets

CONSTANT N  \* number of threads using the mutex

ASSUME KmutexAssumption == N \in Nat \ {0}

Threads == 1..N
Idle == 0

VARIABLES lock,        \* _lock: 1 when the mutex is free
          state,       \* Process::state of each thread
          wait_mutex,  \* Process::wait_mutex is this mutex
          queue,       \* the policy's ready queue
          cpu,         \* percpu->process
          at,          \* where each thread is
          missed       \* history: the threads that were preempted between the
                       \* exchange that failed and the block it leads to

vars == <<lock, state, wait_mutex, queue, cpu, at, missed>>

\* out: outside; test: before the exchange of lock(); failed: the exchange
\* returned 0; marked: inside yield_mutex() before yield_blocked(); in: the
\* mutex is held; stored: in unlock() before wake_mutex().
Places == {"out", "test", "failed", "marked", "in", "stored"}

\* Between the failed test and the block.
Gap == {"failed", "marked"}

TypeOK ==
    /\ lock \in {0, 1}
    /\ state \in [Threads -> {"RUNNING", "READY", "BLOCKED"}]
    /\ wait_mutex \in [Threads -> BOOLEAN]
    /\ queue \in Seq(Threads)
    /\ cpu \in Threads \cup {Idle}
    /\ at \in [Threads -> Places]
    /\ missed \subseteq Threads

Init ==
    /\ lock = 1
    /\ state = [t \in Threads |-> "READY"]
    /\ wait_mutex = [t \in Threads |-> FALSE]
    /\ queue = [i \in 1..N |-> i]
    /\ cpu = Idle
    /\ at = [t \in Threads |-> "out"]
    /\ missed = {}

-----------------------------------------------------------------------------
(* The thread on the CPU.                                                  *)

Goto(t, place) == at' = [at EXCEPT ![t] = place]

Moves(t, from, to) == cpu = t /\ at[t] = from /\ Goto(t, to)

\* The thread calls lock().
CallLock(t) ==
    /\ Moves(t, "out", "test")
    /\ UNCHANGED <<lock, state, wait_mutex, queue, cpu, missed>>

\* Mutant: load() in the place of exchange(0).
Bug_load_only(t) ==
    /\ cpu = t /\ at[t] = "test"
    /\ Goto(t, IF lock = 1 THEN "in" ELSE "failed")
    /\ missed' = missed \ {t}
    /\ UNCHANGED <<lock, state, wait_mutex, queue, cpu>>

\* _lock.exchange(0) == 1
Exchange(t) ==
    /\ cpu = t /\ at[t] = "test"
    /\ lock' = 0
    /\ Goto(t, IF lock = 1 THEN "in" ELSE "failed")
    /\ missed' = missed \ {t}
    /\ UNCHANGED <<state, wait_mutex, queue, cpu>>

\* yield_mutex(): wait_for_mutex() outside the lock of the process list.
wait_for_mutex(t) ==
    /\ Moves(t, "failed", "marked")
    /\ state' = [state EXCEPT ![t] = "BLOCKED"]
    /\ wait_mutex' = [wait_mutex EXCEPT ![t] = TRUE]
    /\ UNCHANGED <<lock, queue, cpu, missed>>

\* pick_next_process() and activate_process(): resume() clears wait_mutex.
Dispatch(s, w, q) ==
    IF q = <<>>
    THEN cpu' = Idle /\ state' = s /\ wait_mutex' = w /\ queue' = q
    ELSE /\ cpu' = Head(q)
         /\ state' = [s EXCEPT ![Head(q)] = "RUNNING"]
         /\ wait_mutex' = [w EXCEPT ![Head(q)] = FALSE]
         /\ queue' = Tail(q)

\* yield_blocked(MUTEX): BLOCKED again, whatever happened since the mark.
\* The thread continues at the head of lock()'s loop.
yield_blocked(t) ==
    /\ Moves(t, "marked", "test")
    /\ Dispatch([state EXCEPT ![t] = "BLOCKED"], wait_mutex, queue)
    /\ UNCHANGED <<lock, missed>>

\* unlock(): _lock.store(1)
Store(t) ==
    /\ Moves(t, "in", "stored")
    /\ lock' = 1
    /\ UNCHANGED <<state, wait_mutex, queue, cpu, missed>>

\* The processes wake_mutex() wakes, and the order of the process list.
Waiters == {t \in Threads : state[t] = "BLOCKED" /\ wait_mutex[t]}

ListOrder(S) ==
    {o \in [1..Cardinality(S) -> S] : \A i, j \in 1..Cardinality(S) : i < j => o[i] < o[j]}

Wake(S) ==
    /\ state' = [q \in Threads |-> IF q \in S THEN "READY" ELSE state[q]]
    /\ wait_mutex' = [q \in Threads |-> wait_mutex[q] /\ q \notin S]
    /\ \E order \in ListOrder(S) : queue' = queue \o order

\* Mutant: only the first waiter is woken, as wake_single() would.
Bug_wake_first(t) ==
    /\ Moves(t, "stored", "out")
    /\ Wake({q \in Waiters : \A r \in Waiters : q <= r})
    /\ UNCHANGED <<lock, cpu, missed>>

\* unlock(): wake_mutex()
wake_mutex(t) ==
    /\ Moves(t, "stored", "out")
    /\ Wake(Waiters)
    /\ UNCHANGED <<lock, cpu, missed>>

-----------------------------------------------------------------------------
(* The tick.                                                               *)

Miss == missed' = missed \cup {t \in {cpu} \ {Idle} : at[t] \in Gap}

\* Mutant: the current thread is put back in front of the others.
Bug_requeue_front ==
    /\ \/ cpu = Idle /\ queue # <<>> /\ Dispatch(state, wait_mutex, queue)
       \/ /\ cpu # Idle /\ queue # <<>>
          /\ IF state[cpu] = "RUNNING"
             THEN Dispatch([state EXCEPT ![cpu] = "READY"], wait_mutex,
                           <<Head(queue), cpu>> \o Tail(queue))
             ELSE Dispatch(state, wait_mutex, queue)
    /\ Miss
    /\ UNCHANGED <<lock, at>>

\* preempt(): pick the next, pause() the current and queue it if runnable.
\* A thread that has marked itself BLOCKED leaves the CPU without a place in
\* the queue.
preempt ==
    /\ \/ cpu = Idle /\ queue # <<>> /\ Dispatch(state, wait_mutex, queue)
       \/ /\ cpu # Idle
          /\ LET paused == state[cpu] = "RUNNING"
                 s == IF paused THEN [state EXCEPT ![cpu] = "READY"] ELSE state
                 back == IF paused THEN <<cpu>> ELSE <<>>
             IN  IF queue = <<>>
                 THEN /\ cpu' = Idle /\ state' = s /\ queue' = back
                      /\ UNCHANGED wait_mutex
                 ELSE Dispatch(s, wait_mutex, queue \o back)
    /\ Miss
    /\ UNCHANGED <<lock, at>>

ThreadStep(t) ==
    \/ Exchange(t) \/ wait_for_mutex(t) \/ yield_blocked(t) \/ Store(t) \/ wake_mutex(t)

Next == preempt \/ \E t \in Threads : CallLock(t) \/ ThreadStep(t)

Spec == Init /\ [][Next]_vars

\* The tick comes again and again, and a thread that is given the CPU again
\* and again gets on with its critical section.
FairSpec ==
    /\ Spec
    /\ WF_vars(preempt)
    /\ \A t \in Threads : SF_vars(ThreadStep(t))

-----------------------------------------------------------------------------
(* Properties.                                                             *)

NoOne == Idle

\* The thread between lock() and unlock().
owner == IF \E t \in Threads : at[t] = "in" THEN CHOOSE t \in Threads : at[t] = "in" ELSE NoOne

M == INSTANCE Mutex WITH Threads <- Threads, NoOne <- NoOne, owner <- owner

\* kmutex is a mutex: no thread returns from lock() before the one inside has
\* called unlock(), however the ticks fall.
IsMutex == M!MutexSpec

\* A thread that sleeps in yield_mutex() has a wake-up to come: the mutex is
\* held, or its last holder has not yet run wake_mutex(), and that wake-up
\* will recognise the thread.  The tick can break this only for the thread it
\* takes the CPU from, between its failed exchange and its block.
BlockedHasWaker ==
    \A t \in Threads \ missed : (state[t] = "BLOCKED" /\ cpu # t) =>
        /\ wait_mutex[t]
        /\ lock = 0 \/ \E h \in Threads : at[h] = "stored"

\* A thread that blocked on the mutex, and was not preempted on the way, is
\* given the CPU again, whatever became of the others.
BlockedRuns ==
    \A t \in Threads : (state[t] = "BLOCKED" /\ t \notin missed) ~> (cpu = t)

=============================================================================
