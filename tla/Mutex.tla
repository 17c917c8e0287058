-------------------------------- MODULE Mutex --------------------------------
(***************************************************************************)
(* What kmutex promises its callers: at most one thread is between the     *)
(* return of lock() and the call of unlock().                              *)
(***************************************************************************)
CONSTANTS Threads, NoOne

VARIABLE owner

MutexInit == owner = NoOne

\* lock() returns in t.
Acquire(t) == owner = NoOne /\ owner' = t

\* unlock() gives the mutex up.
Release(t) == owner = t /\ owner' = NoOne

MutexNext == \E t \in Threads : Acquire(t) \/ Release(t)

MutexSpec == MutexInit /\ [][MutexNext]_owner

=============================================================================
