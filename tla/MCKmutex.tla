------------------------------ MODULE MCKmutex ------------------------------
(***************************************************************************)
(* Two or three threads on one kmutex.                                     *)
(***************************************************************************)
EXTENDS Kmutex

=============================================================================
