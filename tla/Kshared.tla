-------------------------------- MODULE Kshared --------------------------------
(***************************************************************************)
(* kshared_ptr (include/containers/kshared_ptr.hpp): pointers to counted   *)
(* objects, in threads that can be interrupted between the two halves of   *)
(* letting go, dec_refs() and destroy_if_no_refs().  As operators on       *)
(*   [ptr   |-> the object of each pointer variable, or Null,              *)
(*    refs  |-> the count of each object,                                  *)
(*    freed |-> how often each object was deleted,                         *)
(*    leaked |-> the counts nothing will take back,                        *)
(*    doing |-> what each thread is letting go of].                        *)
(* The count is a katomic: one access to it is one step.                   *)
(***************************************************************************)
EXTENDS Integers, Functions, FiniteSets

CONSTANTS Threads, Vars, Objects

Null == 0
None == [var |-> Null, from |-> Null, obj |-> Null]
New == [ptr |-> [x \in Vars |-> Null], refs |-> [o \in Objects |-> 0],
        freed |-> [o \in Objects |-> 0], leaked |-> [o \in Objects |-> 0],
        overlapped |-> {}, doing |-> [t \in Threads |-> None]]

Count(s, o, by) == IF o = Null THEN s ELSE [s EXCEPT !.refs[o] = @ + by]

\* make_kshared() of a new object into an empty pointer
make_kshared(s, x, o) == [s EXCEPT !.ptr[x] = o, !.refs[o] = 1]

\* kshared_ptr(const kshared_ptr&), kshared_ptr(kshared_ptr&&): x is new.
copy_construct(s, x, y) == Count([s EXCEPT !.ptr[x] = s.ptr[y]], s.ptr[y], 1)
move_construct(s, x, y) == [s EXCEPT !.ptr[x] = s.ptr[y], !.ptr[y] = Null]

\* operator=(const kshared_ptr&) does not let go of the object x had.
copy_assign(s, x, y) ==
    IF x = y THEN s
    ELSE copy_construct(IF s.ptr[x] = Null THEN s ELSE [s EXCEPT !.leaked[s.ptr[x]] = @ + 1], x, y)

\* The first half of ~kshared_ptr(), and of operator=(kshared_ptr&&) from y.
\* overlapped is history: the objects two threads let go of at a time.
dec_refs(s, t, x, y) ==
    LET o == s.ptr[x]
        others == {s.doing[u].obj : u \in Threads \ {t}}
    IN  Count([s EXCEPT !.doing[t] = [var |-> x, from |-> y, obj |-> o],
                        !.overlapped = IF o \in others \ {Null} THEN @ \cup {o} ELSE @], o, -1)

\* The second half: the count is read, and the object deleted if it is zero.
\* In a block that was freed before, the zero may be there still or not.
Finish(s, t, still, below) ==
    LET d == s.doing[t]
        zero == d.obj # Null /\ (IF s.freed[d.obj] = 0 THEN s.refs[d.obj] < below ELSE still)
        moved == IF d.from = Null THEN Null ELSE s.ptr[d.from]
    IN  [s EXCEPT !.freed = IF zero THEN [@ EXCEPT ![d.obj] = @ + 1] ELSE @,
                  !.ptr = [z \in Vars |-> CASE z = d.var -> moved [] z = d.from -> Null [] OTHER -> @[z]],
                  !.doing[t] = None]
destroy_if_no_refs(s, t, still) == Finish(s, t, still, 1)
=============================================================================
