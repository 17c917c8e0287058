--------------------------------- MODULE Kheap ---------------------------------
(***************************************************************************)
(* kmin_heap and kmax_heap (include/containers): the array of nodes        *)
(* [key, value], as operators on a sequence.  The kind "min" or "max" says *)
(* which of the two it is; they differ in the comparisons only.  Indices   *)
(* are counted from 0, as in the code.                                     *)
(***************************************************************************)
EXTENDS Integers, Sequences, SequencesExt

get_left(i) == i * 2 + 1
get_right(i) == i * 2 + 2
get_parent(i) == (i - 1) \div 2
get_key(a, i) == a[i + 1].key
Swap(a, i, j) == [a EXCEPT ![i + 1] = a[j + 1], ![j + 1] = a[i + 1]]

Before(kind, x, y) == IF kind = "min" THEN x < y ELSE x > y

\* min_heapify(), max_heapify(): the root goes down to where it belongs, with
\* the right child compared to the better of the other two.
Sink(kind, a, root, right) ==
    LET best(b, i) ==
            LET l == get_left(i)
                r == get_right(i)
                s == IF l < Len(b) /\ Before(kind, get_key(b, l), get_key(b, i)) THEN l ELSE i
            IN  IF r < Len(b) /\ right /\ Before(kind, get_key(b, r), get_key(b, s)) THEN r ELSE s
        \* the number of swaps is at most that of the nodes
        step(s, k) == LET to == best(s.a, s.at)
                      IN  IF to = s.at THEN s ELSE [a |-> Swap(s.a, s.at, to), at |-> to]
    IN  FoldLeft(step, [a |-> a, at |-> root], a).a
Bug_left_only(kind, a, root) == Sink(kind, a, root, FALSE)
heapify(kind, a, root) == Sink(kind, a, root, TRUE)

\* insert(): the last node goes up while its parent does not come before it.
insert(kind, a, key, value) ==
    LET step(s, k) ==
            LET p == get_parent(s.at)
            IN  IF s.at = 0 \/ ~Before(kind, get_key(s.a, s.at), get_key(s.a, p)) THEN s
                ELSE [a |-> Swap(s.a, s.at, p), at |-> p]
        b == Append(a, [key |-> key, value |-> value])
    IN  FoldLeft(step, [a |-> b, at |-> Len(a)], b).a

peak(a) == a[1].value
pop(kind, a) == IF Len(a) = 1 THEN <<>> ELSE heapify(kind, Front([a EXCEPT ![1] = Last(a)]), 0)
=============================================================================
