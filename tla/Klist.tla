--------------------------------- MODULE Klist ---------------------------------
(***************************************************************************)
(* klist (include/containers/klist.hpp), a ring of nodes, as operators on  *)
(*   [next, prev, data |-> functions on the nodes that are allocated,      *)
(*    head |-> _head, size |-> _size].                                     *)
(* A node is a number; new takes the smallest that is free.                *)
(***************************************************************************)
EXTENDS Integers, Sequences, Functions, FiniteSetsExt, SequencesExt, TLC

Null == 0

New == [next |-> <<>>, prev |-> <<>>, data |-> <<>>, head |-> Null, size |-> 0]
Nodes(l) == DOMAIN l.next
Fresh(l) == Min((1..Cardinality(Nodes(l)) + 1) \ Nodes(l))

\* The node pos steps after _head.
At(l, pos) == LET n[i \in 0..pos] == IF i = 0 THEN l.head ELSE l.next[n[i - 1]] IN n[pos]
Content(l) == [i \in 1..l.size |-> l.data[At(l, i - 1)]]

\* A new node in front of _head, in an empty list or in one that has nodes;
\* first says whether it becomes _head.
Linked(l, x, first, back) ==
    LET n == Fresh(l)
    IN  IF l.size = 0
        THEN [next |-> n :> n, prev |-> n :> n, data |-> n :> x, head |-> n, size |-> 1]
        ELSE LET tail == l.prev[l.head]
             IN  [next |-> [l.next EXCEPT ![tail] = n] @@ (n :> l.head),
                  prev |-> [l.prev EXCEPT ![l.head] = IF back THEN n ELSE @] @@ (n :> tail),
                  data |-> l.data @@ (n :> x),
                  head |-> IF first THEN n ELSE l.head,
                  size |-> l.size + 1]
Bug_not_linked_back(l, x, first) == Linked(l, x, first, FALSE)
Link(l, x, first) == Linked(l, x, first, TRUE)
push_front(l, x) == Link(l, x, TRUE)
push_back(l, x) == Link(l, x, FALSE)

\* remove_node(), and the same in pop_front() and pop_back(): the size is
\* counted down first, so "empty" is about the list without the node.
Unlink(l, n, head) ==
    LET left == Nodes(l) \ {n}
        next == [l.next EXCEPT ![l.prev[n]] = l.next[n]]
        prev == [l.prev EXCEPT ![l.next[n]] = l.prev[n]]
    IN  [next |-> Restrict(next, left), prev |-> Restrict(prev, left),
         data |-> Restrict(l.data, left),
         head |-> IF l.size = 1 THEN Null ELSE head, size |-> l.size - 1]
Bug_head_kept(l, n) == Unlink(l, n, IF n = l.head THEN l.prev[l.head] ELSE l.head)
remove_node(l, n) == Unlink(l, n, IF n = l.head THEN l.next[l.head] ELSE l.head)

pop_front(l) == IF l.size = 0 THEN l ELSE Unlink(l, l.head, l.next[l.head])
pop_back(l) == IF l.size = 0 THEN l ELSE Unlink(l, l.prev[l.head], l.head)
erase(l, pos) == IF pos >= l.size THEN l ELSE remove_node(l, At(l, pos))

\* remove(): the first node that holds x.
remove(l, x) ==
    LET hits == {i \in 0..l.size - 1 : l.data[At(l, i)] = x}
    IN  IF hits = {} THEN l ELSE remove_node(l, At(l, Min(hits)))

\* reverse(): swaps the two pointers of every node; the old last one is first.
reverse(l) ==
    IF l.size = 0 THEN l
    ELSE [l EXCEPT !.next = l.prev, !.prev = l.next, !.head = l.prev[l.head]]

rotate_next(l) == IF l.size = 0 THEN l ELSE [l EXCEPT !.head = l.next[@]]
rotate_prev(l) == IF l.size = 0 THEN l ELSE [l EXCEPT !.head = l.prev[@]]

clear(l) == LET left[i \in 0..l.size] == IF i = 0 THEN l ELSE pop_back(left[i - 1]) IN left[l.size]
copy(l, xs) == FoldLeft(push_back, clear(l), xs)
move(l, xs) == FoldLeft(push_back, New, xs)
=============================================================================
