-------------------------------- MODULE Kvector --------------------------------
(***************************************************************************)
(* kvector (include/containers/kvector.hpp) of a class type, as operators  *)
(* on                                                                      *)
(*   [buf   |-> the slots behind _data: as many as _capacity,              *)
(*    size  |-> _size,                                                     *)
(*    alive |-> the slots that hold a constructed object,                  *)
(*    lost  |-> whether an object was dropped without its destructor,      *)
(*    bad   |-> the first wrong access, or "no"].                          *)
(* Slots are counted from 1, positions from 0 as in the code.              *)
(***************************************************************************)
EXTENDS Integers, Sequences, FiniteSets

CONSTANTS INITIAL_CAPACITY, GROWTH_RATE

Raw == "raw"         \* a slot nothing was stored in
Default == "default" \* T{}

New == [buf |-> <<>>, size |-> 0, alive |-> {}, lost |-> FALSE, bad |-> "no"]
Content(v) == SubSeq(v.buf, 1, v.size)
capacity(v) == Len(v.buf)
Bad(v, what) == IF v.bad = "no" THEN [v EXCEPT !.bad = what] ELSE v

\* new (&_data[i]) T(x), and its destructor
Construct(v, i, x) ==
    IF i > capacity(v) THEN Bad(v, "constructed past the end")
    ELSE [v EXCEPT !.buf[i] = x, !.alive = @ \cup {i}, !.lost = @ \/ i \in v.alive]
Destroy(v, slots) ==
    IF slots \subseteq v.alive THEN [v EXCEPT !.alive = @ \ slots, !.buf = [i \in DOMAIN @ |-> IF i \in slots THEN Raw ELSE @[i]]]
    ELSE Bad(v, "destroyed twice")

\* kfree(_data), the pointer set anew by the caller
Release(v) == [v EXCEPT !.buf = <<>>, !.alive = {}, !.lost = @ \/ v.alive # {}]

Grown(cap, n) ==
    LET up[c \in Nat] == IF c >= n THEN c ELSE up[c * GROWTH_RATE]
    IN  up[IF cap = 0 THEN INITIAL_CAPACITY ELSE cap]

\* grow() moves the elements; what is beyond them in the old block is dropped.
ensure_capacity(v, n) ==
    IF capacity(v) >= n THEN v
    ELSE [Release(Destroy(v, 1..v.size)) EXCEPT
            !.buf = [i \in 1..Grown(capacity(v), n) |-> IF i <= v.size THEN v.buf[i] ELSE Raw],
            !.alive = 1..v.size]

push_back(v, x) ==
    [Construct(ensure_capacity(v, v.size + 1), v.size + 1, x) EXCEPT !.size = @ + 1]

\* v.push_back(v[pos]): the reference is to the old block once the vector grew.
push_back_own(v, pos) ==
    IF capacity(v) > v.size THEN push_back(v, v.buf[pos + 1])
    ELSE Bad(push_back(v, v.buf[pos + 1]), "read a freed block")

pop_back(v) == IF v.size = 0 THEN v ELSE [Destroy(v, {v.size}) EXCEPT !.size = @ - 1]
clear(v) == [Destroy(v, 1..v.size) EXCEPT !.size = 0]

Shifted(v, pos, last) ==
    [v EXCEPT !.buf = [i \in DOMAIN @ |-> IF i \in pos + 1..last THEN @[i + 1] ELSE @[i]], !.size = @ - 1]
\* The last slot keeps its object, which is no longer an element.
erase(v, pos) == IF pos >= v.size THEN v ELSE Shifted(v, pos, v.size - 1)

\* With no element, _size - 1 is the largest number there is.
move_to_end(v, pos) ==
    IF v.size = 0 THEN Bad(v, "read past the end")
    ELSE IF pos >= v.size THEN v
    ELSE [v EXCEPT !.buf = [i \in DOMAIN @ |-> CASE i = v.size /\ pos < v.size -> @[pos + 1]
                                                 [] i \in pos + 1..v.size - 1  -> @[i + 1]
                                                 [] OTHER                      -> @[i]]]

resize(v, n) ==
    LET more[i \in Nat] == IF i <= v.size THEN ensure_capacity(v, n)
                           ELSE Construct(more[i - 1], i, Default)
    IN  IF n <= v.size THEN v ELSE [more[n] EXCEPT !.size = n]

\* The elements xs, constructed one by one after those there are.
Fill(v, xs) ==
    LET more[i \in 0..Len(xs)] == IF i = 0 THEN ensure_capacity(v, v.size + Len(xs))
                                  ELSE push_back(more[i - 1], xs[i])
    IN  more[Len(xs)]

\* = of a vector, a temporary vector and a list: the list keeps the block.
Bug_not_cleared(v, xs) == Fill([Release(v) EXCEPT !.size = 0], xs)
copy(v, xs) == Fill(Release(clear(v)), xs)
move(v, xs) == LET w == Release(clear(v)) IN [Fill(New, xs) EXCEPT !.lost = w.lost, !.bad = w.bad]
assign(v, xs) == Fill(clear(v), xs)
=============================================================================
