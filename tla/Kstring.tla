-------------------------------- MODULE Kstring --------------------------------
(***************************************************************************)
(* kstring (include/containers/kstring.hpp), as operators on               *)
(*   [buf    |-> the characters behind _data: as many as _capacity,        *)
(*    ptr    |-> whether _data is "null", "live" or a "freed" block,       *)
(*    length |-> _length,                                                  *)
(*    bad    |-> the first thing done outside the block, or "no"].         *)
(* Positions are counted from 0, as in the code.                           *)
(***************************************************************************)
EXTENDS Integers, Sequences, SequencesExt, FiniteSetsExt

CONSTANTS INITIAL_CAPACITY, GROWTH_RATE

NUL == "nul"         \* '\0'
Garbage == "garbage" \* what a new block holds

New == [buf |-> <<>>, ptr |-> "null", length |-> 0, bad |-> "no"]
Content(s) == SubSeq(s.buf, 1, s.length)
capacity(s) == Len(s.buf)

Bad(s, what) == IF s.bad = "no" THEN [s EXCEPT !.bad = what] ELSE s
kfree(s) == CASE s.ptr = "null"  -> s
              [] s.ptr = "live"  -> [s EXCEPT !.ptr = "freed"]
              [] s.ptr = "freed" -> Bad(s, "freed twice")
Forget(s) == [New EXCEPT !.bad = s.bad]      \* _data, _length, _capacity := 0

\* The capacity after as many grow() as it takes: at least n.
Grown(cap, n) ==
    LET first == IF cap = 0 THEN INITIAL_CAPACITY ELSE cap
        up[c \in Nat] == IF c >= n THEN c ELSE up[c * GROWTH_RATE]
    IN  up[first]

\* grow() copies the characters and not the '\0' after them.
ensure_capacity(s, n) ==
    IF capacity(s) >= n THEN s
    ELSE [kfree(s) EXCEPT
            !.ptr = "live",
            !.buf = [i \in 1..Grown(capacity(s), n) |-> IF i <= s.length THEN s.buf[i] ELSE Garbage]]

\* _data[at], _data[at + 1], ... = chars
Store(s, at, chars) ==
    IF s.ptr # "live" THEN Bad(s, "stored into a freed block")
    ELSE IF at + Len(chars) > capacity(s) THEN Bad(s, "stored past the end")
    ELSE [s EXCEPT !.buf = [i \in DOMAIN @ |-> IF i \in at + 1..at + Len(chars) THEN chars[i - at] ELSE @[i]]]

\* What is behind the '\0' is not read before it is written.
Tidy(s) == [s EXCEPT !.buf = [i \in DOMAIN @ |-> IF i > s.length + 1 THEN Garbage ELSE @[i]]]
ensure_null_terminated(s) == IF s.ptr = "null" THEN s ELSE Store(s, s.length, <<NUL>>)

Put(s, c) == [Store(s, s.length, <<c, NUL>>) EXCEPT !.length = @ + 1]
push_back(s, c) == Put(ensure_capacity(s, s.length + 2), c)
pop_back(s) == IF s.length = 0 THEN s ELSE ensure_null_terminated([s EXCEPT !.length = @ - 1])
clear(s) == ensure_null_terminated([s EXCEPT !.length = 0])
reverse(s) == IF s.length = 0 THEN s ELSE Store(s, 0, Reverse(Content(s)))

\* In the middle, the '\0' is moved to _length + 1, for which no room is made.
insert(s, pos, c) ==
    LET t == ensure_capacity(s, s.length + 1)
    IN  IF pos > s.length THEN s
    ELSE ensure_null_terminated(
           IF pos = s.length THEN push_back(t, c)
           ELSE [Store(t, pos, <<c>> \o SubSeq(t.buf, pos + 1, s.length) \o <<NUL>>)
                   EXCEPT !.length = @ + 1])

\* The loop moves the '\0' too.
erase(s, pos) ==
    IF pos >= s.length THEN s
    ELSE ensure_null_terminated([Store(s, pos, SubSeq(s.buf, pos + 2, s.length + 1))
                                   EXCEPT !.length = @ - 1])

truncate(s, pos) == IF pos >= s.length THEN s ELSE ensure_null_terminated([s EXCEPT !.length = pos])
reserve(s, n) == ensure_capacity(s, n)

\* += of a C string or of a kstring that is not empty: its '\0' comes along.
append(s, chars) ==
    [Store(ensure_capacity(s, s.length + Len(chars) + 1), s.length, Append(chars, NUL))
        EXCEPT !.length = @ + Len(chars)]

\* s += s: the '\0' that would be copied last has been overwritten by then.
append_own(s) == IF s.length = 0 THEN s ELSE
    [Store(ensure_capacity(s, s.length * 2 + 1), s.length, Append(Content(s), s.buf[1]))
        EXCEPT !.length = @ * 2]

kstring(chars) == append(New, chars)         \* from a C string

\* = of a C string; = of a kstring does the same, an empty one leaving no block.
assign(s, chars) == append(Forget(kfree(s)), chars)
copy(s, chars) == IF chars = <<>> THEN Forget(kfree(s)) ELSE assign(s, chars)
\* = of a kstring_view: _data still points to the block that was freed.
assign_view(s, chars) ==
    [Store(ensure_capacity(kfree(s), Len(chars) + 1), 0, Append(chars, NUL)) EXCEPT !.length = Len(chars)]
move(s, chars) == [kstring(chars) EXCEPT !.bad = kfree(s).bad]

\* substr(): what c_str() of the copy shows, up to its '\0'.
substr(s, pos, len) ==
    LET chars == SubSeq(s.buf, pos + 1, Min({s.length, pos + len}))
    IN  IF pos >= s.length THEN kstring(<<>>)
        ELSE FoldLeft(push_back, ensure_capacity(New, s.length), chars)
=============================================================================
