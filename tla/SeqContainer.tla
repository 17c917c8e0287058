----------------------------- MODULE SeqContainer -----------------------------
(***************************************************************************)
(* What a container of a sequence promises: the contents, and what each    *)
(* operation makes of them.  An operation is a record [do, at, x, xs] of   *)
(* its name, a position, an element and a sequence.                        *)
(***************************************************************************)
EXTENDS Integers, Sequences, SequencesExt, FiniteSetsExt

CONSTANTS Default, \* the element resize() adds
          Partial  \* operations that may leave the contents undefined
VARIABLES content, op

Undefined == <<"?">>

\* The element at a position (counted from 0) goes to the end.
MovedToEnd(c, at) == Append(RemoveAt(c, at + 1), c[at + 1])

Result(o, c) ==
    LET inside == o.at < Len(c)
        rest == {i \in 0..Len(c) - 1 : c[i + 1] = o.x}
    IN  CASE o.do = "push_back"   -> Append(c, o.x)
          [] o.do = "push_front"  -> <<o.x>> \o c
          [] o.do = "push_own"    -> Append(c, c[o.at + 1])
          [] o.do = "pop_back"    -> IF c = <<>> THEN c ELSE Front(c)
          [] o.do = "pop_front"   -> IF c = <<>> THEN c ELSE Tail(c)
          [] o.do = "clear"       -> <<>>
          [] o.do = "reverse"     -> Reverse(c)
          [] o.do = "insert"      -> IF o.at > Len(c) THEN c ELSE InsertAt(c, o.at + 1, o.x)
          [] o.do = "erase"       -> IF inside THEN RemoveAt(c, o.at + 1) ELSE c
          [] o.do = "remove"      -> IF rest = {} THEN c ELSE RemoveAt(c, Min(rest) + 1)
          [] o.do = "truncate"    -> IF inside THEN SubSeq(c, 1, o.at) ELSE c
          [] o.do = "substr"      -> SubSeq(c, o.at + 1, Len(c))
          [] o.do = "reserve"     -> c
          [] o.do = "resize"      -> c \o [i \in 1..Max({o.at, Len(c)}) - Len(c) |-> Default]
          [] o.do = "append"      -> c \o o.xs
          [] o.do = "append_own"  -> c \o c
          [] o.do = "rotate_next" -> IF c = <<>> THEN c ELSE MovedToEnd(c, 0)
          [] o.do = "rotate_prev" -> IF c = <<>> THEN c ELSE <<Last(c)>> \o Front(c)
          [] o.do = "move_to_end" -> IF inside THEN MovedToEnd(c, o.at) ELSE c
          [] o.do \in {"copy", "move", "assign", "assign_view"} -> o.xs
          [] OTHER -> c

Init == content = <<>> /\ op.do = "none"

Operation == content # Undefined /\ content' = Result(op', content)
Lose == content # Undefined /\ op'.do \in Partial /\ content' = Undefined

Next == Operation \/ Lose
Spec == Init /\ [][Next]_<<content, op>>
=============================================================================
