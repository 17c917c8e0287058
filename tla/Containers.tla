------------------------------ MODULE Containers ------------------------------
(***************************************************************************)
(* The kernel's containers and string algorithms, driven by any sequence   *)
(* of calls within the bounds.  What is driven is chosen at the start:     *)
(*   "string", "vector", "list"  kstring, kvector, klist                   *)
(*   "min", "max"                kmin_heap, kmax_heap                      *)
(*   "shared"                    kshared_ptr, in several threads           *)
(*   "path", "format", "escape"  a text for the string algorithms          *)
(*   "number"                    a number for fmt                          *)
(***************************************************************************)
EXTENDS Integers, Sequences, SequencesExt, FiniteSets, FiniteSetsExt, BagsExt

CONSTANTS INITIAL_CAPACITY, GROWTH_RATE, Width,
          Elements,               \* what the sequences hold
          Sources,                \* the sequences they are assigned from
          Keys, Values,           \* of the heaps
          Threads, Vars, Objects, \* of the shared pointers
          Alphabet,               \* of each kind of text
          Arguments,              \* the arguments of sprintf
          Kinds,
          MaxLen, MaxHeap, MaxText, MaxLeaks

VARIABLES kind, obj, op

vars == <<kind, obj, op>>

S == INSTANCE Kstring
V == INSTANCE Kvector
L == INSTANCE Klist
H == INSTANCE Kheap
P == INSTANCE Kshared
T == INSTANCE Strings

Sequential == {"string", "vector", "list"}
Texts == {"path", "format", "escape"}
Formats == {"DEC", "HEX", "BIN", "OCT"}

Op(do, at, x, xs) == [do |-> do, at |-> at, x |-> x, xs |-> xs]
None == Op("none", 0, "-", <<>>)

Init ==
    /\ kind \in Kinds
    /\ op = None
    /\ obj = CASE kind = "string" -> S!New
               [] kind = "vector" -> V!New
               [] kind = "list"   -> L!New
               [] kind = "shared" -> P!New
               [] kind = "number" -> [num |-> -(2^(Width - 1))]
               [] OTHER           -> <<>>

----------------------------------------------------------------------------
\* The contents of a container, and the operations that keep it in bounds.
Broken == kind \in {"string", "vector"} /\ obj.bad # "no"
Content == CASE kind = "string" -> S!Content(obj)
             [] kind = "vector" -> V!Content(obj)
             [] kind = "list"   -> L!Content(obj)
             [] OTHER           -> <<>>

Positions == 0..Len(Content)
Fits(n) == Len(Content) + n <= MaxLen

Unary(names) == {Op(d, 0, "-", <<>>) : d \in names}
AtPosition(names) == {Op(d, i, "-", <<>>) : d \in names, i \in Positions}
WithElement(names) == {Op(d, 0, x, <<>>) : d \in names, x \in Elements}
WithSource(names) == {Op(d, 0, "-", xs) : d \in names, xs \in Sources}

StringOps ==
    Unary({"pop_back", "clear", "reverse"} \cup IF Fits(Len(Content)) THEN {"append_own"} ELSE {})
    \cup AtPosition({"erase", "truncate", "substr"})
    \cup WithSource({"copy", "move", "assign", "assign_view"})
    \cup {Op("reserve", n, "-", <<>>) : n \in 0..MaxLen + 2}
    \cup {o \in WithSource({"append"}) : Fits(Len(o.xs))}
    \cup IF Fits(1) THEN WithElement({"push_back"}) \cup {Op("insert", i, x, <<>>) : i \in 0..Len(Content) + 1, x \in Elements}
         ELSE {}

StringDo(o) ==
    CASE o.do = "push_back"   -> S!push_back(obj, o.x)
      [] o.do = "pop_back"    -> S!pop_back(obj)
      [] o.do = "clear"       -> S!clear(obj)
      [] o.do = "reverse"     -> S!reverse(obj)
      [] o.do = "insert"      -> S!insert(obj, o.at, o.x)
      [] o.do = "erase"       -> S!erase(obj, o.at)
      [] o.do = "truncate"    -> S!truncate(obj, o.at)
      [] o.do = "substr"      -> S!substr(obj, o.at, MaxLen)
      [] o.do = "reserve"     -> S!reserve(obj, o.at)
      [] o.do = "append"      -> S!append(obj, o.xs)
      [] o.do = "append_own"  -> S!append_own(obj)
      [] o.do = "copy"        -> S!copy(obj, o.xs)
      [] o.do = "move"        -> S!move(obj, o.xs)
      [] o.do = "assign"      -> S!assign(obj, o.xs)
      [] o.do = "assign_view" -> S!assign_view(obj, o.xs)

StringStep ==
    /\ kind = "string" /\ ~Broken
    /\ op' \in StringOps
    /\ obj' = S!Tidy(StringDo(op'))
    /\ UNCHANGED kind

VectorOps ==
    Unary({"pop_back", "clear"}) \cup AtPosition({"erase", "move_to_end"})
    \cup WithSource({"copy", "move", "assign"})
    \cup {Op("resize", n, "-", <<>>) : n \in 0..MaxLen}
    \cup IF Fits(1) THEN WithElement({"push_back"}) \cup {Op("push_own", i, "-", <<>>) : i \in 0..Len(Content) - 1}
         ELSE {}

VectorDo(o) ==
    CASE o.do = "push_back"   -> V!push_back(obj, o.x)
      [] o.do = "push_own"    -> V!push_back_own(obj, o.at)
      [] o.do = "pop_back"    -> V!pop_back(obj)
      [] o.do = "clear"       -> V!clear(obj)
      [] o.do = "erase"       -> V!erase(obj, o.at)
      [] o.do = "move_to_end" -> V!move_to_end(obj, o.at)
      [] o.do = "resize"      -> V!resize(obj, o.at)
      [] o.do = "copy"        -> V!copy(obj, o.xs)
      [] o.do = "move"        -> V!move(obj, o.xs)
      [] o.do = "assign"      -> V!assign(obj, o.xs)

VectorStep ==
    /\ kind = "vector" /\ ~Broken
    /\ op' \in VectorOps
    /\ obj' = VectorDo(op')
    /\ UNCHANGED kind

ListOps ==
    Unary({"pop_back", "pop_front", "clear", "reverse", "rotate_next", "rotate_prev"})
    \cup AtPosition({"erase"}) \cup WithElement({"remove"}) \cup WithSource({"copy", "move"})
    \cup IF Fits(1) THEN WithElement({"push_back", "push_front"}) ELSE {}

ListDo(o) ==
    CASE o.do = "push_back"   -> L!push_back(obj, o.x)
      [] o.do = "push_front"  -> L!push_front(obj, o.x)
      [] o.do = "pop_back"    -> L!pop_back(obj)
      [] o.do = "pop_front"   -> L!pop_front(obj)
      [] o.do = "clear"       -> L!clear(obj)
      [] o.do = "reverse"     -> L!reverse(obj)
      [] o.do = "rotate_next" -> L!rotate_next(obj)
      [] o.do = "rotate_prev" -> L!rotate_prev(obj)
      [] o.do = "erase"       -> L!erase(obj, o.at)
      [] o.do = "remove"      -> L!remove(obj, o.x)
      [] o.do = "copy"        -> L!copy(obj, o.xs)
      [] o.do = "move"        -> L!move(obj, o.xs)

ListStep ==
    /\ kind = "list"
    /\ op' \in ListOps
    /\ obj' = ListDo(op')
    /\ UNCHANGED kind

----------------------------------------------------------------------------
\* The heaps, the shared pointers, and the inputs of the algorithms.
HeapInsert ==
    /\ kind \in {"min", "max"} /\ Len(obj) < MaxHeap
    /\ \E k \in Keys, x \in Values : obj' = H!insert(kind, obj, k, x)
    /\ UNCHANGED <<kind, op>>

HeapPop ==
    /\ kind \in {"min", "max"} /\ obj # <<>>
    /\ obj' = H!pop(kind, obj)
    /\ UNCHANGED <<kind, op>>

\* A thread uses the pointers no thread is letting go of or moving from.
Idle == Vars \ UNION {{obj.doing[t].var, obj.doing[t].from} : t \in Threads}
Unused == {o \in Objects : obj.refs[o] = 0 /\ obj.freed[o] = 0} \ {obj.doing[t].obj : t \in Threads}
Leaks == MapThenSumSet(LAMBDA o : obj.leaked[o], Objects)

SharedUse ==
    /\ kind = "shared"
    /\ \E x, y \in Idle :
         \/ /\ obj.ptr[x] = P!Null
            /\ \/ \E o \in Unused : obj' = P!make_kshared(obj, x, o)
               \/ x # y /\ obj' = P!copy_construct(obj, x, y)
               \/ x # y /\ obj' = P!move_construct(obj, x, y)
         \/ Leaks < MaxLeaks /\ obj' = P!copy_assign(obj, x, y)
    /\ UNCHANGED <<kind, op>>

SharedLetGo(t) ==
    /\ kind = "shared" /\ obj.doing[t] = P!None
    /\ \E x \in Idle : \E y \in (Idle \ {x}) \cup {P!Null} : obj' = P!dec_refs(obj, t, x, y)
    /\ UNCHANGED <<kind, op>>

SharedDestroy(t) ==
    /\ kind = "shared" /\ obj.doing[t] # P!None
    /\ \E still \in BOOLEAN : obj' = P!destroy_if_no_refs(obj, t, still)
    /\ UNCHANGED <<kind, op>>

Type ==
    /\ kind \in Texts /\ Len(obj) < MaxText
    /\ \E c \in Alphabet[kind] : obj' = Append(obj, c)
    /\ UNCHANGED <<kind, op>>

CountUp ==
    /\ kind = "number" /\ obj.num < 2^Width - 1
    /\ obj' = [num |-> obj.num + 1]
    /\ UNCHANGED <<kind, op>>

Next ==
    \/ StringStep \/ VectorStep \/ ListStep
    \/ HeapInsert \/ HeapPop
    \/ SharedUse \/ \E t \in Threads : SharedLetGo(t) \/ SharedDestroy(t)
    \/ Type \/ CountUp

Spec == Init /\ [][Next]_vars

----------------------------------------------------------------------------
\* What is shown.

\* The shape of the objects: a string or vector is within its block, and a
\* block, once there, is one of those growing makes.
TypeOK ==
    /\ kind \in Kinds
    /\ kind \in {"string", "vector"} =>
         Len(Content) <= Len(obj.buf) /\ Len(obj.buf) \in {0} \cup {INITIAL_CAPACITY * GROWTH_RATE^i : i \in 0..MaxLen}
    /\ kind = "vector" => obj.alive \subseteq DOMAIN obj.buf
    /\ kind \in {"min", "max"} => \A i \in DOMAIN obj : obj[i] \in [key : Keys, value : Values]
    /\ kind = "shared" => obj.ptr \in [Vars -> Objects \cup {P!Null}]
    /\ kind = "number" => obj.num \in -(2^(Width - 1))..2^Width - 1

\* kstring, kvector and klist implement a plain sequence: growing, shifting
\* and relinking change the contents as the operation says, whatever was done
\* before.  Only four operations may ever write where they must not, after
\* which nothing is said of the contents.
Abs == INSTANCE SeqContainer WITH
         content <- IF Broken THEN <<"?">> ELSE Content,
         Default <- V!Default,
         Partial <- {"insert", "assign_view", "push_own", "move_to_end"}
IsSequence == Abs!Spec

\* They do so exactly here: kstring::insert() in the middle of a string that
\* fills its block up to the terminator, kstring::operator=(kstring_view)
\* when there is a block, which was freed and is used or freed again;
\* kvector::push_back() of an element of its own when it grows; and
\* move_to_end() on an empty vector, whose size - 1 wraps.
Strays(o) ==
    \/ /\ kind = "string" /\ o.do = "insert"
       /\ o.at < obj.length /\ S!capacity(obj) = obj.length + 1
    \/ kind = "string" /\ o.do = "assign_view" /\ obj.ptr = "live"
    \/ kind = "vector" /\ o.do = "push_own" /\ V!capacity(obj) = obj.size
    \/ kind = "vector" /\ o.do = "move_to_end" /\ obj.size = 0
StraysOnlyThere ==
    [][op' # op /\ kind \in {"string", "vector"} => (Broken' <=> Strays(op'))]_vars

\* A kstring's characters are followed by a '\0', as c_str() needs, until it
\* is lost: by reserve() that grows, or by s += s.
Terminated == obj.ptr = "live" => obj.buf[obj.length + 1] = S!NUL
LosesTerminator ==
    [][kind = "string" /\ ~Broken' /\ Terminated /\ ~Terminated'
         => op'.do = "append_own" \/ (op'.do = "reserve" /\ Len(obj'.buf) > Len(obj.buf))]_vars

\* Every element of a kvector is a constructed object, no object is destroyed
\* twice, and one is dropped without its destructor only after erase(), which
\* leaves the last slot's object behind.
ElementsConstructed == kind = "vector" => 1..obj.size \subseteq obj.alive
DropsOnlyErased ==
    [][kind = "vector" /\ ~Broken' =>
         /\ ElementsConstructed'
         /\ obj'.lost /\ ~obj.lost => obj.alive # 1..obj.size
         /\ obj.alive = 1..obj.size /\ obj'.alive # 1..obj'.size => op'.do = "erase"]_vars

\* The calls that leave a kstring or kvector in a state its users do not expect
\* are exactly those named: any other sequence of calls keeps it whole.
DeviatesOnlyThere == StraysOnlyThere /\ LosesTerminator /\ DropsOnlyErased

\* klist stays one ring: prev undoes next, and following next from _head meets
\* every node that is allocated before it is back.
OneRing ==
    kind = "list" =>
      /\ Cardinality(L!Nodes(obj)) = obj.size
      /\ obj.head = L!Null <=> obj.size = 0
      /\ \A n \in L!Nodes(obj) : obj.next[n] \in L!Nodes(obj) /\ obj.prev[obj.next[n]] = n
      /\ {L!At(obj, i) : i \in 0..obj.size - 1} = L!Nodes(obj)

\* A heap keeps what was inserted, and pop() takes away the node peak() shows,
\* whose key no other key comes before: the earliest sleeper.
NodeBag(h) == FoldLeft(LAMBDA b, n : BagAdd(b, n), EmptyBag, h)
PopsBest ==
    [][(kind \in {"min", "max"} /\ Len(obj') < Len(obj)) =>
         /\ NodeBag(obj) = BagAdd(NodeBag(obj'), Head(obj))
         /\ \A i \in DOMAIN obj : ~H!Before(kind, obj[i].key, Head(obj).key)]_vars

\* kshared_ptr: the count of a live object is the number of pointers to it and
\* of those operator= forgot; an object no thread is letting go of is deleted
\* when that is zero, never while a pointer has it, and more than once only
\* if two threads let go of it at the same time.
Holders(o) == {x \in Vars : obj.ptr[x] = o} \ {obj.doing[t].var : t \in Threads}
DeletedOnce ==
    kind = "shared" =>
      \A o \in Objects :
         /\ obj.freed[o] = 0 => obj.refs[o] = Cardinality(Holders(o)) + obj.leaked[o]
         /\ Holders(o) # {} => obj.freed[o] = 0
         /\ obj.freed[o] <= 1 \/ o \in obj.overlapped
         /\ obj.freed[o] = 0 /\ o \notin Unused /\ obj.refs[o] = 0 => \E t \in Threads : obj.doing[t].obj = o

\* The links of klist and the counts of kshared_ptr agree with the nodes and the
\* pointers there are, after every call and between the steps of two threads.
LinksAndCounts == TypeOK /\ OneRing /\ DeletedOnce

\* algo: split() gives the longest runs without the delimiter, in order;
\* tokenize() loses nothing, join() puts it together again; and joining what
\* split() gives, as getcwd does, gives a path that splits into the same.
Runs(str, delim) ==
    {<<i, j>> \in (DOMAIN str) \X (DOMAIN str) :
        /\ i <= j /\ \A k \in i..j : str[k] # delim
        /\ i = 1 \/ str[i - 1] = delim
        /\ j = Len(str) \/ str[j + 1] = delim}
SplitsAndJoins ==
    kind = "path" =>
      LET runs == SetToSortSeq(Runs(obj, "/"), LAMBDA p, q : p[1] < q[1])
          parts == T!split(obj, "/")
      IN  /\ parts = [k \in DOMAIN runs |-> SubSeq(obj, runs[k][1], runs[k][2])]
          /\ T!split(T!join(parts, "/"), "/") = parts
          /\ T!join(T!tokenize(obj, "/"), "/") = obj

\* fmt: what to_string() writes, parse_uint() reads back, after the sign and
\* the prefix, in digits that are a multiple of four.  There are two
\* exceptions: parse_uint() does not read the hexadecimal letters, and the
\* zeros of a negative number go between the '0' and the letter of its prefix.
NumbersReadBack ==
    kind = "number" =>
      \A f \in Formats :
        LET text == T!to_string(obj.num, f)
            sign == IF obj.num < 0 THEN 1 ELSE 0
            start == sign + Len(T!Prefix(f))
            digits == T!From(text, start)
            whole == obj.num >= 0 \/ f = "DEC" \/ Len(T!Digits(-obj.num, T!number_format_divisor(f))) % 4 = 3
        IN  /\ whole <=> SubSeq(text, sign + 1, start) = T!Prefix(f)
            /\ whole => (\A i \in DOMAIN digits : digits[i] \in {"0", "1", "2", "3", "4", "5", "6", "7", "8", "9"})
                          = (T!parse_uint(digits, f) = (IF sign = 1 THEN -obj.num ELSE obj.num))
            /\ obj.num >= 0 /\ f # "DEC" => Len(digits) % 4 = 0

\* fmt::sprintf: the text is the format with its holes, from the left, filled
\* by the arguments; an argument that looks like a hole is not filled.
HoleAt(str, i) == i < Len(str) /\ str[i] = "{" /\ str[i + 1] = "}"
FillsHoles ==
    kind = "format" =>
      \A args \in Arguments :
        LET holes == SetToSortSeq({i \in DOMAIN obj : HoleAt(obj, i)}, <)
            n == Min({Len(holes), Len(args)})
            ends == <<-1>> \o SubSeq(holes, 1, n)          \* the hole before each piece
            piece(k) == SubSeq(obj, ends[k] + 2, IF k <= n THEN holes[k] - 1 ELSE Len(obj))
        IN  T!sprintf(obj, args) =
              FlattenSeq([k \in 1..2 * n + 1 |-> IF k % 2 = 1 THEN piece((k + 1) \div 2) ELSE args[k \div 2]])

\* console::put(kstring) puts the characters outside the escape sequences, in
\* order, and is done with a text unless there is a sequence that no code
\* ends: then it stays at the first of them for ever.
Inside(i) == \E j \in 1..i - 1 : T!is_csi(obj, j) /\ \A k \in j..i - 1 : ~T!is_cs_code(obj[k])
PutsOutsideSequences ==
    kind = "escape" =>
      LET r == T!put(obj)
          puts == SelectSeq(r.did, LAMBDA d : d.do = "put")
          endless == {i \in DOMAIN obj : T!is_csi(obj, i) /\ \A j \in i..Len(obj) : ~T!is_cs_code(obj[j])}
      IN  /\ r.stuck <=> endless # {}
          /\ r.at = IF r.stuck THEN Min(endless) ELSE Len(obj) + 1
          /\ [k \in DOMAIN puts |-> puts[k].by]
               = SetToSortSeq({i \in 1..r.at - 1 : obj[i] # T!ANSI_ESCAPE /\ ~Inside(i)}, <)

\* The algorithms on text agree with their reference definitions on every input.
AlgorithmsAgree == SplitsAndJoins /\ NumbersReadBack /\ FillsHoles /\ PutsOutsideSequences
=============================================================================
