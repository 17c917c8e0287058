-------------------------------- MODULE Strings --------------------------------
(***************************************************************************)
(* The algorithms on strings: algo::split, tokenize and join, kstring's    *)
(* find, the numbers of fmt, sprintf, and the escape sequences of          *)
(* console::ansi.  A string is a sequence of characters.                   *)
(***************************************************************************)
EXTENDS Integers, Sequences, SequencesExt, FiniteSetsExt

CONSTANT Width       \* of uintmax_t, in bits

npos == -1

----------------------------------------------------------------------------
\* algo.cpp

\* One character of the loop: a part ends at the delimiter, and is kept if it
\* is not empty or if empty ones are kept too.
Cut(s, c, delim, keep) ==
    IF c # delim THEN [s EXCEPT !.part = Append(@, c)]
    ELSE [parts |-> IF keep \/ s.part # <<>> THEN Append(s.parts, s.part) ELSE s.parts, part |-> <<>>]

Parts(str, delim, keep) ==
    FoldLeft(LAMBDA s, c : Cut(s, c, delim, keep), [parts |-> <<>>, part |-> <<>>], str)

split(str, delim) ==
    LET s == Parts(str, delim, FALSE)
    IN  IF s.part # <<>> THEN Append(s.parts, s.part) ELSE s.parts

Tokens(str, delim, last) ==
    LET s == Parts(str, delim, TRUE)
    IN  IF s.part # <<>> \/ last = delim THEN Append(s.parts, s.part) ELSE s.parts
tokenize(str, delim) == Tokens(str, delim, IF str = <<>> THEN "nul" ELSE Last(str))

\* A delimiter after every part, the last one taken away.
join(parts, delim) ==
    LET s == FoldLeft(LAMBDA r, p : Append(r \o p, delim), <<>>, parts)
    IN  IF s = <<>> THEN s ELSE Front(s)

----------------------------------------------------------------------------
\* kstring.hpp, kstring_view.hpp

\* find(): the first position from which the characters are those of what.
find(str, what) ==
    LET at == {i \in 0..Len(str) - Len(what) : SubSeq(str, i + 1, i + Len(what)) = what}
    IN  IF what = <<>> \/ at = {} THEN npos ELSE Min(at)

\* kstring_view::substr() with no length: all that follows.
From(str, pos) == IF pos >= Len(str) THEN <<>> ELSE SubSeq(str, pos + 1, Len(str))

----------------------------------------------------------------------------
\* fmt.hpp

number_format_divisor(format) ==
    CASE format = "DEC" -> 10 [] format = "HEX" -> 16 [] format = "OCT" -> 8 [] format = "BIN" -> 2

HEX_CHARS == <<"0", "1", "2", "3", "4", "5", "6", "7", "8", "9", "A", "B", "C", "D", "E", "F">>
number_format_char(i) == HEX_CHARS[i + 1]
Prefix(format) == CASE format = "DEC" -> <<>> [] format = "HEX" -> <<"0", "x">>
                    [] format = "BIN" -> <<"0", "b">> [] format = "OCT" -> <<"0", "o">>

\* c - '0' in ASCII, whatever the character is: the letters do not follow the
\* digits.
parse_int(c) ==
    CASE c = "esc" -> -21 [] c = "[" -> 43
      [] OTHER -> LET i == Min({j \in DOMAIN HEX_CHARS : HEX_CHARS[j] = c}) - 1
                  IN  IF i < 10 THEN i ELSE i + 7

\* insert() of num characters pad at pos, in a buffer of which index are used.
insert(buffer, pos, num, pad) ==
    IF pos >= Len(buffer) THEN buffer
    ELSE SubSeq(buffer, 1, pos) \o [i \in 1..num |-> pad] \o SubSeq(buffer, pos + 1, Len(buffer))

\* pad_zero() takes the first two characters for the prefix, whatever they are.
pad_zero(buffer) == insert(buffer, 2, (4 - (Len(buffer) - 2)) % 4, "0")

Digits(unum, divisor) ==
    LET d[n \in 0..unum] == IF n = 0 THEN <<>> ELSE Append(d[n \div divisor], number_format_char(n % divisor))
    IN  IF unum = 0 THEN <<"0">> ELSE d[unum]

\* to_string() of a number of either sign, of which the unsigned one is a part.
to_string(num, format) ==
    LET sign == IF num < 0 THEN <<"-">> ELSE <<>>
        unum == IF num < 0 THEN (-num) % 2^Width ELSE num
        text == sign \o Prefix(format) \o Digits(unum, number_format_divisor(format))
    IN  IF format = "DEC" THEN text ELSE pad_zero(text)

parse_uint(str, format) ==
    FoldLeft(LAMBDA r, c : (r * number_format_divisor(format) + parse_int(c)) % 2^Width, 0, str)

\* sprintf(): the rest of the format goes on with the rest of the arguments;
\* what an argument says is not looked at again.
sprintf(format, args) ==
    LET Hole == <<"{", "}">>
        out[k \in 0..Len(args)] ==              \* the text so far, what is left
            IF k = 0 THEN [text |-> <<>>, rest |-> format, done |-> FALSE]
            ELSE LET s == out[k - 1]
                     pos == find(s.rest, Hole)
                 IN  IF s.done \/ pos = npos THEN [s EXCEPT !.done = TRUE]
                     ELSE [s EXCEPT !.text = @ \o SubSeq(s.rest, 1, pos) \o args[k], !.rest = From(s.rest, pos + 2)]
    IN  out[Len(args)].text \o out[Len(args)].rest

----------------------------------------------------------------------------
\* ansi.cpp, and put(kstring) of console.cpp

ANSI_ESCAPE == "esc"
Ones == {"A", "B", "C", "D", "E", "F", "G", "H", "S", "T"}
Zeros == {"J", "K", "m"}
is_csi(str, at) == str[at] = ANSI_ESCAPE /\ at < Len(str) /\ str[at + 1] = "["
is_cs_code(c) == c \in Ones \cup Zeros
get_default_arg(c) == IF c \in Ones THEN <<"1">> ELSE <<"0">>

\* What the handlers do with the first argument: nothing for other codes.
Effect(code, arg) ==
    CASE code = "C" -> <<[do |-> "move_cursor", by |-> arg]>>
      [] code = "D" -> <<[do |-> "move_cursor", by |-> -arg]>>
      [] code = "K" /\ arg \in 0..2 -> <<[do |-> "erase_in_line", by |-> arg]>>
      [] code = "E" -> [i \in 1..arg |-> [do |-> "newline", by |-> 0]]
      [] OTHER -> <<>>

\* parse_csi(): how many characters it took, and what it did.
Parsed(str, at, code) ==
    LET ends == {i \in at..Len(str) : is_cs_code(str[i])}
    IN  IF ends = {} THEN [taken |-> 0, did |-> <<>>]
        ELSE LET end == Min(ends)
                 args == tokenize(SubSeq(str, at + 2, end - 1), ";")
                 first == IF args = <<>> \/ Head(args) = <<>> THEN get_default_arg(str[end]) ELSE Head(args)
             IN  [taken |-> end - at + code, did |-> Effect(str[end], parse_uint(first, "DEC"))]
Bug_code_not_taken(str, at) == Parsed(str, at, 0)
parse_csi(str, at) == Parsed(str, at, 1)

parse_ansi_escape(str, at) ==
    IF is_csi(str, at) THEN parse_csi(str, at) ELSE [taken |-> 1, did |-> <<>>]

\* put(kstring): what the console was told to do, or "stuck" where the loop
\* never gets past a sequence that does not end.
put(str) ==
    LET s[k \in 0..Len(str)] ==
            IF k = 0 THEN [at |-> 1, did |-> <<>>, stuck |-> FALSE]
            ELSE LET b == s[k - 1]
                     p == parse_ansi_escape(str, b.at)
                 IN  CASE b.at > Len(str) \/ b.stuck -> b
                       [] b.at <= Len(str) /\ ~b.stuck /\ str[b.at] = ANSI_ESCAPE ->
                            [at |-> b.at + p.taken, did |-> b.did \o p.did, stuck |-> p.taken = 0]
                       [] OTHER -> [b EXCEPT !.at = @ + 1, !.did = Append(@, [do |-> "put", by |-> b.at])]
    IN  s[Len(str)]
=============================================================================
