-------------------------------- MODULE Tty --------------------------------
(***************************************************************************)
(* /dev/tty1 (lib/fs/devfs/dev_tty.cpp): processes read lines that are     *)
(* edited key by key and echoed on the console.  The module composes the   *)
(* Keyboard driver, the line editor, the Console and the compositor thread *)
(* of the framebuffer.                                                     *)
(*                                                                         *)
(* The line editor's buffer belongs to the inode, and poll() returns a     *)
(* pointer to one static event: every reader of the terminal shares both.  *)
(* A reader runs with interrupts masked from the system call up to its     *)
(* first wait; afterwards it can be interrupted and preempted, also        *)
(* between poll() and the use of what poll() returned.  The scenario's gap *)
(* says whether that happens; without it the reader goes from poll() to    *)
(* the edit, or to the wait, undisturbed.                                  *)
(*                                                                         *)
(* The editing of one key is one step.                                     *)
(***************************************************************************)
EXTENDS Keyboard, Console

CONSTANTS INITIAL_CAPACITY, GROWTH_RATE,  \* of kstring
          AllReaders,
          MaxRow        \* bound: no line is started below this row

\* A scenario also says who reads, what is written and how often, whether there is a
\* gap, and whether the compositor runs.
Readers == sc.readers

String == INSTANCE Kstring

VARIABLES tty,            \* the inode: buffer with the capacity of its block, whether the
                          \* block was overrun, buffer_index, history, history_index
          con,            \* the console
          vram,           \* what the screen shows: characters and inverted cells
          current_event,  \* keyboard.cpp, poll()
          pc, irqs,       \* where a reader is, and whether it runs with interrupts on
          writes,         \* write() calls so far
          base,           \* observes: the cursor when the last read() began
          plain           \* observes: it began behind the text of its row, since then
                          \* there was no write(), and the line fits its row

tty_vars == <<tty, con, vram, current_event, pc, irqs, writes, base, plain>>
vars == <<keyboard_vars, tty_vars>>

Backspace == 14
E == 18
Enter == 28
A == 30
D == 32
F == 33
K == 37
B == 48
UpArrow == 72
PageUp == 73
LeftArrow == 75
RightArrow == 77
DownArrow == 80
PageDown == 81
Delete == 83

\* scancode_to_ascii() on the model's keys: the editing keys, the arrows and the
\* modifiers have no character, and caps changes letters only.
scancode_to_ascii(code, caps) ==
    CASE code = A -> IF caps THEN "A" ELSE "a"
      [] code = B -> IF caps THEN "B" ELSE "b"
      [] code = D -> IF caps THEN "D" ELSE "d"
      [] code = E -> IF caps THEN "E" ELSE "e"
      [] code = F -> IF caps THEN "F" ELSE "f"
      [] code = K -> IF caps THEN "K" ELSE "k"
      [] OTHER -> ""

Shown(c) == <<c.back, c.inverted>>

Init ==
    /\ KeyboardInit
    /\ tty = [buffer |-> <<>>, capacity |-> 0, overrun |-> FALSE, buffer_index |-> 0,
              history |-> <<>>, history_index |-> 0]
    /\ con = NewConsole
    /\ vram = Shown(NewConsole)
    /\ current_event = <<>>
    /\ pc = [r \in Readers |-> "user"]
    /\ irqs = [r \in Readers |-> TRUE]
    /\ writes = 0
    /\ base = <<0, 0>>
    /\ plain = FALSE

-----------------------------------------------------------------------------
(* The line editor: an operation takes and returns the inode with the      *)
(* console in its field con.                                               *)

RetypeFrom(t, from, con0, back) ==
    LET rest == SubSeq(t.buffer, from + 1, Len(t.buffer))
        erased == erase_in_line(con0, con0.col, screen_cols)
    IN [t EXCEPT !.con = move_cursor(put(erased, rest), -back)]

\* The cursor is left at the end of the line.
Bug_not_moved_back(t, from, con0) == RetypeFrom(t, from, con0, 0)

\* The end of every edit: the line from the cursor on is put again and the cursor
\* moved back.
Retype(t, from, con0) == RetypeFrom(t, from, con0, Len(t.buffer) - t.buffer_index)

\* kstring::insert(): room is made for the character.  At the end of the string
\* push_back() makes more for the '\0' behind it, in the middle nothing does, and in a
\* full block the '\0' is moved past its end.
Insert(t, pos, c) ==
    LET n == Len(t.buffer)
        room == String!Grown(t.capacity, n + 1)
        more == IF pos = n THEN String!Grown(room, n + 2) ELSE room
    IN [t EXCEPT !.buffer = InsertAt(@, pos + 1, c), !.capacity = more,
                 !.overrun = @ \/ n + 2 > more]

insert_char(t, c) ==
    LET b == [Insert(t, t.buffer_index, c) EXCEPT !.buffer_index = @ + 1]
    IN Retype(b, t.buffer_index, t.con)

\* kstring::erase(pos)
Erase(s, pos) == SubSeq(s, 1, pos) \o SubSeq(s, pos + 2, Len(s))

delete_back(t) ==
    LET b == [t EXCEPT !.buffer = Erase(@, t.buffer_index - 1), !.buffer_index = @ - 1]
    IN IF t.buffer_index = 0 THEN t
       ELSE Retype(b, b.buffer_index, move_cursor(t.con, -1))

delete_forward(t) ==
    IF t.buffer_index = Len(t.buffer) THEN t
    ELSE Retype([t EXCEPT !.buffer = Erase(@, t.buffer_index)], t.buffer_index, t.con)

Moved(t, i) ==
    [t EXCEPT !.buffer_index = i, !.con = move_cursor(t.con, i - t.buffer_index)]

\* move_left(), move_right(), move_to_start(), move_to_end()
MoveTo(t, i) ==
    IF i \notin 0 .. Len(t.buffer) \/ i = t.buffer_index THEN t ELSE Moved(t, i)

delete_to_end(t) ==
    [t EXCEPT !.buffer = SubSeq(@, 1, t.buffer_index),
              !.con = erase_in_line(t.con, t.con.col, screen_cols)]

\* buffer = line, in a new block.
Replace(t, line, i) ==
    LET e == delete_to_end(MoveTo(t, 0))
    IN [e EXCEPT !.buffer = line, !.capacity = String!Grown(0, Len(line) + 1),
                 !.buffer_index = Len(line), !.history_index = i,
                 !.con = put(e.con, line)]

buffer_history_up(t) ==
    IF t.history_index = 0 THEN t
    ELSE Replace(t, t.history[t.history_index], t.history_index - 1)

buffer_history_down(t) ==
    IF t.history_index + 1 < Len(t.history)
    THEN Replace(t, t.history[t.history_index + 2], t.history_index + 1)
    ELSE Replace(t, <<>>, Len(t.history))

add_buffer_history(t) ==
    IF t.buffer = <<>> \/ (t.history # <<>> /\ t.buffer = Last(t.history)) THEN t
    ELSE [t EXCEPT !.history = Append(@, t.buffer), !.history_index = Len(t.history) + 1]

process_ctrl(t, scancode) ==
    CASE scancode = A -> MoveTo(t, 0)
      [] scancode = E -> MoveTo(t, Len(t.buffer))
      [] scancode = K -> delete_to_end(t)
      [] scancode = B -> MoveTo(t, t.buffer_index - 1)
      [] scancode = F -> MoveTo(t, t.buffer_index + 1)
      [] scancode = D -> delete_forward(t)
      [] OTHER -> t

IsEnter(e) == ~e.released /\ ~e.control /\ e.scancode = Enter

\* The body of read()'s inner loop for one event.
Edit(t, e) ==
    LET ascii == scancode_to_ascii(e.scancode, e.shift \/ e.caps)
        d == CASE e.control -> process_ctrl(t, e.scancode)
               [] ~e.control /\ ascii # "" -> insert_char(t, ascii)
               [] ~e.control /\ e.scancode = Backspace -> delete_back(t)
               [] ~e.control /\ e.extended = LeftArrow -> MoveTo(t, t.buffer_index - 1)
               [] ~e.control /\ e.extended = RightArrow -> MoveTo(t, t.buffer_index + 1)
               [] ~e.control /\ e.extended = Delete -> delete_forward(t)
               [] ~e.control /\ e.extended = UpArrow -> buffer_history_up(t)
               [] ~e.control /\ e.extended = DownArrow -> buffer_history_down(t)
               [] ~e.control /\ e.extended = PageUp -> [t EXCEPT !.con = scroll_up(@)]
               [] ~e.control /\ e.extended = PageDown -> [t EXCEPT !.con = scroll_down(@)]
               [] OTHER -> t
    IN IF e.released THEN t
       ELSE IF IsEnter(e) THEN [add_buffer_history(t) EXCEPT !.con = newline(@)]
       ELSE [d EXCEPT !.con = redraw(@, FALSE)]

-----------------------------------------------------------------------------
\* A reader nothing can come between: interrupts are masked, or no gap is modelled.
Undisturbed(r) ==
    \/ ~irqs[r] /\ pc[r] \in {"poll", "got", "empty"}
    \/ ~sc.gap /\ pc[r] \in {"got", "empty"}

MayRun(r) == ~Panicked(con) /\ \A q \in Readers \ {r} : ~Undisturbed(q)
Open == ~Panicked(con) /\ \A q \in Readers : ~Undisturbed(q)

\* The text of the cursor's row ends at the cursor.
AtEndOfRow ==
    con.buffer # <<>> => LET line == con.buffer[con.row + 1]
                         IN \A k \in con.col + 1 .. Len(line) : line[k].c = Blank

\* read(): the line starts empty.
read(r) ==
    /\ pc[r] = "user" /\ MayRun(r) /\ con.row < MaxRow
    /\ tty' = [tty EXCEPT !.buffer = <<>>, !.capacity = String!Grown(0, 1), !.buffer_index = 0]
    /\ pc' = [pc EXCEPT ![r] = "poll"]
    /\ irqs' = [irqs EXCEPT ![r] = FALSE]
    /\ base' = <<con.row, con.col>>
    /\ plain' = AtEndOfRow
    /\ UNCHANGED <<keyboard_vars, con, vram, current_event, writes>>

\* poll()
poll(r) ==
    /\ pc[r] = "poll" /\ MayRun(r)
    /\ \/ /\ kb.events = <<>>
          /\ pc' = [pc EXCEPT ![r] = "empty"]
          /\ UNCHANGED <<kb, current_event>>
       \/ /\ kb.events # <<>>
          /\ current_event' = Head(kb.events)
          /\ kb' = [kb EXCEPT !.events = Tail(@)]
          /\ pc' = [pc EXCEPT ![r] = "got"]
    /\ UNCHANGED <<sc, strokes, down, sent, wire, tty, con, vram, irqs, writes, base, plain>>

Edited(t) ==
    /\ tty' = [f \in DOMAIN tty |-> t[f]]
    /\ con' = t.con
    /\ plain' = (plain /\ base[2] + Len(t.buffer) < screen_cols /\ ~IsEnter(current_event))

\* The reader acts on the event poll()'s pointer shows now.
Handle(r) ==
    /\ pc[r] = "got" /\ MayRun(r) /\ con.row < MaxRow
    /\ Edited(Edit([con |-> con] @@ tty, current_event))
    /\ pc' = [pc EXCEPT ![r] = IF IsEnter(current_event) THEN "user" ELSE "poll"]
    /\ sent' = Tail(sent)
    /\ UNCHANGED <<sc, strokes, down, wire, kb, vram, current_event, irqs, writes, base>>

\* yield_blocked(KEYBOARD): the reader comes back with interrupts on.
yield_blocked(r) ==
    /\ pc[r] = "empty" /\ MayRun(r)
    /\ pc' = [pc EXCEPT ![r] = "blocked"]
    /\ irqs' = [irqs EXCEPT ![r] = TRUE]
    /\ UNCHANGED <<keyboard_vars, tty, con, vram, current_event, writes, base, plain>>

Interrupt(n, wakes) ==
    /\ Open
    /\ ReadPort(n)
    /\ \/ \E r \in Readers : wakes /\ pc[r] = "blocked" /\ pc' = [pc EXCEPT ![r] = "poll"]
       \/ (wakes => \A r \in Readers : pc[r] # "blocked") /\ pc' = pc
    /\ UNCHANGED <<tty, con, vram, current_event, irqs, writes, base, plain>>

\* A port with more than one byte in it is drained without a wake-up.
Bug_no_wake == \E n \in 1 .. Len(wire) : Interrupt(n, n = 1)

\* keyboard_interrupt_handler(): wake_single() makes one blocked reader ready.
keyboard_interrupt_handler == \E n \in 1 .. Len(wire) : Interrupt(n, TRUE)

\* write(), by any process
write(text) ==
    /\ Open /\ con.row < MaxRow /\ writes < sc.writes
    /\ writes' = writes + 1
    /\ con' = redraw(put(con, text), FALSE)
    /\ plain' = FALSE
    /\ UNCHANGED <<keyboard_vars, tty, vram, current_event, pc, irqs, base>>

\* redraw_kthread(): the back buffer is copied to the screen.
redraw_kthread ==
    /\ Open /\ sc.flush
    /\ con.needs_redraw
    /\ vram' = Shown(con)
    /\ con' = [con EXCEPT !.needs_redraw = FALSE]
    /\ UNCHANGED <<keyboard_vars, tty, current_event, pc, irqs, writes, base, plain>>

\* The keyboard, in a scenario that lets ordinary keys go up too or only modifiers.
Press(k, released) ==
    /\ ~Panicked(con)
    /\ released => sc.releases \/ k \in Modifiers
    /\ Stroke(k, released)
    /\ UNCHANGED tty_vars

Next ==
    \/ \E k \in sc.keys, released \in BOOLEAN : Press(k, released)
    \/ \E r \in Readers : read(r) \/ poll(r) \/ Handle(r) \/ yield_blocked(r)
    \/ keyboard_interrupt_handler
    \/ \E text \in sc.texts : write(text)
    \/ redraw_kthread

Spec == Init /\ [][Next]_vars

\* A reader's next step is held back only by another reader's undisturbed stretch, a
\* panic or the bound on rows.
Ready(r) ==
    /\ r \in Readers /\ pc[r] # "blocked" /\ MayRun(r)
    /\ pc[r] \in {"user", "got"} => con.row < MaxRow

\* A reader that is ready gets the processor, an interrupt that is pending is taken, and
\* a program that got its line reads the next one.  This is weak fairness of read, poll,
\* Handle, yield_blocked and keyboard_interrupt_handler, written with their guards: each
\* is the only step that leaves the place its guard names, and strokes are bounded.
Fairness ==
    /\ \A r \in AllReaders, at \in {"user", "poll", "got", "empty"} :
          []<>~(Ready(r) /\ pc[r] = at)
    /\ []<>~(Open /\ wire # <<>>)

LiveSpec == Spec /\ Fairness

-----------------------------------------------------------------------------
TypeOK ==
    /\ pc \in [Readers -> {"user", "poll", "got", "empty", "blocked"}]
    /\ irqs \in [Readers -> BOOLEAN]
    /\ tty.buffer_index \in Nat /\ tty.history_index \in Nat /\ tty.capacity \in Nat
    /\ con.view \in Nat /\ con.inverted \cup con.smeared \subseteq Buffer
    /\ writes \in Nat /\ plain \in BOOLEAN

\* The cursor of the line editor lies in its line and the history cursor in the
\* history (insert_char ... buffer_history_down), also when two readers take turns on
\* the one buffer and a second read() empties it under the first.
IndexInLine ==
    /\ tty.buffer_index <= Len(tty.buffer)
    /\ tty.history_index <= Len(tty.history)

\* "do not add empty string or back to back duplicates to history"
\* (add_buffer_history), whatever was recalled and edited in between.
HistoryDistinct ==
    \A i \in DOMAIN tty.history :
        /\ tty.history[i] # <<>>
        /\ i > 1 => tty.history[i] # tty.history[i - 1]

\* The characters of the line stay in its block, whatever was inserted, erased and
\* recalled before, and the '\0' behind them does too, but for the one that an insert in
\* the middle of a full block moved past its end (kstring::insert()).
LineInBlock ==
    /\ Len(tty.buffer) <= tty.capacity
    /\ Len(tty.buffer) = tty.capacity /\ tty.capacity > 0 => tty.overrun

\* While a line is edited that began behind the text of its row, that no write()
\* disturbed and that fits its row, the console shows exactly that line where the read
\* began, and the cursor stands at buffer_index: each edit's erasing, putting and
\* moving back agree with the buffer.
LineOnScreen ==
    plain => LET line == con.buffer[con.row + 1]
             IN /\ con.row = base[1]
                /\ con.col = base[2] + tty.buffer_index
                /\ con.buffer # <<>> =>
                     \A k \in base[2] + 1 .. Len(line) :
                        line[k].c = IF k - base[2] \in DOMAIN tty.buffer
                                    THEN tty.buffer[k - base[2]] ELSE Blank

\* What the back buffer shows of a line of text is that line (redraw()'s dirty cells):
\* no edit, scroll or newline leaves a character on the screen that is not there.
ScreenFollows ==
    con.fault = "none" =>
        \A p \in Cells : con.view + p[1] < Len(con.buffer) =>
            LET line == con.buffer[con.view + p[1] + 1]
            IN con.back[p] = IF p[2] < Len(line) THEN line[p[2] + 1].c ELSE Blank

\* No cursor is left behind: between two operations the only inverted pixels are those
\* of the cursor's cell (draw_cursor() toggles in set_cursor() and redraw()) and,
\* until the view scrolls, those that a cursor drawn right of the last column hit
\* when a line wrapped.
OneCursor ==
    con.fault = "none" => con.inverted \subseteq Rec(con.row - con.view, con.col) \cup con.smeared

\* The compositor misses nothing: with needs_redraw clear the screen shows the back
\* buffer (draw_pixel(), framebuffer::redraw()).
Flushed == ~con.needs_redraw => vram = Shown(con)

\* A line that fits its row, without a write() in between, is edited without a fault:
\* the cursor column never wraps below zero and nothing is drawn outside the back
\* buffer, as long as the view was not scrolled away from the cursor.
EditingIsSafe == plain /\ Extended + PageUp \notin sc.keys => con.fault = "none"

\* After any sequence of edits, recalls and reads the line, its block, its index, the
\* history and the console agree.
EditingIsSound ==
    TypeOK /\ IndexInLine /\ LineInBlock /\ HistoryDistinct /\ LineOnScreen /\ EditingIsSafe

\* From the text to the screen nothing is left behind: neither characters, nor a
\* cursor, nor a change the compositor does not hear of.
ScreenIsCurrent == ScreenFollows /\ OneCursor /\ Flushed

\* Without the gap the event a reader acts on is the oldest stroke not acted on yet
\* (poll()'s static current_event): nothing is lost or done twice between readers.
HandlesNext ==
    ~sc.gap => \A r \in Readers : pc[r] = "got" =>
              /\ EventKey(current_event) = Head(sent).key
              /\ current_event.released = Head(sent).released

\* From the wire to the line editor no stroke is lost, doubled, reordered or changed
\* by the modifiers of another (handle_scancode(), push_event(), poll()).
StrokesInOrder == EventsAreStrokes /\ NoStuckModifier /\ HandlesNext

\* Without the gap every stroke is acted on in the end (poll(), yield_blocked(),
\* wake_single()), whatever the readers were doing when it came; the exceptions are a
\* panic and the bound on rows.
StrokesHandled ==
    sc.gap \/ <>[](sent = <<>> \/ Panicked(con) \/ con.row = MaxRow)

\* Every character drawn lies inside the screen, as draw_char() asserts
\* ("y out of bounds").
GlyphsFit == con.fault # "glyph"
=============================================================================
