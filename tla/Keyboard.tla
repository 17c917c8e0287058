------------------------------ MODULE Keyboard ------------------------------
(***************************************************************************)
(* The PS/2 keyboard: scancode bytes become key events                     *)
(* (arch/x64/drivers/keyboard/ps2.cpp, keyboard.cpp).                      *)
(*                                                                         *)
(* A key is its scancode in set 1, plus Extended when it is sent with the  *)
(* prefix 0xE0.  wire holds the bytes the keyboard has sent and the driver *)
(* has not read; an interrupt reads any number of them, since more arrive  *)
(* while it drains the port, and may so end between a prefix and its code. *)
(*                                                                         *)
(* kb is the driver: the prefix flag, the modifiers, the event buffer.     *)
(* down (the keys held) and sent (the strokes no reader has handled yet)   *)
(* only observe.                                                           *)
(***************************************************************************)
EXTENDS Integers, Sequences, FiniteSets, SequencesExt

CONSTANT Scenarios    \* each [keys, strokes, ahead, ...]: the keys used, a bound on their
                      \* presses and releases and one on those not handled yet

VARIABLES sc,         \* the scenario of this behaviour, chosen initially
          strokes, down, sent, wire, kb

keyboard_vars == <<sc, strokes, down, sent, wire, kb>>

EXTENDED_PREFIX == 224
RELEASE_MASK == 128
Extended == 256

LeftCtrl == 29
LeftShift == 42
RightShift == 54
LeftAlt == 56
CapsLock == 58
RightCtrl == Extended + 29
RightAlt == Extended + 56
Nil == 0
Modifiers == {LeftCtrl, RightCtrl, LeftShift, RightShift, LeftAlt, RightAlt, CapsLock}

NewKb == [pending |-> FALSE, events |-> <<>>,
          shift |-> FALSE, control |-> FALSE, alt |-> FALSE, caps |-> FALSE]

KeyboardInit ==
    /\ sc \in Scenarios
    /\ strokes = 0
    /\ down = {}
    /\ sent = <<>>
    /\ wire = <<>>
    /\ kb = NewKb

\* The bytes of a key going down or up (external: the keyboard).
Bytes(k, released) ==
    (IF k >= Extended THEN <<EXTENDED_PREFIX>> ELSE <<>>)
      \o <<(k % Extended) + (IF released THEN RELEASE_MASK ELSE 0)>>

\* A key held may repeat; only a key held is released.
Stroke(k, released) ==
    /\ strokes < sc.strokes /\ Len(sent) < sc.ahead
    /\ released => k \in down
    /\ strokes' = strokes + 1
    /\ down' = IF released THEN down \ {k} ELSE down \cup {k}
    /\ sent' = Append(sent, [key |-> k, released |-> released])
    /\ wire' = wire \o Bytes(k, released)
    /\ UNCHANGED <<sc, kb>>

-----------------------------------------------------------------------------
\* update_modifiers()
update_modifiers(b, scancode, extended, released) ==
    [b EXCEPT !.shift = IF scancode \in {LeftShift, RightShift} THEN ~released ELSE @,
              !.control = IF scancode = LeftCtrl \/ extended = RightCtrl - Extended
                          THEN ~released ELSE @,
              !.alt = IF scancode = LeftAlt \/ extended = RightAlt - Extended
                      THEN ~released ELSE @,
              !.caps = IF scancode = CapsLock /\ ~released THEN ~@ ELSE @]

\* A byte decoded and pushed as an event; pending says what becomes of the prefix flag.
Decode(b, byte, pending) ==
    LET released == byte >= RELEASE_MASK
        code == byte % RELEASE_MASK
        scancode == IF b.pending THEN Nil ELSE code
        extended == IF b.pending THEN code ELSE Nil
        m == update_modifiers(b, scancode, extended, released)
        event == [scancode |-> scancode, extended |-> extended, released |-> released,
                  shift |-> m.shift, control |-> m.control, caps |-> m.caps]
    IN IF byte = EXTENDED_PREFIX THEN [b EXCEPT !.pending = TRUE]
       ELSE [m EXCEPT !.events = Append(@, event), !.pending = pending]

\* A prefix that outlives its code.
Bug_prefix_kept(b, byte) == Decode(b, byte, b.pending)

\* handle_scancode() with push_event()
handle_scancode(b, byte) == Decode(b, byte, FALSE)

\* keyboard_interrupt_handler(), up to the wake-up: n bytes were in the port.
ReadPort(n) ==
    /\ n \in 1 .. Len(wire)
    /\ kb' = FoldLeft(handle_scancode, kb, SubSeq(wire, 1, n))
    /\ wire' = SubSeq(wire, n + 1, Len(wire))
    /\ UNCHANGED <<sc, strokes, down, sent>>

-----------------------------------------------------------------------------
EventKey(e) == IF e.extended # Nil THEN Extended + e.extended ELSE e.scancode

\* The strokes whose bytes have all been decoded are the last events pushed; while a
\* byte is on its way or a prefix is pending, the remaining strokes are not events yet.
Decoded == {i \in 1 .. Len(sent) : i <= Len(sent) - Len(SelectSeq(wire, LAMBDA b : b # EXTENDED_PREFIX))}

\* A modifier flag that is set belongs to a key that is held (update_modifiers,
\* handle_scancode): no order of presses, releases and interrupts leaves Shift, Ctrl
\* or Alt stuck once the bytes are read, the right-hand keys' prefixed codes included.
NoStuckModifier ==
    wire = <<>> =>
        /\ kb.shift => {LeftShift, RightShift} \cap down # {}
        /\ kb.control => {LeftCtrl, RightCtrl} \cap down # {}
        /\ kb.alt => {LeftAlt, RightAlt} \cap down # {}

\* The buffered events are the decoded strokes no reader has taken, in order
\* (handle_scancode, push_event): a key is never taken for the key with the same code
\* and the other prefix, even when the prefix arrives in an interrupt of its own.
EventsAreStrokes ==
    LET first == Cardinality(Decoded) - Len(kb.events)
    IN /\ first >= 0
       /\ \A i \in 1 .. Len(kb.events) :
            /\ EventKey(kb.events[i]) = sent[first + i].key
            /\ kb.events[i].released = sent[first + i].released
=============================================================================
