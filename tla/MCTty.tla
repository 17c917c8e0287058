------------------------------- MODULE MCTty -------------------------------
\* Small instances of the terminal for TLC: each scenario exercises one part of the
\* line editor, the console or the sharing between readers.
EXTENDS Tty

CONSTANTS r1, r2

Prompt == <<"$">>
NewLine == <<"\n">>

\* One reader and one key at a time
Typing(ks, n, ts) ==
    [keys |-> ks, strokes |-> n, ahead |-> 1, releases |-> FALSE, readers |-> {r1},
     texts |-> ts, writes |-> 1, gap |-> FALSE, flush |-> FALSE]

\* Two readers, keys typed ahead
Sharing(ks, n, ts, g) ==
    [Typing(ks, n, ts) EXCEPT !.ahead = n, !.readers = {r1, r2}, !.gap = g]

MCScenarios ==
    {Typing({A, Backspace, Extended + LeftArrow, Extended + Delete}, 7, {Prompt}),
     Typing({A, E, K, B, LeftCtrl}, 6, {}),
     Typing({A, D, F, LeftCtrl}, 6, {}),
     Typing({A, Enter, Extended + UpArrow, Extended + DownArrow}, 8, {}),
     [Typing({A, LeftCtrl, RightCtrl, RightShift, LeftShift}, 5, {}) EXCEPT !.ahead = 3],
     [Typing({A, Enter, Extended + LeftArrow}, 4, {Prompt, NewLine})
        EXCEPT !.flush = TRUE, !.releases = TRUE],
     [Typing({A, Enter, Extended + PageUp, Extended + PageDown}, 7, {}) EXCEPT !.flush = TRUE],
     Sharing({A, Backspace}, 3, {NewLine}, TRUE),
     Sharing({A, Enter}, 3, {Prompt}, FALSE),
     Sharing({A, Extended + LeftArrow}, 3, {}, FALSE)}
=============================================================================
