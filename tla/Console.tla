------------------------------ MODULE Console ------------------------------
(***************************************************************************)
(* The text console and the back buffer it draws into                      *)
(* (lib/console/console.cpp, lib/framebuffer/framebuffer.cpp).  A call of  *)
(* the console is an operator from a console state to a console state, so  *)
(* that a caller strings calls together the way the code does.             *)
(*                                                                         *)
(*   buffer   the lines of text, each a sequence of cells                  *)
(*   col, row the cursor; view the first line on the screen                *)
(*   back     the character each screen cell of the back buffer shows      *)
(*   inverted the pixels of the back buffer that are drawn inverted        *)
(*   smeared  the pixels a cursor right of the last column was drawn into  *)
(*   fault    what stopped the kernel, or wrote outside the back buffer    *)
(*                                                                         *)
(* Rows and columns count from 0 as in the code.  Colours are left out.    *)
(***************************************************************************)
EXTENDS Integers, Sequences, FiniteSets, SequencesExt

CONSTANTS fb_width, fb_height,       \* the screen in pixels
          font_width, font_height,
          UINT32,                    \* stands for 2^32: columns are taken modulo it
          HeapCells                  \* bound: cells the kernel heap has room for in a line

screen_cols == fb_width \div font_width
screen_rows == fb_height \div font_height

ASSUME ScreenAssumption ==
    /\ screen_cols > 1 /\ screen_rows > 1
    /\ screen_cols < HeapCells /\ HeapCells < UINT32 - screen_cols

Blank == " "
Cells == (0 .. screen_rows - 1) \X (0 .. screen_cols - 1)

\* The back buffer: vram_buff, a pixel by its offset.
Buffer == 0 .. fb_width * fb_height - 1

\* get_pixel_offset(), with rows of pixels that follow each other without padding: an x
\* right of the screen is a pixel of the next row.
get_pixel_offset(x, y) == y * fb_width + x

\* The pixels of the rectangle at a row and a column of the text.
Rec(row, col) ==
    {get_pixel_offset(x, y) : x \in col * font_width .. (col + 1) * font_width - 1,
                              y \in row * font_height .. (row + 1) * font_height - 1}

PixelsOf(C) == UNION {Rec(p[1], p[2]) : p \in C}

\* console::init()
NewConsole ==
    [buffer |-> <<>>, col |-> 0, row |-> 0, view |-> 0,
     back |-> [p \in Cells |-> Blank], inverted |-> {}, smeared |-> {},
     needs_redraw |-> FALSE,
     fault |-> "none"]

Fault(s, what) == [s EXCEPT !.fault = IF s.fault = "none" THEN what ELSE s.fault]

\* A kernel that has panicked does nothing more.
Panicked(s) == s.fault \in {"heap", "index", "glyph"}

cursor_within_viewport(s) == s.row >= s.view /\ s.row - s.view < screen_rows

\* n times v; nothing when n is negative
Fill(n, v) == [i \in 1 .. (IF n > 0 THEN n ELSE 0) |-> v]

\* ensure_valid_cursor_buffer_pos(): a column that wrapped below zero asks for more
\* cells than the heap has.
ensure_valid_cursor_buffer_pos(s, row, col) ==
    IF col > HeapCells THEN Fault(s, "heap")
    ELSE LET rows == s.buffer \o Fill(row + 1 - Len(s.buffer), <<>>)
             line == rows[row + 1]
             more == Fill(col + 1 - Len(line), [c |-> Blank, dirty |-> TRUE])
         IN [s EXCEPT !.buffer = [rows EXCEPT ![row + 1] = line \o more]]

\* buffer[row][col] = c, made dirty
SetCell(s, row, col, c) == [s EXCEPT !.buffer[row + 1][col + 1] = [c |-> c, dirty |-> TRUE]]

\* invert_rec().  Nothing is clipped: right of the last column the cursor's rectangle
\* lies in the first one, a row of pixels lower, and in the last row that is behind the
\* buffer.  set_cursor() draws it there before it wraps a line.
invert_rec(s, rec) ==
    [s EXCEPT !.inverted = SymDiff(@, rec \cap Buffer),
              !.smeared = IF s.col < screen_cols THEN @ ELSE @ \cup (rec \cap Buffer),
              !.needs_redraw = TRUE,
              !.fault = IF @ = "none" /\ ~(rec \subseteq Buffer) THEN "outside" ELSE @]

\* The cursor is drawn wherever the viewport puts it.
draw_cursor(s) == invert_rec(s, Rec(s.row - s.view, s.col))

\* draw_char(): the asserts on the glyph's far corner.
GlyphFits(p) ==
    /\ (p[2] + 1) * font_width < fb_width
    /\ (p[1] + 1) * font_height < fb_height

\* What a cell of the screen shows of a line of text.
CharAt(line, p) == IF p[2] < Len(line) THEN line[p[2] + 1].c ELSE Blank

LineAt(s, p) == s.buffer[s.view + p[1] + 1]

\* redraw()'s loop over the cells in drawn; those of the lines on the screen become clean.
Draw(s, drawn) ==
    [s EXCEPT !.back = [p \in Cells |-> IF p \in drawn THEN CharAt(LineAt(s, p), p) ELSE @[p]],
              !.inverted = @ \ PixelsOf(drawn),
              !.needs_redraw = @ \/ drawn # {},
              !.fault = IF /\ @ = "none"
                           /\ \E p \in drawn : ~GlyphFits(p) /\ CharAt(LineAt(s, p), p) # Blank
                        THEN "glyph" ELSE @,
              !.buffer = [r \in 1 .. Len(@) |->
                            IF r - 1 \in s.view .. s.view + screen_rows - 1
                            THEN [k \in 1 .. Len(@[r]) |->
                                    [@[r][k] EXCEPT !.dirty = k > screen_cols /\ @]]
                            ELSE @[r]]]

\* The cells of the lines on the screen: the dirty ones, or all of them.
DrawCells(s, draw_clean) ==
    Draw(s, {p \in Cells :
               /\ s.view + p[1] < Len(s.buffer)
               /\ p[2] < Len(LineAt(s, p)) => draw_clean \/ LineAt(s, p)[p[2] + 1].dirty})

ToggleCursor(s) == IF cursor_within_viewport(s) THEN draw_cursor(s) ELSE s

Cleared(s) == [s EXCEPT !.back = [p \in Cells |-> Blank], !.inverted = {}, !.smeared = {}]

\* redraw(): the cursor, the cells, the cursor again.
redraw(s, draw_clean) ==
    IF Panicked(s) THEN s
    ELSE ToggleCursor(DrawCells(ToggleCursor(IF draw_clean THEN Cleared(s) ELSE s), draw_clean))

scroll(s) == redraw([s EXCEPT !.view = s.view + 1], TRUE)

ScrollToCursor(s) == IF s.row - s.view >= screen_rows THEN scroll(s) ELSE s

Place(s, col, row, undrawn) ==
    IF s.col = col /\ s.row = row THEN s
    ELSE draw_cursor(ScrollToCursor(
           [ensure_valid_cursor_buffer_pos(undrawn, row, col) EXCEPT !.col = col, !.row = row]))

\* The cursor is drawn at its new place and stays at the old one.
Bug_cursor_left(s, col, row) == Place(s, col, row, s)

\* set_cursor() for a column on the screen
PlaceCursor(s, col, row) == Place(s, col, row, draw_cursor(s))

\* newline(): without a cell under the cursor the index is out of bounds, which is so
\* only before anything was put.
newline(s) ==
    IF Panicked(s) THEN s
    ELSE IF s.buffer = <<>> THEN Fault(s, "index")
    ELSE LET old == s.buffer[s.row + 1][s.col + 1].c
         IN redraw(PlaceCursor(SetCell(s, s.row, s.col, old), 0, s.row + 1), FALSE)

\* set_cursor(): past the last column the cursor goes to the next line.
set_cursor(s, col, row) ==
    IF Panicked(s) THEN s
    ELSE IF col < screen_cols THEN PlaceCursor(s, col, row)
    ELSE LET a == ensure_valid_cursor_buffer_pos(s, row, col)
             b == newline([draw_cursor(a) EXCEPT !.col = col, !.row = row])
         IN IF Panicked(a) THEN a ELSE draw_cursor(ScrollToCursor(b))

\* move_cursor(dx, 0): the sum is a std::uint32_t.
move_cursor(s, dx) == set_cursor(s, (s.col + dx) % UINT32, s.row)

\* erase_in_line()
erase_in_line(s, from, to) ==
    IF Panicked(s) \/ from >= to THEN s
    ELSE LET a == ensure_valid_cursor_buffer_pos(s, s.row, to - 1)
         IN [a EXCEPT !.buffer[s.row + 1] =
               [k \in 1 .. Len(@) |-> IF k - 1 \in from .. to - 1
                                      THEN [c |-> Blank, dirty |-> TRUE]
                                      ELSE @[k]]]

\* put(char)
putChar(s, c) ==
    IF Panicked(s) THEN s
    ELSE IF c = "\n" THEN newline(s)
    ELSE LET a == ensure_valid_cursor_buffer_pos(s, s.row, s.col)
         IN move_cursor(SetCell(a, s.row, s.col, c), 1)

\* put(kstring_view); put(const kstring&) does the same where there is no escape.
put(s, str) == FoldLeft(putChar, s, str)

scroll_up(s) == IF s.view > 0 THEN redraw([s EXCEPT !.view = s.view - 1], TRUE) ELSE s
scroll_down(s) == IF s.view < s.row THEN redraw([s EXCEPT !.view = s.view + 1], TRUE) ELSE s
=============================================================================
