-------------------------------- MODULE Cga ---------------------------------
(***************************************************************************)
(* The text screen (src/kernel/cga.c).  Cell and cursor numbers are        *)
(* col + COLS * row; the kernel uses LINES rows of a screen that has one   *)
(* more.  The history variables are what the screen is a window on: an     *)
(* endless roll of paper on which cgaputc only ever types at its head.     *)
(***************************************************************************)
EXTENDS Integers

CONSTANTS
  COLS, LINES,  \* 80 and 24
  Rows          \* bound: rows of the paper

NL == "NL"
BACKSPACE == "BACKSPACE"
NUL == "NUL"
BLANK == " "

ASSUME CgaAssumption ==
  COLS \in Nat \ {0} /\ LINES \in Nat \ {0} /\ Rows \in Nat /\ Rows > LINES

Cells == 0 .. (LINES + 1) * COLS - 1

VARIABLES
  crt, pos,         \* the cells; the cursor, in the registers of the CRTC
  start,            \* history: where the firmware left the cursor
  paper, head, top  \* history: the roll, its head, the row of it crt starts at

cgavars == <<crt, pos, start, paper, head, top>>

\* The firmware leaves some text and the cursor behind it.
CgaInit ==
  /\ start \in Cells
  /\ crt = [q \in Cells |-> "firmware"]
  /\ pos = start
  /\ paper = [q \in 0 .. Rows * COLS - 1 |->
                IF q < LINES * COLS THEN "firmware" ELSE NUL]
  /\ head = start
  /\ top = 0

Printable(c) == c \notin {NL, BACKSPACE}

\* The cursor after c has been typed at q, where first is as far as it can go
\* back.
Advance(q, c, first) ==
  CASE c = NL -> q + (COLS - (q % COLS))
    [] c = BACKSPACE -> IF q > first THEN q - 1 ELSE q
    [] OTHER -> q + 1

Typed(cells, q, c) == IF Printable(c) THEN [cells EXCEPT ![q] = c] ELSE cells

\* Type c at the head of the paper, which does not go back past row top.
Type(c) ==
  LET moved == Advance(head, c, top * COLS)
  IN  /\ moved < Rows * COLS
      /\ head' = moved
      /\ paper' = [Typed(paper, head, c) EXCEPT ![moved] = BLANK]

\* Slip: the cells from the cursor on are not cleared.
Scrolled_no_memset(cells, q) ==
  [p \in Cells |-> IF p < (LINES - 1) * COLS THEN cells[p + COLS]
                   ELSE cells[p]]

\* memmove of LINES - 1 rows, then memset from the cursor q to the last line.
Scrolled(cells, q) ==
  [p \in Cells |-> IF p \in q .. LINES * COLS - 1 THEN NUL
                   ELSE IF p < (LINES - 1) * COLS THEN cells[p + COLS]
                   ELSE cells[p]]

\* cgaputc, with the scrolling when the cursor reaches row n.
PutcScrollAt(c, n) ==
  LET moved  == Advance(pos, c, 0)
      scroll == moved \div COLS >= n
      typed  == Typed(crt, pos, c)
      cells  == IF scroll THEN Scrolled(typed, pos') ELSE typed
  IN  /\ pos' = IF scroll THEN moved - COLS ELSE moved
      /\ crt' = [cells EXCEPT ![pos'] = BLANK]
      /\ top' = IF scroll THEN top + 1 ELSE top
      /\ Type(c)
      /\ UNCHANGED start

\* Slip: the last row of the screen is used as well.
cgaputc_late_scroll(c) == PutcScrollAt(c, LINES + 1)

cgaputc(c) == PutcScrollAt(c, LINES)

CgaSpec == CgaInit /\ [][\E c : cgaputc(c)]_cgavars

-----------------------------------------------------------------------------

\* From any cursor the firmware may leave, the cursor stays on the screen, and
\* after a character at most on the first cell past the lines in use: every
\* cell cgaputc stores to exists, and its memset's length is never negative.
CursorOnScreen ==
  /\ pos \in Cells
  /\ pos = start \/ pos <= LINES * COLS

\* If the firmware's cursor was in the lines in use, they always show the
\* paper from row top on: typing, wrapping, erasing and scrolling lose no
\* character that is still on the screen and leave none that is not.
ShowsPaper ==
  start < LINES * COLS =>
    /\ pos = head - top * COLS
    /\ \A p \in 0 .. LINES * COLS - 1 : crt[p] = paper[top * COLS + p]
=============================================================================
