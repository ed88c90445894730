------------------------------ MODULE CgaProofs -----------------------------
(* Proofs about Cga for any screen size and any text. *)
EXTENDS Cga, TLAPS

\* A cell number is its row and its column.
LEMMA RowAndCol ==
  ASSUME NEW q \in Nat
  PROVE  /\ COLS \in Nat /\ COLS > 0 /\ LINES \in Nat /\ LINES > 0
         /\ q \div COLS \in Nat /\ q % COLS \in 0 .. COLS - 1
         /\ q = COLS * (q \div COLS) + (q % COLS)
BY CgaAssumption

\* Rows compare as the cells they start at.
LEMMA RowOrder ==
  ASSUME NEW a \in Nat, NEW b \in Nat, a <= b
  PROVE  COLS * a \in Nat /\ COLS * b \in Nat /\ COLS * a <= COLS * b
<1>1. COLS \in Nat
  BY CgaAssumption
<1>2. PICK k \in Nat : b = a + k
  <2>1. b - a \in Nat /\ b = a + (b - a)
    OBVIOUS
  <2>2. QED
    BY <2>1
<1>3. COLS * b = COLS * a + COLS * k
  BY <1>1, <1>2
<1>4. COLS * a \in Nat /\ COLS * k \in Nat
  BY <1>1
<1>5. QED
  BY <1>3, <1>4

\* The test for scrolling, and where a newline leads.
LEMMA LineFacts ==
  ASSUME NEW q \in Nat, NEW n \in Nat
  PROVE  /\ n * COLS \in Nat
         /\ q \div COLS >= n <=> q >= n * COLS
         /\ q < n * COLS => q + (COLS - (q % COLS)) <= n * COLS
         /\ (n + 1) * COLS = n * COLS + COLS
<1> DEFINE d == q \div COLS
           m == q % COLS
<1>1. /\ COLS \in Nat /\ COLS > 0 /\ d \in Nat /\ m \in 0 .. COLS - 1
      /\ q = COLS * d + m
  BY RowAndCol
<1>2. n * COLS = COLS * n /\ COLS * n \in Nat /\ COLS * d \in Nat
      /\ COLS * (d + 1) = COLS * d + COLS /\ (n + 1) * COLS = n * COLS + COLS
  BY <1>1
<1> HIDE DEF d, m
<1>3. d >= n => COLS * n <= COLS * d
  BY <1>1, RowOrder
<1>4. d < n => COLS * (d + 1) <= COLS * n
  <2>1. d < n => d + 1 <= n /\ d + 1 \in Nat
    BY <1>1
  <2>2. QED
    BY <2>1, RowOrder
<1>5. d >= n <=> q >= n * COLS
  BY <1>1, <1>2, <1>3, <1>4
<1>6. q < n * COLS => q + (COLS - m) <= n * COLS
  BY <1>1, <1>2, <1>4, <1>5
<1>7. QED
  BY <1>2, <1>5, <1>6 DEF d, m

-----------------------------------------------------------------------------
(* The inductive invariant.  Past the last line shown the paper is empty:  *)
(* this is what makes the memset of a scroll right.                        *)

Lines == LINES * COLS  \* the first cell past the lines in use

PaperInv ==
  /\ pos < Lines
  /\ top \in Nat /\ top + LINES <= Rows
  /\ head = top * COLS + pos
  /\ DOMAIN paper = 0 .. Rows * COLS - 1
  /\ \A p \in 0 .. Lines - 1 : crt[p] = paper[top * COLS + p]
  /\ \A q \in (top + LINES) * COLS .. Rows * COLS - 1 : paper[q] = NUL

CgaInv ==
  /\ start \in Cells
  /\ CursorOnScreen
  /\ DOMAIN crt = Cells
  /\ start < Lines => PaperInv

\* The cells of the screen, and those of the paper in view.
LEMMA ScreenFacts ==
  /\ COLS \in Nat /\ COLS > 0 /\ LINES \in Nat /\ LINES > 0
  /\ Lines \in Nat /\ Lines >= COLS
  /\ (LINES - 1) * COLS = Lines - COLS
  /\ Cells = 0 .. Lines + COLS - 1
  /\ Rows \in Nat /\ Rows * COLS \in Nat
BY CgaAssumption DEF Lines, Cells

\* Rows of the paper as cells.
LEMMA PaperFacts ==
  ASSUME NEW t \in Nat
  PROVE  /\ t * COLS \in Nat
         /\ (t + 1) * COLS = t * COLS + COLS
         /\ (t + LINES) * COLS = t * COLS + Lines
         /\ (t + 1 + LINES) * COLS = t * COLS + Lines + COLS
         /\ t + LINES <= Rows => t * COLS + Lines <= Rows * COLS
         /\ t * COLS + Lines < Rows * COLS => t + 1 + LINES <= Rows
<1>1. /\ t * COLS \in Nat
      /\ (t + 1) * COLS = t * COLS + COLS
      /\ (t + LINES) * COLS = t * COLS + Lines
      /\ (t + 1 + LINES) * COLS = t * COLS + Lines + COLS
  BY CgaAssumption DEF Lines
<1>2. t + LINES <= Rows => COLS * (t + LINES) <= COLS * Rows
  BY CgaAssumption, RowOrder
<1>3. Rows <= t + LINES => COLS * Rows <= COLS * (t + LINES)
  BY CgaAssumption, RowOrder
<1>4. /\ COLS * (t + LINES) = (t + LINES) * COLS
      /\ COLS * Rows = Rows * COLS
      /\ Rows * COLS \in Nat /\ Lines \in Nat
      /\ t + LINES \in Nat /\ Rows \in Nat
  BY CgaAssumption DEF Lines
<1>5. t + LINES <= Rows => t * COLS + Lines <= Rows * COLS
  BY <1>1, <1>2, <1>4
<1>6. t * COLS + Lines < Rows * COLS => ~(Rows <= t + LINES)
  BY <1>1, <1>3, <1>4
<1>7. ~(Rows <= t + LINES) => t + 1 + LINES <= Rows
  BY CgaAssumption
<1>8. QED
  BY <1>1, <1>5, <1>6, <1>7

\* The firmware's screen is the first view of the paper.
LEMMA CgaInitInv == CgaInit => CgaInv
<1> SUFFICES ASSUME CgaInit PROVE CgaInv
  OBVIOUS
<1>1. /\ start \in Cells /\ pos = start /\ head = start /\ top = 0
      /\ DOMAIN crt = Cells
      /\ DOMAIN paper = 0 .. Rows * COLS - 1
  BY DEF CgaInit
<1>2. /\ 0 * COLS = 0 /\ (0 + LINES) * COLS = Lines
      /\ LINES < Rows /\ Lines <= Rows * COLS
  BY CgaAssumption, PaperFacts, ScreenFacts
<1>3. ASSUME start < Lines PROVE PaperInv
  <2>1. \A p \in 0 .. Lines - 1 : crt[p] = paper[top * COLS + p]
    BY <1>1, <1>2, ScreenFacts DEF CgaInit, Lines
  <2>2. \A q \in (top + LINES) * COLS .. Rows * COLS - 1 : paper[q] = NUL
    BY <1>1, <1>2, ScreenFacts DEF CgaInit, Lines
  <2>3. QED
    BY <1>1, <1>2, <1>3, <2>1, <2>2, ScreenFacts DEF PaperInv
<1>4. QED
  BY <1>1, <1>3 DEF CgaInv, CursorOnScreen

\* The cursor moves on the paper as it does on the screen.
LEMMA AdvanceShift ==
  ASSUME NEW q \in Nat, NEW t \in Nat, NEW c
  PROVE  Advance(t * COLS + q, c, t * COLS) = t * COLS + Advance(q, c, 0)
<1>1. (t * COLS + q) % COLS = q % COLS
  <2>1. /\ COLS \in Nat /\ COLS > 0
        /\ q \div COLS \in Nat /\ q % COLS \in 0 .. COLS - 1
        /\ q = COLS * (q \div COLS) + (q % COLS)
    BY RowAndCol
  <2>2. t * COLS + q = COLS * (t + (q \div COLS)) + (q % COLS)
    BY <2>1
  <2>3. QED
    <3> DEFINE m == q % COLS
               e == t + (q \div COLS)
               r == t * COLS + q
    <3>1. e \in Nat /\ m \in 0 .. COLS - 1 /\ r = COLS * e + m /\ r \in Nat
      BY <2>1, <2>2
    <3>2. r = COLS * (r \div COLS) + (r % COLS) /\ r % COLS \in 0 .. COLS - 1
          /\ r \div COLS \in Nat
      BY <3>1, RowAndCol
    <3> HIDE DEF e, m, r
    <3>3. r \div COLS = e
      <4>1. CASE r \div COLS < e
        <5>1. (r \div COLS) + 1 \in Nat /\ (r \div COLS) + 1 <= e
          BY <3>1, <3>2, <4>1
        <5>2. COLS * ((r \div COLS) + 1) <= COLS * e
          BY <3>1, <5>1, RowOrder
        <5>3. COLS * ((r \div COLS) + 1) = COLS * (r \div COLS) + COLS
          BY <2>1, <3>2
        <5>4. QED
          BY <2>1, <3>1, <3>2, <5>2, <5>3
      <4>2. CASE e < r \div COLS
        <5>1. e + 1 \in Nat /\ e + 1 <= r \div COLS
          BY <3>1, <3>2, <4>2
        <5>2. COLS * (e + 1) <= COLS * (r \div COLS)
          BY <3>2, <5>1, RowOrder
        <5>3. COLS * (e + 1) = COLS * e + COLS
          BY <2>1, <3>1
        <5>4. QED
          BY <2>1, <3>1, <3>2, <5>2, <5>3
      <4>3. QED
        BY <3>1, <3>2, <4>1, <4>2
    <3>4. COLS * e \in Nat
      BY <2>1, <3>1
    <3>5. r % COLS = m
      BY <2>1, <3>1, <3>2, <3>3, <3>4
    <3>6. QED
      BY <3>5 DEF m, r
<1>2. /\ t * COLS \in Nat /\ q % COLS \in 0 .. COLS - 1 /\ COLS \in Nat
  BY RowAndCol, PaperFacts
<1>3. QED
  BY <1>1, <1>2 DEF Advance

\* Where cgaputc leaves the cursor: a step on, or at the end of the lines in
\* use a row higher.
LEMMA CursorStep ==
  ASSUME NEW c, pos \in Cells, cgaputc(c)
  PROVE  /\ Advance(pos, c, 0) \in Nat
         /\ IF Advance(pos, c, 0) < Lines
              THEN pos' = Advance(pos, c, 0)
              ELSE pos' = Advance(pos, c, 0) - COLS
         /\ pos' \in 0 .. Lines
         /\ pos < Lines => Advance(pos, c, 0) <= Lines
<1> DEFINE moved == Advance(pos, c, 0)
<1>1. pos \in Nat /\ pos < Lines + COLS
  BY ScreenFacts
<1>2. /\ pos % COLS \in 0 .. COLS - 1
      /\ pos < Lines => pos + (COLS - (pos % COLS)) <= Lines
      /\ pos + (COLS - (pos % COLS)) <= Lines + COLS
  <2>1. LINES + 1 \in Nat /\ (LINES + 1) * COLS = Lines + COLS
    BY <1>1, ScreenFacts, LineFacts DEF Lines
  <2>2. pos < (LINES + 1) * COLS =>
          pos + (COLS - (pos % COLS)) <= (LINES + 1) * COLS
    BY <1>1, <2>1, LineFacts
  <2>3. pos < Lines => pos + (COLS - (pos % COLS)) <= Lines
    BY <1>1, ScreenFacts, LineFacts DEF Lines
  <2>4. QED
    BY <1>1, <2>1, <2>2, <2>3, RowAndCol
<1>3. /\ moved \in Nat /\ moved <= Lines + COLS
      /\ pos < Lines => moved <= Lines
  <2>1. CASE c = NL
    <3>1. moved = pos + (COLS - (pos % COLS))
      BY <2>1 DEF Advance, NL, BACKSPACE
    <3>2. QED
      BY <1>1, <1>2, <3>1, ScreenFacts
  <2>2. CASE c # NL
    <3>1. moved \in {pos, pos - 1, pos + 1} /\ moved >= 0
      BY <1>1, <2>2 DEF Advance
    <3>2. QED
      BY <1>1, <3>1, ScreenFacts
  <2>3. QED
    BY <2>1, <2>2
<1>4. pos' = IF moved \div COLS >= LINES THEN moved - COLS ELSE moved
  BY DEF cgaputc, PutcScrollAt
<1> HIDE DEF moved
<1>5. moved \div COLS >= LINES <=> moved >= Lines
  BY <1>3, ScreenFacts, LineFacts DEF Lines
<1>6. QED
  BY <1>3, <1>4, <1>5, ScreenFacts DEF moved

\* The lines in use still show the paper after a character.
LEMMA PaperStep ==
  ASSUME NEW c, CgaInv, PaperInv, cgaputc(c)
  PROVE  PaperInv'
<1> DEFINE moved == Advance(pos, c, 0)
           T == top * COLS
           R == Rows * COLS
<1>1. /\ pos \in Nat /\ pos < Lines /\ pos \in Cells /\ top \in Nat
      /\ head = T + pos /\ DOMAIN paper = 0 .. R - 1 /\ DOMAIN crt = Cells
      /\ top + LINES <= Rows
  BY ScreenFacts DEF CgaInv, PaperInv, CursorOnScreen
<1>2. /\ moved \in Nat /\ moved <= Lines
      /\ pos' = IF moved < Lines THEN moved ELSE moved - COLS
  BY <1>1, CursorStep
<1>3. /\ T \in Nat /\ (top + 1) * COLS = T + COLS
      /\ (top + LINES) * COLS = T + Lines
      /\ (top + 1 + LINES) * COLS = T + Lines + COLS
      /\ T + Lines <= R
      /\ T + Lines < R => top + 1 + LINES <= Rows
      /\ R \in Nat
  BY <1>1, PaperFacts, ScreenFacts
<1>4. Advance(head, c, T) = T + moved
  BY <1>1, AdvanceShift
<1>5. moved \div COLS >= LINES <=> moved >= Lines
  BY <1>2, ScreenFacts, LineFacts DEF Lines
<1>6. /\ T + moved < R /\ head' = T + moved
      /\ paper' = [Typed(paper, head, c) EXCEPT ![T + moved] = BLANK]
      /\ top' = IF moved >= Lines THEN top + 1 ELSE top
      /\ crt' = [IF moved >= Lines THEN Scrolled(Typed(crt, pos, c), pos')
                                   ELSE Typed(crt, pos, c)
                   EXCEPT ![pos'] = BLANK]
  BY <1>4, <1>5 DEF cgaputc, PutcScrollAt, Type
<1>7. /\ \A p \in 0 .. Lines - 1 : crt[p] = paper[T + p]
      /\ \A q \in T + Lines .. R - 1 : paper[q] = NUL
  BY <1>3 DEF PaperInv
<1> HIDE DEF moved, T, R
<1>8. /\ DOMAIN Typed(paper, head, c) = 0 .. R - 1
      /\ DOMAIN Typed(crt, pos, c) = Cells
      /\ \A p \in 0 .. Lines - 1 :
           Typed(crt, pos, c)[p] = Typed(paper, head, c)[T + p]
      /\ \A q \in T + Lines .. R - 1 : Typed(paper, head, c)[q] = NUL
  <2>1. CASE Printable(c)
    <3>1. /\ Typed(paper, head, c) = [paper EXCEPT ![T + pos] = c]
          /\ Typed(crt, pos, c) = [crt EXCEPT ![pos] = c]
      BY <1>1, <2>1 DEF Typed
    <3>2. ASSUME NEW p \in 0 .. Lines - 1
          PROVE  Typed(crt, pos, c)[p] = Typed(paper, head, c)[T + p]
      <4>1. p \in Cells /\ T + p \in 0 .. R - 1 /\ crt[p] = paper[T + p]
        BY <1>1, <1>3, <1>7, ScreenFacts
      <4>2. T + p = T + pos <=> p = pos
        BY <1>1, <1>3, ScreenFacts
      <4>3. QED
        BY <1>1, <3>1, <4>1, <4>2
    <3>3. ASSUME NEW q \in T + Lines .. R - 1
          PROVE  Typed(paper, head, c)[q] = NUL
      <4>1. q \in 0 .. R - 1 /\ q # T + pos /\ paper[q] = NUL
        <5>1. q >= T + Lines /\ q <= R - 1 /\ q \in Int
          BY <1>3, ScreenFacts
        <5>2. q \in 0 .. R - 1 /\ q # T + pos
          BY <1>1, <1>3, <5>1, ScreenFacts
        <5>3. QED
          BY <1>7, <5>2
      <4>2. QED
        BY <1>1, <3>1, <4>1
    <3>4. QED
      BY <1>1, <3>1, <3>2, <3>3
  <2>2. CASE ~Printable(c)
    BY <1>1, <1>7, <2>2 DEF Typed
  <2>3. QED
    BY <2>1, <2>2
<1>9. DOMAIN paper' = 0 .. R - 1
  BY <1>6, <1>8
<1> DEFINE tc == Typed(crt, pos, c)
           tp == Typed(paper, head, c)
<1> HIDE DEF tc, tp
<1>10. CASE moved < Lines
  <2>1. /\ pos' = moved /\ top' = top /\ head' = T + moved
        /\ crt' = [tc EXCEPT ![moved] = BLANK]
        /\ paper' = [tp EXCEPT ![T + moved] = BLANK]
    BY <1>2, <1>6, <1>10, ScreenFacts DEF tc, tp
  <2>2. ASSUME NEW p \in 0 .. Lines - 1
        PROVE  crt'[p] = paper'[T + p]
    <3>1. /\ p \in DOMAIN tc /\ T + p \in DOMAIN tp /\ tc[p] = tp[T + p]
          /\ T + p = T + moved <=> p = moved
      BY <1>2, <1>3, <1>8, ScreenFacts DEF tc, tp
    <3>2. QED
      BY <2>1, <3>1
  <2>3. ASSUME NEW q \in T + Lines .. R - 1
        PROVE  paper'[q] = NUL
    <3>1. q \in DOMAIN tp /\ tp[q] = NUL /\ q # T + moved
      BY <1>2, <1>3, <1>8, <1>10, ScreenFacts DEF tp
    <3>2. QED
      BY <2>1, <3>1
  <2>4. QED
    BY <1>1, <1>2, <1>3, <1>9, <1>10, <2>1, <2>2, <2>3 DEF PaperInv, T, R
<1>11. CASE moved >= Lines
  <2>1. /\ moved = Lines /\ pos' = Lines - COLS /\ top' = top + 1
        /\ T + Lines < R /\ head' = T + Lines
        /\ crt' = [Scrolled(tc, Lines - COLS) EXCEPT ![Lines - COLS] = BLANK]
        /\ paper' = [tp EXCEPT ![T + Lines] = BLANK]
    <3>1. moved = Lines
      BY <1>2, <1>11, ScreenFacts
    <3>2. pos' = Lines - COLS
      BY <1>2, <3>1, ScreenFacts
    <3>3. Lines >= Lines
      BY ScreenFacts
    <3>4. QED
      BY <1>6, <3>1, <3>2, <3>3 DEF tc, tp
  <2>2. ASSUME NEW p \in 0 .. Lines - 1
        PROVE  crt'[p] = paper'[T + COLS + p]
    <3>1. p \in Cells /\ DOMAIN Scrolled(tc, Lines - COLS) = Cells
      BY ScreenFacts DEF Scrolled
    <3>2. CASE p < Lines - COLS
      <4>1. crt'[p] = tc[p + COLS]
        BY <2>1, <3>1, <3>2, ScreenFacts DEF Scrolled
      <4>2. /\ p + COLS \in 0 .. Lines - 1 /\ T + (p + COLS) = T + COLS + p
            /\ T + COLS + p \in 0 .. R - 1 /\ T + COLS + p # T + Lines
        BY <1>3, <3>2, ScreenFacts
      <4>3. tc[p + COLS] = tp[T + COLS + p]
        BY <1>8, <4>2 DEF tc, tp
      <4>4. paper'[T + COLS + p] = tp[T + COLS + p]
        BY <1>8, <2>1, <4>2 DEF tp
      <4>5. QED
        BY <4>1, <4>3, <4>4
    <3>3. CASE p = Lines - COLS
      <4>1. T + COLS + p = T + Lines /\ T + Lines \in 0 .. R - 1
        BY <1>3, <2>1, <3>3, ScreenFacts
      <4>2. crt'[p] = BLANK
        BY <2>1, <3>1, <3>3
      <4>3. paper'[T + Lines] = BLANK
        BY <1>8, <2>1, <4>1 DEF tp
      <4>4. QED
        BY <4>1, <4>2, <4>3
    <3>4. CASE p > Lines - COLS
      <4>1. p \in Lines - COLS .. Lines - 1 /\ p # Lines - COLS
        BY <3>4, ScreenFacts
      <4>2. crt'[p] = NUL
        BY <2>1, <3>1, <4>1 DEF Scrolled, Lines
      <4>3. T + COLS + p \in T + Lines .. R - 1 /\ T + COLS + p # T + Lines
            /\ T + COLS + p \in 0 .. R - 1
        <5>1. T + Lines + COLS <= R
          <6>1. top + 1 \in Nat /\ top + 1 + LINES <= Rows
            BY <1>1, <1>3, <2>1
          <6>2. (top + 1) * COLS + Lines <= Rows * COLS
            BY <6>1, PaperFacts
          <6>3. QED
            BY <1>3, <6>2, ScreenFacts DEF R
        <5>2. QED
          BY <1>3, <3>4, <5>1, ScreenFacts
      <4>4. paper'[T + COLS + p] = NUL
        BY <1>8, <2>1, <4>3 DEF tp
      <4>5. QED
        BY <4>2, <4>4
    <3>5. QED
      BY <3>2, <3>3, <3>4, ScreenFacts
  <2>3. ASSUME NEW q \in T + Lines + COLS .. R - 1
        PROVE  paper'[q] = NUL
    <3>1. q \in T + Lines .. R - 1 /\ q \in 0 .. R - 1 /\ q # T + Lines
      BY <1>3, ScreenFacts
    <3>2. QED
      BY <1>8, <2>1, <3>1 DEF tp
  <2>4. /\ top' \in Nat /\ top' + LINES <= Rows /\ top' * COLS = T + COLS
        /\ (top' + LINES) * COLS = T + Lines + COLS
        /\ head' = top' * COLS + pos' /\ pos' < Lines
    BY <1>1, <1>3, <2>1, ScreenFacts
  <2>5. QED
    BY <1>9, <2>2, <2>3, <2>4 DEF PaperInv, R
<1>12. QED
  BY <1>2, <1>10, <1>11, ScreenFacts

\* A character, wherever it is typed, keeps the invariant.
LEMMA CgaNextInv == CgaInv /\ [\E c : cgaputc(c)]_cgavars => CgaInv'
<1> SUFFICES ASSUME CgaInv, [\E c : cgaputc(c)]_cgavars PROVE CgaInv'
  OBVIOUS
<1>1. CASE UNCHANGED cgavars
  BY <1>1 DEF cgavars, CgaInv, CursorOnScreen, PaperInv
<1>2. ASSUME NEW c, cgaputc(c) PROVE CgaInv'
  <2>1. pos \in Cells /\ start \in Cells /\ DOMAIN crt = Cells
    BY DEF CgaInv, CursorOnScreen
  <2>2. start' = start
    BY <1>2 DEF cgaputc, PutcScrollAt
  <2>3. pos' \in 0 .. Lines
    BY <1>2, <2>1, CursorStep
  <2>4. CursorOnScreen'
    BY <2>3, ScreenFacts DEF CursorOnScreen, Lines
  <2>5. DOMAIN crt' = Cells
    <3>1. DOMAIN Typed(crt, pos, c) = Cells
      BY <2>1 DEF Typed
    <3>2. QED
      BY <1>2, <3>1 DEF cgaputc, PutcScrollAt, Scrolled
  <2>6. start' < Lines => PaperInv'
    BY <1>2, <2>2, PaperStep DEF CgaInv
  <2>7. QED
    BY <2>1, <2>2, <2>4, <2>5, <2>6 DEF CgaInv
<1>3. QED
  BY <1>1, <1>2

\* Whatever is printed, on a screen of any size: cgaputc stores only to cells
\* of the screen and its memset's length is never negative.
THEOREM CursorStays == CgaSpec => []CursorOnScreen
<1>1. CgaInv => CursorOnScreen
  BY DEF CgaInv
<1>2. QED
  BY <1>1, CgaInitInv, CgaNextInv, PTL DEF CgaSpec

\* Whatever is printed, on a screen of any size: the lines in use show the last
\* rows of what was typed.
THEOREM ScreenIsWindow == CgaSpec => []ShowsPaper
<1>1. CgaInv => ShowsPaper
  <2> SUFFICES ASSUME CgaInv, start < LINES * COLS
               PROVE  /\ pos = head - top * COLS
                      /\ \A p \in 0 .. LINES * COLS - 1 :
                           crt[p] = paper[top * COLS + p]
    BY DEF ShowsPaper
  <2>1. PaperInv
    BY DEF CgaInv, Lines
  <2>2. pos \in Nat /\ top * COLS \in Nat
    BY <2>1, PaperFacts, ScreenFacts DEF CgaInv, CursorOnScreen, PaperInv
  <2>3. head = top * COLS + pos
    BY <2>1 DEF PaperInv
  <2>4. pos = head - top * COLS
    BY <2>2, <2>3
  <2>5. QED
    BY <2>1, <2>4 DEF PaperInv, Lines
<1>2. QED
  BY <1>1, CgaInitInv, CgaNextInv, PTL DEF CgaSpec
=============================================================================
