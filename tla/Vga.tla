-------------------------------- MODULE Vga --------------------------------
(***************************************************************************)
(* devices/vga.c: the text screen, RowCnt rows of ColCnt columns with tabs *)
(* every TabStop columns (25, 80 and 8 in the code).  A screen is its      *)
(* characters fb[row][column] and the cursor.                              *)
(***************************************************************************)
EXTENDS Integers, SequencesExt

CONSTANTS RowCnt, ColCnt, TabStop

Blank == [x \in 0..(ColCnt - 1) |-> " "]

\* Mutant: the last row keeps its text when the screen scrolls.
newline_NoClear(v) ==
  IF v.cy + 1 < RowCnt THEN [v EXCEPT !.cx = 0, !.cy = @ + 1]
  ELSE [v EXCEPT !.cx = 0, !.cy = RowCnt - 1,
                 !.fb = [y \in DOMAIN v.fb |-> IF y = RowCnt - 1 THEN v.fb[y]
                                                               ELSE v.fb[y + 1]]]

\* At the last row, memmove scrolls and clear_row empties the last one.
newline(v) ==
  IF v.cy + 1 < RowCnt THEN [v EXCEPT !.cx = 0, !.cy = @ + 1]
  ELSE [v EXCEPT !.cx = 0, !.cy = RowCnt - 1,
                 !.fb = [y \in DOMAIN v.fb |-> IF y = RowCnt - 1 THEN Blank
                                                               ELSE v.fb[y + 1]]]

cls == [cx |-> 0, cy |-> 0, fb |-> [y \in 0..(RowCnt - 1) |-> Blank]]

Wrapped(v) == IF v.cx >= ColCnt THEN newline(v) ELSE v

vga_putc(v, c) ==
  CASE c = "newline" -> newline(v)
    [] c = "formfeed" -> cls
    [] c = "backspace" -> [v EXCEPT !.cx = IF @ > 0 THEN @ - 1 ELSE 0]
    [] c = "return" -> [v EXCEPT !.cx = 0]
    [] c = "tab" -> Wrapped([v EXCEPT !.cx = ((@ \div TabStop) + 1) * TabStop])
    [] c = "bell" -> v
    [] OTHER -> Wrapped([v EXCEPT !.fb[v.cy][v.cx] = c, !.cx = @ + 1])

\* move_cursor and find_cursor: the position in the hardware's register.
move_cursor(v) == v.cx + ColCnt * v.cy
find_cursor(cp) == <<cp % ColCnt, cp \div ColCnt>>

-----------------------------------------------------------------------------
\* The same text on an endless sheet of paper: p.cells maps <<row, column>> to
\* the character there.
Paper == [row |-> 0, col |-> 0, cells |-> [q \in {} |-> " "]]
Turn(p) == IF p.col >= ColCnt THEN [p EXCEPT !.row = @ + 1, !.col = 0] ELSE p
Type(p, c) ==
  CASE c = "newline" -> [p EXCEPT !.row = @ + 1, !.col = 0]
    [] c = "formfeed" -> Paper
    [] c = "backspace" -> [p EXCEPT !.col = IF @ > 0 THEN @ - 1 ELSE 0]
    [] c = "return" -> [p EXCEPT !.col = 0]
    [] c = "tab" -> Turn([p EXCEPT !.col = CHOOSE x \in (@ + 1)..(@ + TabStop) :
                                             x % TabStop = 0])
    [] c = "bell" -> p
    [] OTHER -> Turn([p EXCEPT !.col = @ + 1,
                               !.cells = [q \in DOMAIN @ \cup {<<p.row, p.col>>} |->
                                            IF q = <<p.row, p.col>> THEN c ELSE p.cells[q]]])

\* The screen always shows the last RowCnt rows of what was printed since the
\* last form feed, the cursor is on it at the place of the next character, and
\* the hardware register gives it back.
ScreenOK(text) ==
  LET v == FoldLeft(vga_putc, cls, text)
      p == FoldLeft(Type, Paper, text)
      top == IF p.row < RowCnt THEN 0 ELSE p.row - RowCnt + 1
      Shown(y, x) == IF <<top + y, x>> \in DOMAIN p.cells THEN p.cells[<<top + y, x>>]
                                                         ELSE " "
  IN  /\ <<v.cx, v.cy>> = <<p.col, p.row - top>>
      /\ v.cx \in 0..(ColCnt - 1) /\ v.cy \in 0..(RowCnt - 1)
      /\ v.fb = [y \in 0..(RowCnt - 1) |-> [x \in 0..(ColCnt - 1) |-> Shown(y, x)]]
      /\ find_cursor(move_cursor(v)) = <<v.cx, v.cy>>
=============================================================================
