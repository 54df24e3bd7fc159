------------------------------ MODULE Console -------------------------------
(***************************************************************************)
(* The text console of P/vga.c: a buffer of several screens, a cursor in   *)
(* it, and the part of it that the last flush has not shown yet.           *)
(*                                                                         *)
(* A call is one step: what happens when a keyboard interrupt prints in    *)
(* the middle of a call is left out.  Kprintf is the program that calls.   *)
(*                                                                         *)
(* A faulty variant, which nothing uses, stands in front of its            *)
(* definition: BrokenLine.                                                 *)
(***************************************************************************)
EXTENDS Integers, FiniteSets, SequencesExt

CONSTANTS
  Rows, Cols,   \* VT_ROWS and VT_COLUMNS
  Mons,         \* VT_MONS: screens in the buffer
  Text,         \* what is printed: sequences of characters
  LastRow       \* bound: the last row a call may begin in

BufRows == Mons * Rows

ASSUME ConsoleAssumption ==
  /\ Rows \in Nat \ {0} /\ Cols \in Nat \ {0} /\ Mons \in Nat \ {0}
  /\ LastRow \in 0 .. BufRows

NewLine == 10
Blank   == 0

VARIABLES
  buffer,       \* vga.buffer
  screen,       \* the video memory at vga.bp
  cur,          \* vga.curr_row and vga.curr_col
  pre           \* vga.pre_row and vga.pre_col

console == <<buffer, screen, cur, pre>>

Cleared(rows) == [i \in 0 .. rows - 1 |-> [j \in 0 .. Cols - 1 |-> Blank]]

Origin == [row |-> 0, col |-> 0]

(* vga_text_init with vt_cls *)
ConsoleInit ==
  /\ buffer = Cleared(BufRows)
  /\ screen = Cleared(Rows)
  /\ cur = Origin /\ pre = Origin

-----------------------------------------------------------------------------
(* Writing goes through a record of all that it changes. *)
State == [buffer |-> buffer, cur |-> cur, pre |-> pre]

(* _vt_new_line: the next flush starts at the top again. *)
BrokenLine(s) == [s EXCEPT !.cur = [row |-> s.cur.row + 1, col |-> 0]]
NewLined(s) ==
  [s EXCEPT !.cur = [row |-> s.cur.row + 1, col |-> 0], !.pre = Origin]

Full(s) == s.cur.col >= Cols

(* The loop of _vga_text_write: a character that meets a full line is      *)
(* skipped, as a new line is.                                              *)
Put(s, c) ==
  IF c = NewLine \/ Full(s)
  THEN NewLined(s)
  ELSE [s EXCEPT !.buffer[s.cur.row][s.cur.col] = c, !.cur.col = @ + 1]

Written(text) == FoldLeft(Put, State, text)

(* _vt_flush: what it draws of state s on the screen. *)
Drawn(s, i) ==
  {j \in s.pre.col .. Cols - 1 : \A k \in s.pre.col .. j : s.buffer[i][k] # Blank}

Scrolled(s) == [i \in 0 .. Rows - 1 |-> s.buffer[s.cur.row - (Rows - 1) + i]]

Updated(s) ==
  [i \in 0 .. Rows - 1 |-> [j \in 0 .. Cols - 1 |->
     IF i \in s.pre.row .. s.cur.row /\ j \in Drawn(s, i)
     THEN s.buffer[i][j]
     ELSE screen[i][j]]]

Flush(s) == screen' = IF s.cur.row >= Rows THEN Scrolled(s) ELSE Updated(s)

Set(s) ==
  /\ buffer' = s.buffer
  /\ cur' = s.cur
  /\ pre' = s.pre

InReach == cur.row <= LastRow

(* vt_flush_with_buf, which is how kprintf prints. *)
VtFlushWithBuf(text) ==
  LET s == Written(text) IN
  /\ Flush(s)
  /\ Set([s EXCEPT !.pre = s.cur])

(* vga_text_write *)
VgaTextWrite(text) ==
  /\ InReach
  /\ Set(Written(text))
  /\ UNCHANGED screen

(* vt_new_line *)
VtNewLine(text) ==
  /\ InReach
  /\ Set(NewLined(Written(text)))
  /\ UNCHANGED screen

(* vt_flush *)
VtFlush ==
  /\ Flush(State)
  /\ pre' = cur
  /\ UNCHANGED <<buffer, cur>>

(* vt_cls *)
VtCls ==
  /\ buffer' = Cleared(BufRows)
  /\ screen' = Cleared(Rows)
  /\ cur' = Origin /\ pre' = Origin

-----------------------------------------------------------------------------
(* The lines of the buffer *)

(* The characters of a row: those before the cursor, or before the first   *)
(* place that is empty.                                                    *)
Used(row) ==
  IF row = cur.row THEN cur.col
  ELSE Cardinality({j \in 0 .. Cols - 1 : \A k \in 0 .. j : buffer[row][k] # Blank})
Line(row) == SubSeq([j \in 1 .. Cols |-> buffer[row][j - 1]], 1, Used(row))

TheTerminal == INSTANCE Terminal WITH
  lines <- [i \in 1 .. cur.row + 1 |-> Line(i - 1)],
  shown <- screen
=============================================================================
