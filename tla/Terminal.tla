------------------------------ MODULE Terminal ------------------------------
(***************************************************************************)
(* What a text console promises: the screen shows, as of the last time it  *)
(* was brought up to date, the last lines of everything printed since it   *)
(* was cleared.                                                            *)
(***************************************************************************)
EXTENDS Integers, SequencesExt

CONSTANTS
  Rows, Cols,   \* the size of the screen
  Text,         \* what callers print: sequences of characters
  NewLine,      \* the character that ends a line
  Blank         \* what an unused place on the screen shows

VARIABLES
  lines,        \* the lines printed, the last one being the current one
  shown         \* the screen: a function from rows and columns

vars == <<lines, shown>>

Empty == [i \in 0 .. Rows - 1 |-> [j \in 0 .. Cols - 1 |-> Blank]]

Init ==
  /\ lines = <<<<>>>>
  /\ shown = Empty

(* A character that meets a full line is replaced by the end of the line. *)
Put(ls, c) ==
  IF c = NewLine \/ Len(Last(ls)) = Cols
  THEN Append(ls, <<>>)
  ELSE Append(Front(ls), Append(Last(ls), c))

Printed(text) == FoldLeft(Put, lines, text)

(* The lines a screen shows: the last Rows of them. *)
Window(ls) == IF Len(ls) > Rows THEN SubSeq(ls, Len(ls) - Rows + 1, Len(ls)) ELSE ls

Picture(ls) ==
  [i \in 0 .. Rows - 1 |-> [j \in 0 .. Cols - 1 |->
     IF i + 1 <= Len(Window(ls)) /\ j + 1 <= Len(Window(ls)[i + 1])
     THEN Window(ls)[i + 1][j + 1]
     ELSE Blank]]

PrintSeen(text) ==
  /\ lines' = Printed(text)
  /\ shown' = Picture(lines')

PrintUnseen(text) ==
  /\ lines' = Printed(text)
  /\ UNCHANGED shown

PrintLineUnseen(text) ==
  /\ lines' = Append(Printed(text), <<>>)
  /\ UNCHANGED shown

Show ==
  /\ shown' = Picture(lines)
  /\ UNCHANGED lines

Clear ==
  /\ lines' = <<<<>>>>
  /\ shown' = Empty

Next ==
  \/ \E text \in Text : PrintSeen(text) \/ PrintUnseen(text) \/ PrintLineUnseen(text)
  \/ Show \/ Clear

Spec == Init /\ [][Next]_vars
=============================================================================
