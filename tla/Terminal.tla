------------------------------ MODULE Terminal ------------------------------
(***************************************************************************)
(* What the text terminal promises of its contents: rows of cells that are *)
(* written one at a time, cleared all at once, and scrolled up by a row.   *)
(***************************************************************************)
EXTENDS Integers

CONSTANTS
  Rows, Cols,  \* its size
  Texts,       \* what a cell can show: a character and two colours
  Blank        \* the space in default colours

VARIABLE text  \* text[n]: what cell n, in reading order, shows

Cells == 0..(Rows * Cols - 1)
Empty == [n \in Cells |-> Blank]

Init == text = Empty

Put == \E n \in Cells, x \in Texts : text' = [text EXCEPT ![n] = x]

Clear == text' = Empty

Scroll ==
  text' = [n \in Cells |-> IF n + Cols \in Cells THEN text[n + Cols] ELSE Blank]

Next == Put \/ Clear \/ Scroll

Spec == Init /\ [][Next]_text
=============================================================================
