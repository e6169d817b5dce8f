----------------------------- MODULE MCLcdPort -----------------------------
(* Model-checking instance of LcdPort: two texts of two characters and six  *)
(* observed cells, one more per row than the texts fill.                     *)
EXTENDS LcdPort

MCLine1 == <<76, 49>>      \* "L1"
MCLine2 == <<90, 163>>
MCCells == {0, 1, 2, 64, 65, 66}
=============================================================================
