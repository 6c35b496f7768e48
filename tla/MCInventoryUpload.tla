-------------------------- MODULE MCInventoryUpload --------------------------
(***************************************************************************)
(* A small instance of InventoryUpload for TLC: an item sold by the piece  *)
(* on lines 1 and 2, by the box on line 3.                                 *)
(***************************************************************************)
EXTENDS InventoryUpload

Units == [n \in Line |-> IF n = 3 THEN "Box" ELSE "Each"]

(* The order sells two pieces, or a piece and a box.                         *)
Sales == {{1, 2}, {2, 3}}

(* The earlier upload may have left a row for each line sold by the piece.   *)
PerLine == [i \in {1, 2} |-> i]
==============================================================================
