----------------------------- MODULE StockLedger -----------------------------
(***************************************************************************)
(* What the upload of stock promises a branch, without callers, rows or    *)
(* failures: the stock of a sold line moves once, and what is recorded as  *)
(* posted did move and stays recorded, until harm is done: callers         *)
(* overlap, an outcome is lost, or a line is sent that Oracle was given    *)
(* before.  Then stock may move again and a record may be lost, but        *)
(* nothing is recorded that did not move unless a verdict was passed on    *)
(* the wrong row, and no move is undone.  InventoryUpload implements it.   *)
(***************************************************************************)
EXTENDS Naturals

CONSTANT Line  \* lines on which an order sells the item

VARIABLES
  moves,     \* [Line -> times its stock moved], 2 standing for more
  recorded,  \* lines the admin panel shows as posted
  harm,      \* callers overlapped, an outcome was lost, or a line sent again
  misjudged  \* a verdict was passed on the wrong row, or before this began

vars == <<moves, recorded, harm, misjudged>>

MovedLines == {n \in Line : moves[n] > 0}

Init ==
  /\ moves \in [Line -> 0 .. 1]
  /\ recorded \subseteq Line
  /\ misjudged \in BOOLEAN
  /\ misjudged \/ recorded \subseteq MovedLines
  /\ harm = FALSE

MoveStock(ns) ==
  /\ harm \/ \A n \in ns : moves[n] = 0
  /\ moves' = [n \in Line |-> IF n \notin ns THEN moves[n] ELSE IF moves[n] = 0 THEN 1 ELSE 2]
  /\ UNCHANGED <<recorded, harm, misjudged>>

(* A verdict on the wrong row does harm.                                     *)
Record(ns) ==
  /\ harm' \in {harm, TRUE} /\ misjudged' \in {misjudged, harm'}
  /\ misjudged => misjudged'
  /\ misjudged' \/ ns \subseteq MovedLines
  /\ harm' \/ recorded \subseteq ns
  /\ recorded' = ns
  /\ UNCHANGED moves

Harm ==
  /\ harm' = TRUE
  /\ UNCHANGED <<moves, recorded, misjudged>>

Next ==
  \/ \E ns \in SUBSET Line : MoveStock(ns) \/ Record(ns)
  \/ Harm

Spec == Init /\ [][Next]_vars
==============================================================================
