--------------------------- MODULE MCDailyInvoice ---------------------------
(***************************************************************************)
(* Small instances of DailyInvoice for TLC: two or three orders paid by    *)
(* cash or card, two posters in one process or in two.                     *)
(***************************************************************************)
EXTENDS DailyInvoice

Posters == {"cron", "manual"}

OneHost  == [p \in Posters |-> "backend"]
TwoHosts == [p \in Posters |-> IF p = "cron" THEN "worker" ELSE "backend"]

(* Orders 1 and 3 are paid in cash, order 2 by card.                         *)
Tenders == [o \in Order |-> IF o = 2 THEN "card-1" ELSE "cash-1"]
AllCash == [o \in Order |-> "cash-1"]
Methods == [te \in Tender |-> IF te = "card-1" THEN "Card" ELSE "Cash"]
=============================================================================
