---------------------------- MODULE DailyBilling ----------------------------
(***************************************************************************)
(* What the daily invoice of one group promises, without runs, rows or     *)
(* failures: orders land, and each is put on an invoice at most once.      *)
(* DailyInvoice implements this module.                                    *)
(***************************************************************************)
CONSTANTS
  Order,     \* orders of the group
  Txn,       \* transaction numbers
  ClosedDay  \* orders landed at the start

VARIABLES
  landed,  \* orders that reached the system
  bills    \* [Txn -> orders on that invoice], {} when not issued

vars == <<landed, bills>>

Billed == UNION {bills[t] : t \in Txn}

Init ==
  /\ landed = ClosedDay
  /\ bills = [t \in Txn |-> {}]

Land(o) ==
  /\ landed' = landed \cup {o}
  /\ UNCHANGED bills

(* One invoice for orders that have landed and are on no other invoice.      *)
Bill(t, S) ==
  /\ bills[t] = {}
  /\ S \subseteq landed \ Billed
  /\ bills' = [bills EXCEPT ![t] = S]
  /\ UNCHANGED landed

Next ==
  \/ \E o \in Order : Land(o)
  \/ \E t \in Txn, S \in SUBSET Order : Bill(t, S)

Spec == Init /\ [][Next]_vars
=============================================================================
