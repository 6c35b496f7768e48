------------------------------ MODULE MCSyncJobs ------------------------------
(***************************************************************************)
(* Small instances of SyncJobs for TLC.  Nothing tells orders apart.       *)
(***************************************************************************)
EXTENDS SyncJobs, TLC

CONSTANTS a, b

TwoOrders == {a, b}
Alike     == Permutations(TwoOrders)
==============================================================================
