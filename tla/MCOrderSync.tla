----------------------------- MODULE MCOrderSync -----------------------------
(***************************************************************************)
(* Small instances of OrderSync for TLC.  The receipts and their application *)
(* are left out: they are posted as the invoice is.                         *)
(***************************************************************************)
EXTENDS OrderSync

ThreeDocs == <<"invoice", "misc", "journal">>
==============================================================================
