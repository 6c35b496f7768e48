----------------------------- MODULE MCCreditMemo -----------------------------
(***************************************************************************)
(* Small instances of CreditMemo for TLC: the cron and one administrator.  *)
(***************************************************************************)
EXTENDS CreditMemo

Everyone == {"cron", "admin"}
AnyHarm  == {"overlap", "reply_lost", "save_lost", "stale_ingest"}
==============================================================================
