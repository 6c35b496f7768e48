-------------------------- MODULE MCIntegrationRuns --------------------------
(***************************************************************************)
(* A small instance of IntegrationRuns for TLC: one process.               *)
(***************************************************************************)
EXTENDS IntegrationRuns
==============================================================================
