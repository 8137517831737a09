-------------------------- MODULE MCDecisionService --------------------------
(* Small instances of DecisionService for TLC. *)
EXTENDS DecisionService, MCLogs
==============================================================================
