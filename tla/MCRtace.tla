------------------------------- MODULE MCRtace -------------------------------
(* Small instances of Rtace for TLC. *)
EXTENDS Rtace, MCLogs
==============================================================================
