-------------------------- MODULE MCDetectionEngine --------------------------
(* Small instances of DetectionEngine for TLC. *)
EXTENDS DetectionEngine, MCLogs
==============================================================================
