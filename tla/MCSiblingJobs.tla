--------------------------- MODULE MCSiblingJobs -------------------------------
(* SiblingJobs for TLC. *)
EXTENDS SiblingJobs
================================================================================
