----------------------------- MODULE MCHireLoop --------------------------------
(* HireLoop for TLC. Every window of the code is shortened to 0, 1 or 2 days and *)
(* keeps its order: the review window ends before the stale mark, and the        *)
(* calendar passes the last day of each of them.                                 *)
EXTENDS HireLoop
================================================================================
