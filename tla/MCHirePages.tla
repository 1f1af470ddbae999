----------------------------- MODULE MCHirePages -------------------------------
(* The terms of a hire, and the pages it is worked from, for TLC. Every window  *)
(* of the code is shortened to the night, the stale mark to the night after. A  *)
(* page is left open on hires of one line that both sides have confirmed, are   *)
(* not over, and are paid on the ABT_ETH rail, where a payment can be half made *)
(* as well as short.                                                            *)
EXTENDS JobLists, FiniteSets, TLC

LinesAlike == Permutations(Criteria)

PagesOfSmallHires ==
    \A t \in Tabs :
        tab[t] # None =>
            /\ Cardinality(job.terms) <= 1 /\ job.rail = "abt_eth"
            /\ job.status \in {"confirmed", "staged", "redo_requested", "submitted"}
================================================================================
