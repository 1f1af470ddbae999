------------------------------ MODULE MCCheckout -------------------------------
(* Two tabs, one session and four transfers: a payment, one part sent again and   *)
(* one transfer more, which is left out after a fault. What happens after two     *)
(* faults says nothing further.                                                   *)
EXTENDS Checkout, TLC

Symmetry == Permutations(Transfers) \cup Permutations(Pages)

Used == {t \in Transfers : sent[t].status # "unsent"}
OneFault == Cardinality(faults) <= 1 /\ Cardinality(faults) + Cardinality(Used) <= 4
================================================================================
