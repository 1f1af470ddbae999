--------------------------- MODULE MCAbtEthQuotes ------------------------------
(* For TLC, in two scenes that share nothing: a leg on the ABT-on-Ethereum rail   *)
(* with two locks; and the notifications switch of one device, two tabs of it     *)
(* signed in to either of two accounts.                                           *)
EXTENDS AbtEthQuotes, TLC

CONSTANTS Tabs, Accounts, Addresses

VARIABLES scene, sub, given, rows, tab, posts, touched

Switch == INSTANCE PushSwitch

ASSUME SwitchAssumption ==
    None \notin Addresses /\ None \notin Switch!Shown

SwitchVars == <<sub, given, rows, tab, posts, touched>>

NoDevice ==
    sub = None /\ given = None /\ rows = None /\ tab = None /\ posts = {} /\ touched = None

QuotesInit ==
    \/ scene = "quotes" /\ Init /\ NoDevice
    \/ scene = "switch" /\ Init /\ agreed = 1 /\ Switch!Init

In == scene = "quotes" /\ UNCHANGED <<scene, SwitchVars>>
Device == scene = "switch" /\ UNCHANGED <<scene, vars>>

QuotesNext ==
    \/ \E l \in Locks : In /\ Start(l)
    \/ \E h \in PriceTxs \cup FeeTxs, l \in Locks : In /\ Land(h, l)
    \/ \E usd \in Dollars : In /\ ProposePrice(usd)
    \/ \E r \in Reports, price \in PriceTxs, fee \in OrNone(FeeTxs), l \in Locks :
           In /\ Report(r, price, fee, l)
    \/ \E r \in Reports : In /\ AcceptShort(r)
    \/ \E r \in Reports : In /\ Confirm(r)
    \/ \E r \in Reports : In /\ RecordSettlement(r)
    \/ \E r \in Reports : In /\ RecordShort(r)
    \/ \E r \in Reports : In /\ Lose(r)
    \/ In /\ Tick
    \/ \E t \in Tabs, account \in Accounts : Device /\ Switch!Open(t, account)
    \/ \E t \in Tabs : Device /\ Switch!Close(t)
    \/ \E t \in Tabs : Device /\ Switch!Subscribe(t)
    \/ \E t \in Tabs : Device /\ Switch!Offline(t)
    \/ \E t \in Tabs : Device /\ Switch!AskOff(t)
    \/ \E t \in Tabs : Device /\ Switch!TurnOff(t)
    \/ \E p \in posts : Device /\ Switch!Look(p)
    \/ \E p \in posts : Device /\ Switch!Write(p)
    \/ \E p \in posts : Device /\ Switch!Refuse(p)
    \/ Device /\ Switch!Dropped

QuotesSpec == QuotesInit /\ [][QuotesNext]_<<scene, vars, SwitchVars>>

\* Locks written, transfers landed and requests in flight: six of the seven.
SixInAll ==
    Cardinality({l \in Locks : locks[l] # None})
    + Cardinality({h \in PriceTxs \cup FeeTxs : chain[h] # None})
    + Cardinality({r \in Reports : request[r] # Idle}) <= 6

Symmetry == Permutations(Locks) \cup Permutations(PriceTxs) \cup Permutations(Reports)

\* The switch tells the truth about the device (PushSwitch).
SwitchTellsTruth == scene = "switch" => Switch!SwitchTellsTruth
================================================================================
