------------------------------ MODULE MCDeals ----------------------------------
(* A deal and its money, for TLC, in two scenes that share nothing: the pages on  *)
(* which two seats write and sign an agreement, in two requests at once, and the  *)
(* ERC-20 transfers that pay it. Lines that may say one of two things, one        *)
(* amount, two windows, and five presses, which is what it takes to agree on one  *)
(* line and to pay. Two legs and two transfers reported by two clients at once:   *)
(* both transfers could pay the first leg in either role and the second leg in    *)
(* one, since amounts and addresses can coincide across jobs.                     *)
EXTENDS Erc20Legs, FiniteSets, Sequences, TLC

CONSTANTS leg1, leg2, h1, h2,
          t1, t2, Texts, Amounts, Windows, DefaultWindow, Requests, MaxLines, MaxPresses

MCTargets == {leg1, leg2}
MCHashes == {h1, h2}
MCPays ==
    h1 :> {<<leg1, "price">>, <<leg1, "fee">>, <<leg2, "price">>}
    @@ h2 :> {<<leg1, "price">>, <<leg1, "fee">>, <<leg2, "fee">>}

MCTexts == {t1, t2}

VARIABLES scene, row, paid, page, checkout, request, presses, pressed, behind

Pages == INSTANCE AgreementPages

\* The bounds are numbers, the window a first quote is given is one of the windows, and
\* no row, offer or seat is null.
ASSUME AgreementAssumption ==
    /\ MaxLines \in Nat /\ MaxPresses \in Nat /\ DefaultWindow \in Windows
    /\ None \notin Pages!Rows /\ None \notin Pages!Offers /\ None \notin Pages!Seats

PageVars == <<row, paid, page, checkout, request, presses, pressed, behind>>

NoPages ==
    /\ row = None /\ paid = None /\ page = None /\ checkout = None /\ request = None
    /\ presses = None /\ pressed = None /\ behind = None

DealsInit ==
    \/ scene = "transfers" /\ Init /\ NoPages
    \/ scene = "agreement" /\ Init /\ Pages!Init

Transfers == scene = "transfers" /\ UNCHANGED <<scene, PageVars>>
Agreement == scene = "agreement" /\ UNCHANGED <<scene, vars>>

DealsNext ==
    \/ \E r \in Reports, target \in Targets, price \in Hashes, fee \in OrNone(Hashes) :
           Transfers /\ Arrive(r, target, price, fee)
    \/ \E r \in Reports : Transfers /\ LookUp(r)
    \/ \E r \in Reports : Transfers /\ RecordSpent(r)
    \/ \E r \in Reports : Transfers /\ MarkHalfPaid(r)
    \/ \E r \in Reports : Transfers /\ RecordSettlement(r)
    \/ \E r \in Reports : Transfers /\ Lose(r)
    \/ \E hash \in Hashes : Transfers /\ Land(hash)
    \/ \E seat \in Pages!Seats : Agreement /\ Pages!Open(seat)
    \/ \E r \in Requests, seat \in Pages!Seats : Agreement /\ Pages!Press(r, seat)
    \/ \E r \in Requests : Agreement /\ Pages!SendQuote(r)
    \/ \E r \in Requests : Agreement /\ Pages!Reaches(r)
    \/ \E r \in Requests, arrives \in BOOLEAN : Agreement /\ Pages!Answer(r, arrives)
    \/ \E r \in Requests : Agreement /\ Pages!Refuse(r)
    \/ Agreement /\ Pages!OpenDeposit
    \/ Agreement /\ Pages!DepositSettles

DealsSpec == DealsInit /\ [][DealsNext]_<<scene, vars, PageVars>>

\* Two requests on their way at once for three presses, the rest of them one by one on a
\* list of one line.
FewPresses ==
    /\ scene = "agreement" /\ presses >= 3 => Len(row.lines) <= 1
    /\ scene = "agreement" /\ presses >= 4 =>
           behind = {} /\ Cardinality({r \in Requests : request[r] # Pages!NoRequest}) <= 1

\* One transfer looked up by both clients at once, of which the properties say nothing
\* further.
OneOverlap == scene = "transfers" => Cardinality(overlapped) <= 1

DealSymmetry ==
    Permutations(Reports) \cup Permutations(Texts) \cup Permutations(Requests)

\* A signature stands on the words and the offer its seat signed (AgreementPages).
MarksStandOnTheirWords == scene = "agreement" => Pages!MarksStandOnTheirWords
================================================================================
