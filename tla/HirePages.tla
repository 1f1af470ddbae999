------------------------------ MODULE HirePages --------------------------------
(* The pages a hire is worked from: the buyer's /jobs/:id, /deposit, /staged and *)
(* /pullrequest and the owner's /operatorjob. A page asks for the job, for the    *)
(* latest attestation and for the payments at once, and when it has the three     *)
(* answers it draws the controls they call for; it keeps drawing them while the   *)
(* hire of HireLoop goes on in other tabs, by the agent's key and by the clocks.  *)
(* A press reaches the route, which judges the row as it is by then; the page     *)
(* reads anew after it.                                                           *)
EXTENDS HireLoop

CONSTANT Tabs       \* pages open at once

\* A deployment without a rail shows no checkout at all (offerPayableRails).
ASSUME PayableAssumption == Rails # {}

VARIABLE tab        \* what each shows

pagesVars == <<vars, tab>>

Seats == {"buyer", "owner"}

\* What a page draws its controls from. `out` holds the reads not answered yet. The
\* payments are None until they were read, and when that read failed. The work a page
\* shows is the attestation numbered `seen`, the latest when it was read, 0 for none.
\* `crossed`, a history: work was attested between that read and the read of the job.
Reads == {"job", "attestation", "payments"}
Payments == [settled : SUBSET Legs, short : SUBSET Legs]
Shots ==
    [seat : Seats, status : OrNone(Statuses), agreed : BOOLEAN, redoUsed : Nat,
     seen : Nat, crossed : BOOLEAN, payments : OrNone(Payments), out : SUBSET Reads]

\* A read that was answered is never null.
ASSUME AnswersAssumption == None \notin Payments /\ None \notin Statuses

PagesTypeOK == tab \in [Tabs -> OrNone(Shots)]

PagesInit == Init /\ tab = [t \in Tabs |-> None]

Blank(seat) ==
    [seat |-> seat, status |-> None, agreed |-> FALSE, redoUsed |-> 0, seen |-> 0,
     crossed |-> FALSE, payments |-> None, out |-> Reads]

\* GET /jobs/:jobId answered.
WithJob(shot) ==
    [shot EXCEPT !.status = job.status, !.agreed = Agreed(job), !.redoUsed = job.redoUsed,
                 !.crossed = "attestation" \notin shot.out /\ shot.seen # Len(attested),
                 !.out = @ \ {"job"}]

\* GET /jobs/:jobId/attestation answered: findByJobId's latest, or its 404.
WithAttestation(shot) == [shot EXCEPT !.seen = Len(attested), !.out = @ \ {"attestation"}]

\* settledLegs and shortLegs of GET /jobs/:jobId/payments.
PaymentsNow ==
    [settled |-> {leg \in Legs : IsSettled(leg)}, short |-> {leg \in Legs : AwaitsOwner(leg)}]

WithPayments(shot, payments) == [shot EXCEPT !.payments = payments, !.out = @ \ {"payments"}]

\* A page drawn this instant.
ShotNow(seat) == WithPayments(WithAttestation(WithJob(Blank(seat))), PaymentsNow)

--------------------------------------------------------------------------------
(* What a page offers.                                                           *)

SettledShown(shot, leg) == shot.payments # None /\ leg \in shot.payments.settled
ShortShown(shot, leg) == shot.payments # None /\ leg \in shot.payments.short

\* walkAwayOpen: while something is unsigned.
WalkAwayOpen(shot) ==
    shot.status = "draft" \/ (shot.status = "proposed" /\ ~shot.agreed)

\* /staged: one choice of three on the work that is shown, unless the balance shows as
\* settled or as short.
ChoicesOpenUnasked(shot) == shot.status = "staged"
ChoicesOpen(shot) ==
    /\ shot.status = "staged" /\ shot.seen # 0
    /\ ~SettledShown(shot, "remainder") /\ ~ShortShown(shot, "remainder")

\* The buyer's four pages.
JobPage(shot) == IF WalkAwayOpen(shot) THEN {"withdraw"} ELSE {}

DepositPage(shot) ==
    IF shot.status = "proposed" /\ shot.agreed /\ ~ShortShown(shot, "deposit")
    THEN {"pay-deposit"} ELSE {}

StagedPage(shot) ==
    IF ~ChoicesOpen(shot) THEN {}
    ELSE {"pay-balance", "staged-decline"}
         \cup (IF shot.redoUsed < RedoAllowance THEN {"redo"} ELSE {})

PullRequestPage(shot) == IF shot.status = "submitted" THEN {"cited-close"} ELSE {}

\* The owner's one.
OperatorJobPage(shot) ==
    UNION {IF WalkAwayOpen(shot) THEN {"decline"} ELSE {},
           IF \E leg \in Legs : ShortShown(shot, leg) THEN {"accept-short"} ELSE {},
           IF shot.status = "confirmed" THEN {"stage"} ELSE {},
           IF shot.status = "redo_requested" THEN {"stage", "redo-refuse"} ELSE {}}

Offered(shot) ==
    IF shot.seat = "owner" THEN OperatorJobPage(shot)
    ELSE UNION {JobPage(shot), DepositPage(shot), StagedPage(shot), PullRequestPage(shot)}

\* The payment the owner is asked about first.
ShortLeg(shot) == IF ShortShown(shot, "deposit") THEN "deposit" ELSE "remainder"

\* What a report of the payment made there writes.
Pay(leg) ==
    \E rail \in Rails :
        \/ PaySettles(leg, rail)
        \/ PayHalf(leg, rail)
        \/ PayForgotten(leg, rail)
        \/ rail = "abt_eth" /\ PayShort(leg)

\* The route behind a control.
Route(control, shot) ==
    CASE control = "withdraw" -> Withdraw
      [] control = "decline" -> Decline
      [] control = "pay-deposit" -> Pay("deposit")
      [] control = "pay-balance" -> Pay("remainder")
      [] control = "staged-decline" -> StagedDecline
      [] control = "redo" -> RequestRedo
      [] control = "redo-refuse" -> RefuseRedo
      [] control = "stage" -> \E commit \in Commits : Stage(commit)
      [] control = "cited-close" -> CitedClose
      [] control = "accept-short" -> AcceptShort(ShortLeg(shot))

\* The guard of that route: whether it takes the press now.
Takes(control, shot) ==
    CASE control = "withdraw" ->
           CanWithdraw(job, job.status = "proposed" /\ IsSettled("deposit")) /\ ~DepositHolds
      [] control = "decline" -> CanDecline(job, IsSettled("deposit")) /\ ~DepositHolds
      [] control = "pay-deposit" -> IsSettled("deposit") \/ \E rail \in Rails : DoorOpen("deposit", rail)
      [] control = "pay-balance" -> \E rail \in Rails : DoorOpen("remainder", rail)
      [] control = "staged-decline" -> CanMove(job.status, "staged_declined") /\ BalanceUntouched
      [] control = "redo" -> CanRequestRedo(job) /\ BalanceUntouched
      [] control = "redo-refuse" -> CanRefuseRedo(job)
      [] control = "stage" -> CanMove(job.status, "staged")
      [] control = "cited-close" -> CanMove(job.status, "cited_closed") /\ IsSettled("remainder")
      [] control = "accept-short" -> AwaitsOwner(ShortLeg(shot)) /\ ~IsSettled(ShortLeg(shot))

--------------------------------------------------------------------------------

Show(t, shot) == tab' = [tab EXCEPT ![t] = shot]

Drawn(t) == tab[t] # None /\ tab[t].out = {}

\* start and reload: the three reads are asked for at once, and answered in any order.
Open(t, seat) == tab[t] = None /\ Show(t, Blank(seat)) /\ UNCHANGED vars

Awaits(t, read) == tab[t] # None /\ read \in tab[t].out

\* The read of the job, whose clocks have run.
ReadJob(t) ==
    /\ Awaits(t, "job") /\ Fresh
    /\ Show(t, WithJob(tab[t]))
    /\ UNCHANGED vars

\* The read of the attestation. One that fails leaves no page to press on.
ReadAttestation(t) ==
    /\ Awaits(t, "attestation")
    /\ Show(t, WithAttestation(tab[t]))
    /\ UNCHANGED vars

\* The read of the payments, which may fail.
ReadPayments(t) ==
    /\ Awaits(t, "payments")
    /\ \E payments \in {None, PaymentsNow} : Show(t, WithPayments(tab[t], payments))
    /\ UNCHANGED vars

\* A page left, or reloaded by its reader.
Close(t) == tab[t] # None /\ Show(t, None) /\ UNCHANGED vars

\* A press the route takes. The page reads anew.
Press(t, control) ==
    /\ Drawn(t)
    /\ control \in Offered(tab[t])
    /\ Route(control, tab[t])
    /\ Show(t, None)

\* checkMerge: a page that shows the hire as submitted has GitHub asked once.
CheckMerge(t) ==
    /\ Drawn(t) /\ tab[t].status = "submitted"
    /\ MergeRoute
    /\ Show(t, None)

\* Everything that is not done on these pages: the agreement, the agent's key, the
\* clocks, GitHub, another tab.
Elsewhere == Next /\ UNCHANGED tab

Controls ==
    {"withdraw", "decline", "pay-deposit", "pay-balance", "staged-decline", "redo",
     "redo-refuse", "stage", "cited-close", "accept-short"}

PagesNext ==
    \/ \E t \in Tabs, seat \in Seats : Open(t, seat)
    \/ \E t \in Tabs : ReadJob(t)
    \/ \E t \in Tabs : ReadAttestation(t)
    \/ \E t \in Tabs : ReadPayments(t)
    \/ \E t \in Tabs : Close(t)
    \/ \E t \in Tabs, control \in Controls : Press(t, control)
    \/ \E t \in Tabs : CheckMerge(t)
    \/ Elsewhere

PagesSpec == PagesInit /\ [][PagesNext]_pagesVars

--------------------------------------------------------------------------------
(* Properties.                                                                   *)

\* The attestation of a stage is stored and the write of its row failed: the latest
\* attestation is of another commit than the row is staged at.
HalfStaged == Len(attested) > 0 /\ attested[Len(attested)] # job.stagedCommit

\* The buyer has sent the work back since the page read the job.
SentBack(t) == tab[t].redoUsed < job.redoUsed

ShowsTheStagedWork(t) == attested[tab[t].seen] = job.stagedCommit

\* A page offers the balance of a hire that can be paid.
PaysNow(t) == Drawn(t) /\ "pay-balance" \in Offered(tab[t]) /\ job.status \in StagedStatuses

\* The work a buyer pays for is the work the page showed: while a page offers to pay
\* the balance and the balance can be paid, the attestation it shows is of the staged
\* commit, unless the buyer has sent the work back since, work was staged between the
\* page's two reads, or a stage was left half done (staged.js onLoaded, app.ts stage).
PaidWorkWasShown ==
    \A t \in Tabs :
        PaysNow(t) => ShowsTheStagedWork(t) \/ SentBack(t) \/ tab[t].crossed \/ HalfStaged

\* A page that was just drawn offers what the route behind it takes: a refusal is
\* news, not a control that could never work. Two payments on their way are news as
\* well: the price that reached the owner without its fee, and a deposit that settled
\* on an agreement somebody had reopened.
PagesOfferWhatIsTaken ==
    Fresh =>
        \A seat \in Seats :
            \A control \in Offered(ShotNow(seat)) :
                \/ Takes(control, ShotNow(seat))
                \/ control \in {"redo", "staged-decline"} /\ IsHeld("remainder")
                \/ control \in {"withdraw", "decline"} /\ (IsHeld("deposit") \/ IsSettled("deposit"))
================================================================================
