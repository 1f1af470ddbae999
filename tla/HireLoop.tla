------------------------------- MODULE HireLoop --------------------------------
(* One hire, from its draft to its end, as src/src/api/app.ts runs it when the  *)
(* requests on it come one after the other: every route that changes the job    *)
(* row or its money, the clocks that run on each load, and the world that       *)
(* answers the platform (the chain, GitHub, the calendar). JobRoutes takes the  *)
(* same routes apart to interleave them.                                        *)
(*                                                                              *)
(* A refused request (4xx) and an upstream failure (503) that writes nothing    *)
(* are stuttering steps. A write that can fail after another one succeeded is   *)
(* part of its action.                                                          *)
EXTENDS JobDomain, Sequences

CONSTANTS MaxDay,              \* bound: the calendar stops here
          MaxAttestations      \* bound: attestations stored for the hire

ASSUME BoundsAssumption == MaxDay \in Nat /\ MaxAttestations \in Nat

VARIABLES job,         \* the row of the jobs table
          settled,     \* observed settlement rows, one per leg
          held,        \* what holds an unsettled leg (legHold)
          attested,    \* the attestation rows, oldest first
          pr,          \* the pull request the row names, as GitHub reports it
          credential,  \* the credential row keyed by the job
          today        \* the day

vars == <<job, settled, held, attested, pr, credential, today>>

Settlements == [rail : Rails, price : Prices, at : Nat]

\* A half-paid record whose price transfer is confirmed, or a short payment that
\* waits on the owner (awaitingOwner).
Holds == [rail : Rails, price : Prices, awaitingOwner : BOOLEAN]

PullRequests == [state : {"open", "closed", "merged"}, head : Commits,
                 mergedAt : OrNone(Nat)]

Credentials == {"workHistory", "deemedCompletion"}

\* A row is never null.
ASSUME RowsAssumption ==
    None \notin Settlements /\ None \notin PullRequests /\ None \notin Credentials

TypeOK ==
    /\ job \in Jobs
    /\ settled \in [Legs -> OrNone(Settlements)]
    /\ held \in [Legs -> OrNone(Holds)]
    /\ attested \in Seq(Commits)
    /\ pr \in OrNone(PullRequests)
    /\ credential \in OrNone(Credentials)
    /\ today \in Nat

Init ==
    /\ job = NewJob
    /\ settled = [leg \in Legs |-> None]
    /\ held = [leg \in Legs |-> None]
    /\ attested = <<>>
    /\ pr = None
    /\ credential = None
    /\ today = 0

IsSettled(leg) == settled[leg] # None
IsHeld(leg) == held[leg] # None
AwaitsOwner(leg) == IsHeld(leg) /\ held[leg].awaitingOwner

--------------------------------------------------------------------------------
(* Loading the row: applyLiveLapses runs the clocks on every load. A lapsed row *)
(* is terminal and every route refuses it, so a route acts only on a Fresh row. *)

PaidAt == IF IsSettled("remainder") THEN settled["remainder"].at ELSE None

\* The unpaid clock is told the remainder is not unpaid when it settled or when
\* it waits on the owner.
OnLoad == LapsedStatus(job, today, IsSettled("remainder") \/ AwaitsOwner("remainder"), PaidAt)

Fresh == OnLoad = job.status

\* mergeInstantOf: GitHub's instant; an undated merge is observed now.
MergeInstant == IF pr.mergedAt = None THEN today ELSE pr.mergedAt

\* observePullRequest: an outcome is observed only at the attested commit.
AtAnyCommit == TRUE
AtAttestedCommit == pr.head = job.stagedCommit

NeverMergedInTime == FALSE
MergedInTime ==
    pr.state = "merged" /\ AtAttestedCommit /\ MergedInsideWindow(job, MergeInstant)

\* completeMergedPullRequest: the row first, then the credential; the second
\* write may fail.
CompleteMerged ==
    /\ job' = Completed(job, MergeInstant)
    /\ credential' \in {credential, IF credential = None THEN "workHistory" ELSE credential}
    /\ UNCHANGED <<settled, held, attested, pr, today>>

\* issueDeemedCompletionCredentialIfMissing: best effort.
IssueDeemed ==
    credential' \in {credential, IF credential = None THEN "deemedCompletion" ELSE credential}

LapseOnLoad ==
    /\ ~Fresh /\ OnLoad # "deemed_completed"
    /\ job' = WithStatus(job, OnLoad)
    /\ UNCHANGED <<settled, held, attested, pr, credential, today>>

\* The platform asks GitHub before it deems. The credential is attempted before
\* the row is written, and the row may stay as it was when its write fails.
DeemOnLoad ==
    /\ OnLoad = "deemed_completed" /\ ~Fresh
    /\ ~MergedInTime
    /\ IssueDeemed
    /\ job' \in {job, WithStatus(job, "deemed_completed")}
    /\ UNCHANGED <<settled, held, attested, pr, today>>

CompleteOnLoad ==
    /\ OnLoad = "deemed_completed" /\ ~Fresh
    /\ MergedInTime
    /\ CompleteMerged

\* A later read of a deemed job issues the credential an earlier one missed.
RetryDeemedCredential ==
    /\ job.status = "deemed_completed"
    /\ IssueDeemed
    /\ UNCHANGED <<job, settled, held, attested, pr, today>>

--------------------------------------------------------------------------------
(* The exchange of terms.                                                       *)

WriteJob(row) ==
    /\ job' = row
    /\ UNCHANGED <<settled, held, attested, pr, credential, today>>

\* A proposed job whose deposit's price reached the owner takes no change: the
\* held-leg refusal of criteria, withdraw and decline.
DepositNeverHolds == FALSE
DepositHolds == job.status = "proposed" /\ IsHeld("deposit")

Propose(terms, offer) ==
    /\ Fresh
    /\ terms # {}
    /\ CanPropose(job, IsSettled("deposit"))
    /\ ~DepositHolds
    /\ WriteJob(Proposed(job, terms, offer))

AcceptCriterion(criterion, party) ==
    /\ Fresh /\ CanAcceptCriterion(job, criterion)
    /\ WriteJob(CriterionAccepted(job, criterion, party))

AcceptPrice(party) ==
    /\ Fresh /\ CanAcceptPrice(job)
    /\ WriteJob(PriceAccepted(job, party))

\* The rail an open quote left out is the settled deposit's.
WithDepositRail == [job EXCEPT !.rail = IF @ = None THEN settled["deposit"].rail ELSE @]

Confirm ==
    /\ Fresh
    /\ IsSettled("deposit")
    /\ CanConfirm(WithDepositRail)
    /\ WriteJob(Confirmed(WithDepositRail, today))

\* The deposit is asked about at "proposed" only; from "confirmed" on a
\* withdrawal is recorded whatever was paid.
Withdraw ==
    /\ Fresh
    /\ CanWithdraw(job, job.status = "proposed" /\ IsSettled("deposit"))
    /\ ~DepositHolds
    /\ WriteJob(WithStatus(job, "withdrawn"))

Decline ==
    /\ Fresh
    /\ CanDecline(job, IsSettled("deposit"))
    /\ ~DepositHolds
    /\ WriteJob(WithStatus(job, "declined"))

--------------------------------------------------------------------------------
(* Payment reports. What the chain shows for the reported transfers decides     *)
(* what a report writes.                                                        *)

\* The checks every door makes, in no particular order: the leg is payable now,
\* in this rail, and has not settled; a short payment is not paid again.
DoorOpen(leg, rail) ==
    /\ Fresh
    /\ LegStatusEligible(leg, job.status)
    /\ job.price # None
    /\ job.rail \in {None, rail}
    /\ IsSettled("deposit") => settled["deposit"].rail = rail
    /\ IsHeld(leg) => held[leg].rail = rail /\ ~held[leg].awaitingOwner
    /\ ~IsSettled(leg)

Settle(leg, rail) ==
    /\ settled' = [settled EXCEPT ![leg] = [rail |-> rail, price |-> job.price, at |-> today]]
    /\ held' = [held EXCEPT ![leg] = None]
    /\ UNCHANGED <<job, attested, pr, credential, today>>

Hold(leg, hold) ==
    /\ held' = [held EXCEPT ![leg] = hold]
    /\ UNCHANGED <<job, settled, attested, pr, credential, today>>

\* Both transfers are confirmed (one broadcast on the ABT rail, whose wallet
\* callback also asks that a deposit's terms be agreed).
PaySettles(leg, rail) ==
    /\ DoorOpen(leg, rail)
    /\ rail = "abt" /\ leg = "deposit" => Agreed(job)
    /\ Settle(leg, rail)

\* Only the price transfer is confirmed.
PayHalf(leg, rail) ==
    /\ rail # "abt" /\ DoorOpen(leg, rail)
    /\ Hold(leg, [rail |-> rail, price |-> job.price, awaitingOwner |-> FALSE])

\* The price transfer of the report is not confirmed: a fee-only report
\* overwrites the half-paid record and one with neither transfer clears it.
PayForgotten(leg, rail) ==
    /\ rail # "abt" /\ DoorOpen(leg, rail)
    /\ IsHeld(leg)
    /\ Hold(leg, None)

\* Both transfers are confirmed and the price was worth too little when it
\* landed.
PayShort(leg) ==
    /\ DoorOpen(leg, "abt_eth")
    /\ Hold(leg, [rail |-> "abt_eth", price |-> job.price, awaitingOwner |-> TRUE])

AcceptShort(leg) ==
    /\ Fresh
    /\ AwaitsOwner(leg) /\ ~IsSettled(leg)
    /\ Settle(leg, "abt_eth")

--------------------------------------------------------------------------------
(* Staging, redo and delivery.                                                  *)

\* The attestation is stored first; the row's write may fail after it.
Stage(commit) ==
    /\ Fresh
    /\ CanMove(job.status, "staged")
    /\ Len(attested) < MaxAttestations
    /\ attested' = Append(attested, commit)
    /\ job' \in {job, Staged(job, commit, today)}
    /\ UNCHANGED <<settled, held, pr, credential, today>>

\* refuseStagedMoveWhenPaid
BalanceUntouched == ~IsSettled("remainder") /\ ~IsHeld("remainder")

StagedDecline ==
    /\ Fresh
    /\ CanMove(job.status, "staged_declined")
    /\ BalanceUntouched
    /\ WriteJob(WithStatus(job, "staged_declined"))

RequestRedo ==
    /\ Fresh /\ CanRequestRedo(job)
    /\ BalanceUntouched
    /\ WriteJob(RedoRequested(job))

RefuseRedo ==
    /\ Fresh /\ CanRefuseRedo(job)
    /\ WriteJob(WithStatus(job, "staged"))

\* The agent has opened a pull request at the attested commit.
SubmitPullRequest ==
    /\ Fresh
    /\ IsSettled("remainder")
    /\ CanMove(job.status, "submitted")
    /\ job' = Submitted(job, today)
    /\ pr' = [state |-> "open", head |-> job.stagedCommit, mergedAt |-> None]
    /\ UNCHANGED <<settled, held, attested, credential, today>>

CitedClose ==
    /\ Fresh
    /\ CanMove(job.status, "cited_closed")
    /\ IsSettled("remainder")
    /\ WriteJob(WithStatus(job, "cited_closed"))

\* What the merge route records for a pull request that has not merged.
UnmergedStatus ==
    IF pr.state = "open" /\ job.status = "submitted" /\ today >= Deadline(job) THEN "stale"
    ELSE IF pr.state = "closed" /\ job.status = "stale" THEN "closed_unmerged"
    ELSE job.status

MergeRoute ==
    /\ Fresh
    /\ job.status \in {"submitted", "stale"}
    /\ AtAttestedCommit
    /\ \/ pr.state = "merged" /\ CompleteMerged
       \/ pr.state # "merged" /\ WriteJob(WithStatus(job, UnmergedStatus))

--------------------------------------------------------------------------------
(* The world: GitHub and the calendar.                                          *)

MovePullRequest(next) ==
    /\ pr' = next
    /\ UNCHANGED <<job, settled, held, attested, credential, today>>

PushToPullRequest(commit) ==
    /\ pr # None /\ pr.state = "open"
    /\ MovePullRequest([pr EXCEPT !.head = commit])

\* GitHub dates a merge; an answer without the date has been allowed for.
MergePullRequest(dated) ==
    /\ pr # None /\ pr.state = "open"
    /\ MovePullRequest([pr EXCEPT !.state = "merged",
                                  !.mergedAt = IF dated THEN today ELSE None])

ClosePullRequest ==
    /\ pr # None /\ pr.state = "open"
    /\ MovePullRequest([pr EXCEPT !.state = "closed"])

ReopenPullRequest ==
    /\ pr # None /\ pr.state = "closed"
    /\ MovePullRequest([pr EXCEPT !.state = "open"])

Tick ==
    /\ today < MaxDay
    /\ today' = today + 1
    /\ UNCHANGED <<job, settled, held, attested, pr, credential>>

--------------------------------------------------------------------------------

Exchange ==
    \/ \E terms \in SUBSET Criteria, offer \in OrNone(Offers) : Propose(terms, offer)
    \/ \E criterion \in Criteria, party \in Parties : AcceptCriterion(criterion, party)
    \/ \E party \in Parties : AcceptPrice(party)
    \/ Confirm
    \/ Withdraw
    \/ Decline

Payment ==
    \/ \E leg \in Legs, rail \in Rails : PaySettles(leg, rail)
    \/ \E leg \in Legs, rail \in Rails : PayHalf(leg, rail)
    \/ \E leg \in Legs, rail \in Rails : PayForgotten(leg, rail)
    \/ "abt_eth" \in Rails /\ \E leg \in Legs : PayShort(leg)
    \/ \E leg \in Legs : AcceptShort(leg)

Delivery ==
    \/ \E commit \in Commits : Stage(commit)
    \/ StagedDecline
    \/ RequestRedo
    \/ RefuseRedo
    \/ SubmitPullRequest
    \/ CitedClose
    \/ MergeRoute

Load == LapseOnLoad \/ DeemOnLoad \/ CompleteOnLoad \/ RetryDeemedCredential

World ==
    \/ \E commit \in Commits : PushToPullRequest(commit)
    \/ \E dated \in BOOLEAN : MergePullRequest(dated)
    \/ ClosePullRequest
    \/ ReopenPullRequest
    \/ Tick

Next == Exchange \/ Payment \/ Delivery \/ Load \/ World

Spec == Init /\ [][Next]_vars

\* Days pass, and somebody keeps reading the job while its storage and GitHub
\* answer often enough: the lists a buyer, an owner or the public open run the
\* clocks too. Nothing is assumed of the two parties.
Fairness ==
    /\ WF_vars(Tick)
    /\ WF_vars(LapseOnLoad)
    /\ WF_vars(DeemOnLoad)
    /\ WF_vars(CompleteOnLoad)

FairSpec == Spec /\ Fairness

--------------------------------------------------------------------------------
(* What must hold.                                                              *)

Hired == job.confirmedAt # None
Over == IsTerminal(job.status)

\* A confirmed hire is the agreement both parties made: every line and the price
\* signed by both, the pinned digest of exactly those terms, and a deposit
\* settled for that price on that rail (confirmSpec, app.ts confirm). What a
\* later route writes must leave all of it standing.
AgreementSealed ==
    Hired =>
        /\ Agreed(job)
        /\ job.spec = SpecOf(job)
        /\ \A leg \in Legs : IsSettled(leg) =>
               /\ settled[leg].price = job.spec.price
               /\ settled[leg].rail = job.spec.rail
        /\ IsSettled("deposit")

\* How the hire ended is true of the money: nobody walks away from a proposal
\* whose deposit settled, a hire recorded as unpaid was not paid, one recorded
\* as paid and undelivered was, and work that reached a pull request was paid in
\* full (B24, B74, SW3-07, P4).
EndingTellsPayment ==
    /\ job.status = "declined" => ~IsSettled("deposit")
    /\ job.status = "withdrawn" /\ ~Hired => ~IsSettled("deposit")
    /\ job.status \in {"closed_unpaid", "staged_declined"} => ~IsSettled("remainder")
    /\ job.status = "paid_undelivered" => IsSettled("remainder") /\ job.submittedAt = None
    /\ job.submittedAt # None => IsSettled("remainder")

\* Work that was submitted has a stored attestation, and the pull request the
\* row completes from is at that attested commit (P5, STG2).
AttestedWork ==
    /\ job.submittedAt # None => \E i \in DOMAIN attested : attested[i] = job.stagedCommit
    /\ job.status = "completed" => pr.state = "merged" /\ pr.head = job.stagedCommit

\* A receipt says what GitHub saw: the work is attested work, a work-history credential
\* stands beside a completed row merged inside the review window, a deemed-completion
\* credential never beside a merge GitHub dates inside it (B60).
HonestReceipt ==
    /\ AttestedWork
    /\ credential = "workHistory" =>
           /\ job.status = "completed"
           /\ job.mergedAt <= job.submittedAt + DeemCompletedAfter
    /\ credential = "deemedCompletion" =>
           /\ job.status # "completed"
           /\ ~(/\ pr.state = "merged" /\ pr.head = job.stagedCommit
                /\ pr.mergedAt # None
                /\ pr.mergedAt <= job.submittedAt + DeemCompletedAfter)

\* The stale marker is out of reach: the review window deems the job first
\* (validateJobTransition, deemCompleted).
NeverStale == job.status # "stale"

\* A hire is over, once somebody looks, within the sum of its windows: unpaid, it
\* cannot outlive the staging, review and redo windows; paid, the delivery and
\* review windows. Only a payment that waits on the owner stops the clocks.
UnpaidLimit ==
    ExpireUnstagedAfter
        + (RedoAllowance + 1) * (LapseAtStagedAfter + RedoAllowance * RedoLapseExtension)

PaidLimit == UndeliveredAfterPaid + DeemCompletedAfter

HireIsBounded ==
    Hired /\ Fresh /\ ~Over =>
        \/ AwaitsOwner("remainder")
        \/ ~IsSettled("remainder") /\ today <= job.confirmedAt + UnpaidLimit
        \/ IsSettled("remainder") /\ today <= settled["remainder"].at + PaidLimit

\* Money already paid on a leg is finished as it started: the settlement that
\* ends a hold is on the rail and at the price the hold was paid on (B39, B88).
PaymentFinishedAsStarted ==
    [][\A leg \in Legs :
          IsHeld(leg) /\ ~IsSettled(leg) /\ settled'[leg] # None =>
              /\ settled'[leg].rail = held[leg].rail
              /\ settled'[leg].price = held[leg].price]_vars

\* Once the deposit settled the terms stand: lines, price and window never
\* change again, no signature is lost, and the only rail the row may take is the
\* one the deposit was paid on (B74).
TermsSealedByDeposit ==
    [][IsSettled("deposit") =>
          /\ job'.terms = job.terms
          /\ job'.price = job.price
          /\ job.signed \subseteq job'.signed
          /\ job.priceBy \subseteq job'.priceBy
          /\ job'.rail \in {job.rail, settled["deposit"].rail}]_vars

\* The hire keeps the contract of HireContract.
Phase ==
    IF Over THEN "over"
    ELSE IF ~Hired THEN "terms"
    ELSE IF job.submittedAt = None THEN "hired"
    ELSE "delivered"

Outcome == IF Over THEN job.status ELSE None

Contract == INSTANCE HireContract WITH
    phase <- Phase,
    deposit <- IsSettled("deposit"),
    balance <- IsSettled("remainder"),
    outcome <- Outcome

KeepsContract == Contract!Spec

\* Every hire comes to an end: whatever the two parties do or leave undone, a
\* confirmed hire reaches a final status, unless a payment waits on the owner.
\* The premise keeps the horizon of the model out of reach.
EveryHireEnds ==
    (Hired /\ today + UnpaidLimit + PaidLimit < MaxDay) ~> (Over \/ AwaitsOwner("remainder"))
================================================================================
