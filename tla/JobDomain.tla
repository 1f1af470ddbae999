------------------------------- MODULE JobDomain -------------------------------
(* The pure functions of src/src/domain/job.ts: the transition table, the       *)
(* agreement, the transitions of one job row and its four clocks. Nothing here  *)
(* has a state; the modules that EXTEND this one apply these functions to a row *)
(* they keep (HireLoop, one request at a time) or to a copy of a stored row     *)
(* that other requests overwrite meanwhile (JobRoutes).                         *)
(*                                                                              *)
(* A row is abstracted to what the rules tell apart. A criterion is its text,   *)
(* a price stands for the pair (priceUsd, deliveryWindowDays), and time is      *)
(* counted in days, the unit of every window of the code.                       *)
(*                                                                              *)
(* Some definitions stand beside a broken form of themselves, named after what  *)
(* it forgets (CanProposeAnytime before CanPropose). The broken forms are used  *)
(* by nothing but the mutation tests of PROJECT.json.                           *)
EXTENDS Naturals

CONSTANTS Criteria,               \* the criterion texts a proposal may carry
          Prices,                 \* (priceUsd, deliveryWindowDays) pairs
          Rails,                  \* the payment rails a deployment has configured
          Commits,                \* commit hashes
          None                    \* the code's null

CONSTANTS RedoAllowance,          \* REDO_ALLOWANCE, 1 in the code
          ExpireUnstagedAfter,    \* EXPIRE_UNSTAGED_AFTER_DAYS, 30
          LapseAtStagedAfter,     \* LAPSE_AT_STAGED_AFTER_DAYS, 7
          RedoLapseExtension,     \* REDO_LAPSE_EXTENSION_DAYS, 7
          UndeliveredAfterPaid,   \* UNDELIVERED_AFTER_PAID_DAYS, 7
          DeemCompletedAfter,     \* DEEM_COMPLETED_AFTER_DAYS, 7
          StaleAfter              \* STALE_AFTER_DAYS, 30

ASSUME WindowsAssumption ==
    /\ RedoAllowance \in Nat
    /\ ExpireUnstagedAfter \in Nat
    /\ LapseAtStagedAfter \in Nat
    /\ RedoLapseExtension \in Nat
    /\ UndeliveredAfterPaid \in Nat
    /\ DeemCompletedAfter \in Nat
    /\ StaleAfter \in Nat

\* 7 days of review, 30 days to stale: the review window is the shorter one.
ASSUME ReviewBeforeStale == DeemCompletedAfter < StaleAfter

ASSUME RailsAssumption == Rails \subseteq {"abt", "usdc", "abt_eth"}

ASSUME NoneAssumption ==
    /\ None \notin Nat
    /\ None \notin Prices
    /\ None \notin Commits
    /\ None \notin {"abt", "usdc", "abt_eth"}

Parties == {"buyer", "agent"}
Legs == {"deposit", "remainder"}

Statuses ==
    {"draft", "proposed", "confirmed", "staged", "redo_requested", "submitted",
     "completed", "declined", "closed_unmerged", "stale", "withdrawn",
     "staged_declined", "closed_unpaid", "expired_unstaged", "deemed_completed",
     "cited_closed", "paid_undelivered"}

TerminalStatuses ==
    {"completed", "declined", "closed_unmerged", "withdrawn", "staged_declined",
     "closed_unpaid", "expired_unstaged", "deemed_completed", "cited_closed",
     "paid_undelivered"}

IsTerminal(status) == status \in TerminalStatuses

\* validateJobTransition: the edges of the table; a terminal status has none.
CanMove(from, to) ==
    \/ from = "draft"          /\ to \in {"proposed", "declined", "withdrawn"}
    \/ from = "proposed"       /\ to \in {"confirmed", "declined", "withdrawn"}
    \/ from = "confirmed"      /\ to \in {"staged", "expired_unstaged", "declined", "withdrawn"}
    \/ from = "staged"         /\ to \in {"submitted", "staged_declined", "closed_unpaid",
                                          "redo_requested", "paid_undelivered"}
    \/ from = "redo_requested" /\ to \in {"staged", "closed_unpaid", "paid_undelivered"}
    \/ from = "submitted"      /\ to \in {"completed", "deemed_completed", "stale", "declined",
                                          "withdrawn", "cited_closed"}
    \/ from = "stale"          /\ to \in {"completed", "closed_unmerged", "declined", "withdrawn"}

--------------------------------------------------------------------------------
\* The row.

OrNone(S) == S \cup {None}

\* What confirmedSpecHash pins: two specs are equal when their digests are.
Specs == [terms : SUBSET Criteria, price : Prices, rail : Rails]

\* An offer beside a list of criteria: a price, and a rail or none named.
Offers == [price : Prices, rail : OrNone(Rails)]

Jobs ==
    [status       : Statuses,
     terms        : SUBSET Criteria,               \* criteria[].text
     signed       : SUBSET (Criteria \X Parties),  \* acceptedByBuyer, acceptedByAgent
     price        : OrNone(Prices),
     rail         : OrNone(Rails),
     priceBy      : SUBSET Parties,                \* priceAcceptedByBuyer, ...ByAgent
     spec         : OrNone(Specs),
     confirmedAt  : OrNone(Nat),
     stagedAt     : OrNone(Nat),
     stagedCommit : OrNone(Commits),
     redoUsed     : Nat,
     extension    : Nat,                           \* stagedLapseExtensionDays
     submittedAt  : OrNone(Nat),
     mergedAt     : OrNone(Nat)]

NewJob ==
    [status |-> "draft", terms |-> {}, signed |-> {}, price |-> None, rail |-> None,
     priceBy |-> {}, spec |-> None, confirmedAt |-> None, stagedAt |-> None,
     stagedCommit |-> None, redoUsed |-> 0, extension |-> 0, submittedAt |-> None,
     mergedAt |-> None]

--------------------------------------------------------------------------------
\* The agreement.

\* agreementGap answers null.
Agreed(j) ==
    /\ j.terms # {}
    /\ j.terms \X Parties \subseteq j.signed
    /\ j.price # None
    /\ j.priceBy = Parties

CanProposeAnytime(j, depositSettled) == j.status \in {"draft", "proposed"}
CanPropose(j, depositSettled) == ~depositSettled /\ j.status \in {"draft", "proposed"}

\* A price line that does not change keeps its acceptances; an offer that names
\* no rail keeps the row's.
Repriced(j, offer) ==
    LET rail == IF offer.rail = None THEN j.rail ELSE offer.rail
    IN  [j EXCEPT !.price = offer.price,
                  !.rail = rail,
                  !.priceBy = IF j.price = offer.price /\ j.rail = rail THEN @ ELSE {}]

\* A line carried through unchanged keeps its acceptances, a new line has none.
Proposed(j, terms, offer) ==
    LET priced == IF offer = None THEN j ELSE Repriced(j, offer)
    IN  [priced EXCEPT !.status = "proposed",
                       !.terms = terms,
                       !.signed = @ \cap (terms \X Parties)]

CanAcceptCriterion(j, criterion) == j.status = "proposed" /\ criterion \in j.terms
CriterionAccepted(j, criterion, party) == [j EXCEPT !.signed = @ \cup {<<criterion, party>>}]

CanAcceptPrice(j) == j.status = "proposed" /\ j.price # None
PriceAccepted(j, party) == [j EXCEPT !.priceBy = @ \cup {party}]

SpecOf(j) == [terms |-> j.terms, price |-> j.price, rail |-> j.rail]

CanConfirmUnsigned(j) == CanMove(j.status, "confirmed") /\ j.price # None /\ j.rail # None
CanConfirm(j) == CanMove(j.status, "confirmed") /\ Agreed(j) /\ j.rail # None
Confirmed(j, today) ==
    [j EXCEPT !.status = "confirmed", !.spec = SpecOf(j), !.confirmedAt = today]

CanDecline(j, depositSettled) == CanMove(j.status, "declined") /\ ~depositSettled
CanWithdrawPaid(j, depositSettled) == CanMove(j.status, "withdrawn")
CanWithdraw(j, depositSettled) == CanMove(j.status, "withdrawn") /\ ~depositSettled
WithStatus(j, status) == [j EXCEPT !.status = status]

--------------------------------------------------------------------------------
\* Staging, redo, delivery.

Staged(j, commit, today) ==
    [j EXCEPT !.status = "staged", !.stagedCommit = commit, !.stagedAt = today]

CanRequestRedoOnceMore(j) ==
    CanMove(j.status, "redo_requested") /\ j.redoUsed <= RedoAllowance
CanRequestRedo(j) == CanMove(j.status, "redo_requested") /\ j.redoUsed < RedoAllowance
RedoRequestedUncounted(j) ==
    [j EXCEPT !.status = "redo_requested", !.extension = @ + RedoLapseExtension]
RedoRequested(j) ==
    [j EXCEPT !.status = "redo_requested",
              !.redoUsed = @ + 1,
              !.extension = @ + RedoLapseExtension]

CanRefuseRedo(j) == j.status = "redo_requested"

Submitted(j, today) == [j EXCEPT !.status = "submitted", !.submittedAt = today]
Deadline(j) == j.submittedAt + StaleAfter

Completed(j, mergedAt) == [j EXCEPT !.status = "completed", !.mergedAt = mergedAt]

\* legStatusEligible: the statuses in which a leg can be paid.
StagedStatusesNarrow == {"staged"}
StagedStatuses == {"staged", "redo_requested"}
LegStatusEligible(leg, status) ==
    IF leg = "deposit" THEN status = "proposed" ELSE status \in StagedStatuses

--------------------------------------------------------------------------------
\* The four clocks. Each window ends strictly after its last day. `notUnpaid` is
\* what the caller tells the unpaid clock (the remainder settled, or waits on the
\* owner), `paidAt` the instant the remainder settled or None.

ExpireUnstaged(j, today) ==
    j.status = "confirmed" /\ today > j.confirmedAt + ExpireUnstagedAfter

LapseAtStagedUnasked(j, today, notUnpaid) ==
    /\ j.status \in StagedStatuses /\ j.stagedAt # None
    /\ today > j.stagedAt + LapseAtStagedAfter + j.extension
LapseAtStaged(j, today, notUnpaid) ==
    /\ j.status \in StagedStatuses
    /\ j.stagedAt # None
    /\ ~notUnpaid
    /\ today > j.stagedAt + LapseAtStagedAfter + j.extension

LapseUndeliveredNever(j, today, paidAt) == FALSE
LapseUndelivered(j, today, paidAt) ==
    /\ j.status \in StagedStatuses
    /\ paidAt # None
    /\ today > paidAt + UndeliveredAfterPaid

DeemWindowEnd(j) == j.submittedAt + DeemCompletedAfter
DeemWindowHasPassed(j, today) == j.status = "submitted" /\ today > DeemWindowEnd(j)
MergedInsideWindow(j, mergedAt) == mergedAt <= DeemWindowEnd(j)

\* applyLapses: the status the clocks leave the row in, in the code's order.
LapsedStatus(j, today, notUnpaid, paidAt) ==
    IF ExpireUnstaged(j, today) THEN "expired_unstaged"
    ELSE IF LapseAtStaged(j, today, notUnpaid \/ paidAt # None) THEN "closed_unpaid"
    ELSE IF LapseUndelivered(j, today, paidAt) THEN "paid_undelivered"
    ELSE IF DeemWindowHasPassed(j, today) THEN "deemed_completed"
    ELSE j.status
================================================================================
