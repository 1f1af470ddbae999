---------------------------- MODULE HireLoopProofs -----------------------------
(* What HireLoop promises for every set of criteria, prices, rails and commits  *)
(* and every length of its windows, and what the pages and lists drawn from it  *)
(* (HirePages, JobLists) promise for any number of them open at once.           *)
EXTENDS JobLists, TLAPS

--------------------------------------------------------------------------------
(* What the functions of JobDomain do to the type of a row, and what the clocks  *)
(* can do to its status, for every value of its constants.                       *)

\* Every function of the domain takes a row to a row.
LEMMA RepricedType ==
    ASSUME NEW j \in Jobs, NEW offer \in Offers
    PROVE  Repriced(j, offer) \in Jobs
<1> DEFINE rail == IF offer.rail = None THEN j.rail ELSE offer.rail
           signers == IF j.price = offer.price /\ j.rail = rail THEN j.priceBy ELSE {}
<1>1. rail \in OrNone(Rails) /\ offer.price \in OrNone(Prices)
  BY DEF Jobs, Offers, OrNone
<1>2. signers \in SUBSET Parties
  BY DEF Jobs
<1>3. Repriced(j, offer) = [j EXCEPT !.price = offer.price, !.rail = rail, !.priceBy = signers]
  BY DEF Repriced, Jobs
<1> HIDE DEF rail, signers
<1> QED
  BY <1>1, <1>2, <1>3 DEF Jobs

LEMMA ProposedType ==
    ASSUME NEW j \in Jobs, NEW terms \in SUBSET Criteria, NEW offer \in OrNone(Offers)
    PROVE  Proposed(j, terms, offer) \in Jobs
<1> DEFINE priced == IF offer = None THEN j ELSE Repriced(j, offer)
<1>1. priced \in Jobs
  BY RepricedType DEF OrNone
<1>2. "proposed" \in Statuses
  BY DEF Statuses
<1> HIDE DEF priced
<1>3. [priced EXCEPT !.status = "proposed", !.terms = terms,
                     !.signed = @ \cap (terms \X Parties)] \in Jobs
  BY <1>1, <1>2 DEF Jobs
<1> QED
  BY <1>3 DEF Proposed, priced

\* A proposal rewrites the terms and nothing of the hire.
LEMMA ProposedRow ==
    ASSUME NEW j \in Jobs, NEW terms, NEW offer
    PROVE  LET next == Proposed(j, terms, offer)
           IN  /\ next.status = "proposed"
               /\ next.confirmedAt = j.confirmedAt
               /\ next.stagedAt = j.stagedAt
               /\ next.stagedCommit = j.stagedCommit
               /\ next.redoUsed = j.redoUsed
               /\ next.extension = j.extension
               /\ next.submittedAt = j.submittedAt
<1> DEFINE priced == IF offer = None THEN j ELSE Repriced(j, offer)
           SameHire(row) ==
               /\ row.confirmedAt = j.confirmedAt
               /\ row.stagedAt = j.stagedAt
               /\ row.stagedCommit = j.stagedCommit
               /\ row.redoUsed = j.redoUsed
               /\ row.extension = j.extension
               /\ row.submittedAt = j.submittedAt
<1>1. SameHire(priced)
  BY DEF Repriced, Jobs
<1>2. DOMAIN priced = DOMAIN NewJob
  BY DEF Repriced, Jobs, NewJob
<1> HIDE DEF priced
<1>3. [priced EXCEPT !.status = "proposed", !.terms = terms,
                     !.signed = @ \cap (terms \X Parties)].status = "proposed"
  BY <1>2 DEF NewJob
<1>4. SameHire([priced EXCEPT !.status = "proposed", !.terms = terms,
                              !.signed = @ \cap (terms \X Parties)])
  BY <1>1, <1>2 DEF NewJob
<1> QED
  BY <1>3, <1>4 DEF Proposed, priced

\* It carries the lines it was made of, and no signature on a price it does not name.
LEMMA ProposedTerms ==
    ASSUME NEW j \in Jobs, NEW terms, NEW offer \in OrNone(Offers),
           j.priceBy # {} => j.price # None
    PROVE  LET next == Proposed(j, terms, offer)
           IN  next.terms = terms /\ (next.priceBy # {} => next.price # None)
<1> DEFINE priced == IF offer = None THEN j ELSE Repriced(j, offer)
<1>1. priced.priceBy # {} => priced.price # None
  BY NoneAssumption DEF Repriced, Jobs, Offers, OrNone
<1>2. DOMAIN priced = DOMAIN NewJob
  BY DEF Repriced, Jobs, NewJob
<1> HIDE DEF priced
<1> DEFINE next == [priced EXCEPT !.status = "proposed", !.terms = terms,
                                  !.signed = @ \cap (terms \X Parties)]
<1>3. next.terms = terms /\ next.priceBy = priced.priceBy /\ next.price = priced.price
  BY <1>2 DEF NewJob
<1> QED
  BY <1>1, <1>3 DEF Proposed, priced

LEMMA SpecOfType ==
    ASSUME NEW j \in Jobs, j.price # None, j.rail # None
    PROVE  SpecOf(j) \in Specs
BY DEF SpecOf, Specs, Jobs, OrNone

LEMMA ConfirmedType ==
    ASSUME NEW j \in Jobs, NEW date \in Nat, CanConfirm(j)
    PROVE  Confirmed(j, date) \in Jobs
<1>1. SpecOf(j) \in Specs
  BY SpecOfType DEF CanConfirm, Agreed
<1>2. "confirmed" \in Statuses
  BY DEF Statuses
<1> QED
  BY <1>1, <1>2 DEF Confirmed, Jobs, OrNone

LEMMA AcceptedType ==
    ASSUME NEW j \in Jobs, NEW criterion \in Criteria, NEW party \in Parties
    PROVE  /\ CriterionAccepted(j, criterion, party) \in Jobs
           /\ PriceAccepted(j, party) \in Jobs
BY DEF CriterionAccepted, PriceAccepted, Jobs

LEMMA WithStatusType ==
    ASSUME NEW j \in Jobs, NEW status \in Statuses
    PROVE  WithStatus(j, status) \in Jobs
BY DEF WithStatus, Jobs

LEMMA StagedType ==
    ASSUME NEW j \in Jobs, NEW commit \in Commits, NEW date \in Nat
    PROVE  Staged(j, commit, date) \in Jobs
BY DEF Staged, Jobs, OrNone, Statuses

LEMMA RedoRequestedType ==
    ASSUME NEW j \in Jobs
    PROVE  RedoRequested(j) \in Jobs
<1>1. "redo_requested" \in Statuses
  BY DEF Statuses
<1>2. j.redoUsed + 1 \in Nat /\ j.extension + RedoLapseExtension \in Nat
  BY WindowsAssumption DEF Jobs
<1> QED
  BY <1>1, <1>2 DEF RedoRequested, Jobs

LEMMA SubmittedType ==
    ASSUME NEW j \in Jobs, NEW date \in Nat
    PROVE  Submitted(j, date) \in Jobs
BY DEF Submitted, Jobs, OrNone, Statuses

LEMMA CompletedType ==
    ASSUME NEW j \in Jobs, NEW mergedAt \in Nat
    PROVE  Completed(j, mergedAt) \in Jobs
BY DEF Completed, Jobs, OrNone, Statuses

\* Where the clocks can move a row: only out of the status each of them watches,
\* to "unpaid" only when the caller says so, to "undelivered" only when paid.
LEMMA ClocksMove ==
    ASSUME NEW j, NEW date, NEW notUnpaid \in BOOLEAN, NEW paidAt,
           LapsedStatus(j, date, notUnpaid, paidAt) # j.status
    PROVE  LET next == LapsedStatus(j, date, notUnpaid, paidAt)
           IN  \/ j.status = "confirmed" /\ next = "expired_unstaged"
               \/ j.status \in StagedStatuses /\ next = "closed_unpaid" /\ ~notUnpaid /\ paidAt = None
               \/ j.status \in StagedStatuses /\ next = "paid_undelivered" /\ paidAt # None
               \/ j.status = "submitted" /\ next = "deemed_completed"
BY DEF LapsedStatus, ExpireUnstaged, LapseAtStaged, LapseUndelivered, DeemWindowHasPassed

--------------------------------------------------------------------------------
(* The inductive invariant. AgreementSealed and EndingTellsPayment are not      *)
(* inductive as they stand: confirming needs to know that what settled before   *)
(* it settled at the terms that stand now, and accepting a short payment that   *)
(* the hold it accepts is one of this hire, so the invariant follows the money  *)
(* from the report that brought it.                                             *)

\* Where in its life a row is: what the status says of the instants and the commit
\* the row keeps, and of the pull request. The stale status has no way in.
StageOfHire ==
    /\ job.status \in {"draft", "proposed"} => ~Hired
    /\ job.status \in {"confirmed", "staged", "redo_requested", "submitted"} => Hired
    /\ job.status \in {"draft", "proposed", "confirmed", "staged", "redo_requested"} =>
           job.submittedAt = None
    /\ job.status \in StagedStatuses => job.stagedCommit # None
    /\ job.status = "submitted" => job.submittedAt # None
    /\ job.submittedAt # None => pr # None
    /\ job.status \notin {"stale", "closed_unmerged"}

\* A deposit settles, and is held, for the price that stands, on the row's rail.
DepositMoney ==
    /\ IsSettled("deposit") =>
           /\ job.status # "draft"
           /\ settled["deposit"].price = job.price
           /\ job.rail \in {None, settled["deposit"].rail}
    /\ IsHeld("deposit") =>
           /\ job.status = "proposed"
           /\ ~IsSettled("deposit")
           /\ held["deposit"].price = job.price
           /\ job.rail \in {None, held["deposit"].rail}

\* A remainder is paid on a hire only, and a hold on it is one on its terms.
RemainderMoney ==
    /\ IsSettled("remainder") => Hired
    /\ IsHeld("remainder") =>
           /\ Hired
           /\ ~IsSettled("remainder")
           /\ held["remainder"].price = job.price
           /\ held["remainder"].rail = job.rail
    /\ AwaitsOwner("remainder") => job.status \in StagedStatuses

\* Only the ABT-on-Ethereum rail has short payments.
ShortOnEthereum ==
    \A leg \in Legs : AwaitsOwner(leg) => held[leg].rail = "abt_eth"

IInv ==
    /\ TypeOK
    /\ StageOfHire
    /\ DepositMoney
    /\ RemainderMoney
    /\ ShortOnEthereum
    /\ AgreementSealed
    /\ EndingTellsPayment

--------------------------------------------------------------------------------
(* Types.                                                                       *)

\* What holds a leg was paid at the price that stands.
LEMMA HoldsArePriced ==
    ASSUME IInv, NEW leg \in Legs, IsHeld(leg)
    PROVE  held[leg].price = job.price /\ held[leg] \in Holds /\ job.price \in Prices
<1>1. held[leg].price = job.price
  BY DEF IInv, DepositMoney, RemainderMoney, Legs
<1>2. held[leg] \in Holds
  BY DEF IInv, TypeOK, IsHeld, OrNone
<1> QED
  BY <1>1, <1>2 DEF Holds

\* What the clocks do to the row of the hire.
LEMMA LoadMoves ==
    ASSUME ~Fresh
    PROVE  \/ job.status = "confirmed" /\ OnLoad = "expired_unstaged"
           \/ /\ job.status \in StagedStatuses /\ OnLoad = "closed_unpaid"
              /\ ~IsSettled("remainder") /\ ~AwaitsOwner("remainder")
           \/ /\ job.status \in StagedStatuses /\ OnLoad = "paid_undelivered"
              /\ IsSettled("remainder")
           \/ job.status = "submitted" /\ OnLoad = "deemed_completed"
<1> DEFINE notUnpaid == IsSettled("remainder") \/ AwaitsOwner("remainder")
<1>1. notUnpaid \in BOOLEAN
  BY DEF IsSettled, AwaitsOwner, IsHeld
<1>2. LapsedStatus(job, today, notUnpaid, PaidAt) # job.status
  BY DEF Fresh, OnLoad
<1>3. PaidAt # None => IsSettled("remainder")
  BY DEF PaidAt
<1> QED
  BY <1>1, <1>2, <1>3, ClocksMove DEF OnLoad

LEMMA MergeInstantType ==
    ASSUME TypeOK, pr # None
    PROVE  MergeInstant \in Nat
BY DEF TypeOK, MergeInstant, PullRequests, OrNone

LEMMA TypeInit == Init => TypeOK
<1> SUFFICES ASSUME Init PROVE TypeOK
  OBVIOUS
<1>1. NewJob \in Jobs
  BY DEF NewJob, Jobs, Statuses, OrNone
<1> QED
  BY <1>1 DEF Init, TypeOK, OrNone

\* The type invariant is kept by every step from a state of IInv: a row past
\* submission names a pull request, and a held leg has a price.
LEMMA TypeStep ==
    ASSUME IInv, [Next]_vars
    PROVE  TypeOK'
<1> TypeOK
  BY DEF IInv
<1> USE DEF TypeOK
<1>1. ASSUME NEW row, row \in Jobs, WriteJob(row)
      PROVE  TypeOK'
  BY <1>1 DEF WriteJob
<1>2. ASSUME NEW status \in Statuses, WriteJob(WithStatus(job, status))
      PROVE  TypeOK'
  BY <1>1, <1>2, WithStatusType
<1>3. ASSUME Exchange
      PROVE  TypeOK'
  <2>1. ASSUME NEW terms \in SUBSET Criteria, NEW offer \in OrNone(Offers), Propose(terms, offer)
        PROVE  TypeOK'
    BY <1>1, <2>1, ProposedType DEF Propose
  <2>2. ASSUME NEW criterion \in Criteria, NEW party \in Parties, AcceptCriterion(criterion, party)
        PROVE  TypeOK'
    BY <1>1, <2>2, AcceptedType DEF AcceptCriterion
  <2>3. ASSUME NEW party \in Parties, AcceptPrice(party)
        PROVE  TypeOK'
    <3>1. PriceAccepted(job, party) \in Jobs
      BY DEF PriceAccepted, Jobs
    <3> QED
      BY <1>1, <2>3, <3>1 DEF AcceptPrice
  <2>4. CASE Confirm
    <3>1. settled["deposit"] \in Settlements
      BY <2>4 DEF Confirm, IsSettled, OrNone, Legs
    <3> DEFINE rail == IF job.rail = None THEN settled["deposit"].rail ELSE job.rail
    <3>2. rail \in OrNone(Rails)
      BY <3>1 DEF Jobs, Settlements, OrNone
    <3> HIDE DEF rail
    <3>3. [job EXCEPT !.rail = rail] \in Jobs
      BY <3>2 DEF Jobs
    <3>4. WithDepositRail \in Jobs
      BY <3>3 DEF WithDepositRail, rail
    <3> QED
      BY <1>1, <2>4, <3>4, ConfirmedType DEF Confirm
  <2>5. CASE Withdraw
    BY <1>2, <2>5 DEF Withdraw, Statuses
  <2>6. CASE Decline
    BY <1>2, <2>6 DEF Decline, Statuses
  <2> QED
    BY <1>3, <2>1, <2>2, <2>3, <2>4, <2>5, <2>6 DEF Exchange
<1>4. ASSUME Payment
      PROVE  TypeOK'
  <2>1. ASSUME NEW leg \in Legs, NEW rail \in Rails, Settle(leg, rail), job.price # None
        PROVE  TypeOK'
    <3>1. [rail |-> rail, price |-> job.price, at |-> today] \in Settlements
      BY <2>1 DEF Settlements, Jobs, OrNone
    <3> QED
      BY <2>1, <3>1 DEF Settle, OrNone
  <2>2. ASSUME NEW leg \in Legs, NEW hold \in OrNone(Holds), Hold(leg, hold)
        PROVE  TypeOK'
    BY <2>2 DEF Hold
  <2>3. ASSUME NEW rail \in Rails, NEW waits \in BOOLEAN, job.price # None
        PROVE  [rail |-> rail, price |-> job.price, awaitingOwner |-> waits] \in OrNone(Holds)
    BY <2>3 DEF Holds, Jobs, OrNone
  <2>4. ASSUME NEW leg \in Legs, NEW rail \in Rails, PaySettles(leg, rail)
        PROVE  TypeOK'
    BY <2>1, <2>4 DEF PaySettles, DoorOpen
  <2>5. ASSUME NEW leg \in Legs, NEW rail \in Rails, PayHalf(leg, rail)
        PROVE  TypeOK'
    BY <2>2, <2>3, <2>5 DEF PayHalf, DoorOpen
  <2>6. ASSUME NEW leg \in Legs, NEW rail \in Rails, PayForgotten(leg, rail)
        PROVE  TypeOK'
    BY <2>2, <2>6 DEF PayForgotten, OrNone
  <2>7. ASSUME NEW leg \in Legs, "abt_eth" \in Rails, PayShort(leg)
        PROVE  TypeOK'
    BY <2>2, <2>3, <2>7 DEF PayShort, DoorOpen
  <2>8. ASSUME NEW leg \in Legs, AcceptShort(leg)
        PROVE  TypeOK'
    <3>1. held[leg] \in Holds /\ job.price # None /\ held[leg].rail = "abt_eth"
      BY <2>8, HoldsArePriced, NoneAssumption DEF AcceptShort, AwaitsOwner, IInv, ShortOnEthereum
    <3>2. "abt_eth" \in Rails
      BY <3>1 DEF Holds
    <3> QED
      BY <2>1, <2>8, <3>1, <3>2 DEF AcceptShort
  <2> QED
    BY <1>4, <2>4, <2>5, <2>6, <2>7, <2>8 DEF Payment
<1>5. ASSUME CompleteMerged, pr # None
      PROVE  TypeOK'
  <2>1. Completed(job, MergeInstant) \in Jobs
    BY <1>5, MergeInstantType, CompletedType
  <2> QED
    BY <2>1, <1>5 DEF CompleteMerged, Credentials, OrNone
<1>6. ASSUME Delivery
      PROVE  TypeOK'
  <2>1. ASSUME NEW commit \in Commits, Stage(commit)
        PROVE  TypeOK'
    <3>1. Staged(job, commit, today) \in Jobs
      BY StagedType
    <3> QED
      BY <2>1, <3>1 DEF Stage
  <2>2. CASE StagedDecline
    BY <1>2, <2>2 DEF StagedDecline, Statuses
  <2>3. CASE RequestRedo
    <3>1. RedoRequested(job) \in Jobs
      BY RedoRequestedType
    <3> QED
      BY <1>1, <2>3, <3>1 DEF RequestRedo
  <2>4. CASE RefuseRedo
    BY <1>2, <2>4 DEF RefuseRedo, Statuses
  <2>5. CASE SubmitPullRequest
    <3>1. Submitted(job, today) \in Jobs
      BY SubmittedType
    <3>2. job.stagedCommit \in Commits
      <4>1. job.status = "staged"
        BY <2>5 DEF SubmitPullRequest, CanMove
      <4>2. job.stagedCommit # None
        BY <4>1 DEF IInv, StageOfHire, StagedStatuses
      <4> QED
        BY <4>2 DEF Jobs, OrNone
    <3> QED
      BY <2>5, <3>1, <3>2 DEF SubmitPullRequest, PullRequests, OrNone
  <2>6. CASE CitedClose
    BY <1>2, <2>6 DEF CitedClose, Statuses
  <2>7. CASE MergeRoute
    <3>1. pr # None
      BY <2>7 DEF MergeRoute, IInv, StageOfHire
    <3>2. UnmergedStatus \in Statuses
      BY DEF UnmergedStatus, Jobs, Statuses
    <3> QED
      BY <1>2, <1>5, <2>7, <3>1, <3>2 DEF MergeRoute
  <2> QED
    BY <1>6, <2>1, <2>2, <2>3, <2>4, <2>5, <2>6, <2>7 DEF Delivery
<1>7. ASSUME Load
      PROVE  TypeOK'
  <2>1. CASE LapseOnLoad
    <3>1. OnLoad \in Statuses
      BY <2>1, LoadMoves DEF LapseOnLoad, Statuses
    <3> QED
      BY <1>2, <2>1, <3>1 DEF LapseOnLoad, WriteJob
  <2>2. CASE DeemOnLoad
    <3>1. WithStatus(job, "deemed_completed") \in Jobs
      BY WithStatusType DEF Statuses
    <3> QED
      BY <2>2, <3>1 DEF DeemOnLoad, IssueDeemed, Credentials, OrNone
  <2>3. CASE CompleteOnLoad
    <3>1. job.status = "submitted"
      BY <2>3, LoadMoves DEF CompleteOnLoad
    <3> QED
      BY <1>5, <2>3, <3>1 DEF CompleteOnLoad, IInv, StageOfHire
  <2>4. CASE RetryDeemedCredential
    BY <2>4 DEF RetryDeemedCredential, IssueDeemed, Credentials, OrNone
  <2> QED
    BY <1>7, <2>1, <2>2, <2>3, <2>4 DEF Load
<1>8. ASSUME World
      PROVE  TypeOK'
  <2>1. ASSUME NEW next \in PullRequests, MovePullRequest(next)
        PROVE  TypeOK'
    BY <2>1 DEF MovePullRequest, OrNone
  <2>2. pr # None => pr \in PullRequests
    BY DEF OrNone
  <2>3. ASSUME NEW commit \in Commits, PushToPullRequest(commit)
        PROVE  TypeOK'
    BY <2>1, <2>2, <2>3 DEF PushToPullRequest, PullRequests
  <2>4. ASSUME NEW dated \in BOOLEAN, MergePullRequest(dated)
        PROVE  TypeOK'
    <3> DEFINE at == IF dated THEN today ELSE None
    <3>1. at \in OrNone(Nat)
      BY DEF OrNone
    <3> HIDE DEF at
    <3>2. [pr EXCEPT !.state = "merged", !.mergedAt = at] \in PullRequests
      BY <2>2, <2>4, <3>1 DEF MergePullRequest, PullRequests
    <3> QED
      BY <2>1, <2>4, <3>2 DEF MergePullRequest, at
  <2>5. CASE ClosePullRequest
    BY <2>1, <2>2, <2>5 DEF ClosePullRequest, PullRequests
  <2>6. CASE ReopenPullRequest
    BY <2>1, <2>2, <2>6 DEF ReopenPullRequest, PullRequests
  <2>7. CASE Tick
    BY <2>7 DEF Tick
  <2> QED
    BY <1>8, <2>3, <2>4, <2>5, <2>6, <2>7 DEF World
<1>9. CASE UNCHANGED vars
  BY <1>9 DEF vars
<1> QED
  BY <1>3, <1>4, <1>6, <1>7, <1>8, <1>9 DEF Next

--------------------------------------------------------------------------------
(* The rest of the invariant. A step either rewrites the row and leaves the     *)
(* money alone, or moves the money and leaves the row alone; most of the first  *)
(* kind only move the status, and StatusStep says what such a move has to       *)
(* respect.                                                                     *)

Kept ==
    /\ StageOfHire
    /\ DepositMoney
    /\ RemainderMoney
    /\ ShortOnEthereum
    /\ AgreementSealed
    /\ EndingTellsPayment

\* The next row has this status and the terms, the hire and the delivery of the
\* present one.
OnlyMovesTo(status) ==
    /\ job'.status = status
    /\ job'.terms = job.terms /\ job'.signed = job.signed
    /\ job'.price = job.price /\ job'.rail = job.rail /\ job'.priceBy = job.priceBy
    /\ job'.spec = job.spec /\ job'.confirmedAt = job.confirmedAt
    /\ job'.stagedCommit = job.stagedCommit
    /\ job'.submittedAt = job.submittedAt

\* The next row is the present one, staged at this commit.
OnlyStages(commit) ==
    /\ job'.status = "staged"
    /\ job'.terms = job.terms /\ job'.signed = job.signed
    /\ job'.price = job.price /\ job'.rail = job.rail /\ job'.priceBy = job.priceBy
    /\ job'.spec = job.spec /\ job'.confirmedAt = job.confirmedAt
    /\ job'.stagedCommit = commit
    /\ job'.submittedAt = job.submittedAt

LEMMA StatusMoves ==
    ASSUME TypeOK
    PROVE  /\ \A status : job' = WithStatus(job, status) => OnlyMovesTo(status)
           /\ \A at : job' = Completed(job, at) => OnlyMovesTo("completed")
           /\ job' = RedoRequested(job) => OnlyMovesTo("redo_requested")
BY DEF TypeOK, Jobs, WithStatus, Completed, RedoRequested, OnlyMovesTo

\* Nothing of the row or of the money changes.
LEMMA WorldStep ==
    ASSUME Kept, UNCHANGED <<job, settled, held>>, pr # None => pr' # None
    PROVE  Kept'
BY DEF Kept, StageOfHire, Hired, DepositMoney, RemainderMoney, ShortOnEthereum, AgreementSealed,
       Agreed, SpecOf, EndingTellsPayment, IsSettled, IsHeld, AwaitsOwner

\* A status can move when no hold is left behind, the remainder's only while the
\* hire stays staged, and when the ending, if it is one, is true of the money.
LEMMA StatusStep ==
    ASSUME Kept, UNCHANGED <<settled, held>>, pr # None => pr' # None,
           NEW status, OnlyMovesTo(status),
           status \notin {"draft", "proposed", "confirmed", "submitted", "stale", "closed_unmerged"},
           ~IsHeld("deposit"),
           IF status \in StagedStatuses THEN job.status \in StagedStatuses
                                        ELSE ~AwaitsOwner("remainder"),
           status = "declined" => ~IsSettled("deposit"),
           status = "withdrawn" /\ ~Hired => ~IsSettled("deposit"),
           status \in {"closed_unpaid", "staged_declined"} => ~IsSettled("remainder"),
           status = "paid_undelivered" => IsSettled("remainder") /\ job.submittedAt = None
    PROVE  Kept'
<1> USE DEF OnlyMovesTo
<1>1. StageOfHire'
  BY DEF Kept, StageOfHire, Hired, StagedStatuses
<1>2. DepositMoney'
  BY DEF Kept, DepositMoney, IsSettled, IsHeld
<1>3. RemainderMoney'
  BY DEF Kept, RemainderMoney, IsSettled, IsHeld, AwaitsOwner, Hired
<1>4. ShortOnEthereum'
  BY DEF Kept, ShortOnEthereum, IsHeld, AwaitsOwner
<1>5. AgreementSealed'
  BY DEF Kept, AgreementSealed, Hired, Agreed, SpecOf, IsSettled
<1>6. EndingTellsPayment'
  BY DEF Kept, EndingTellsPayment, Hired, IsSettled
<1> QED
  BY <1>1, <1>2, <1>3, <1>4, <1>5, <1>6 DEF Kept

\* On a hire nothing holds the deposit; once the remainder settled, or outside of
\* staging, no payment waits on the owner.
LEMMA NothingHeld ==
    ASSUME Kept
    PROVE  /\ job.status # "proposed" => ~IsHeld("deposit")
           /\ IsSettled("remainder") \/ job.status \notin StagedStatuses => ~AwaitsOwner("remainder")
BY DEF Kept, DepositMoney, RemainderMoney, AwaitsOwner

LEMMA WithdrawStep ==
    ASSUME IInv, Withdraw
    PROVE  Kept'
<1> USE DEF IInv, Kept
<1>1. OnlyMovesTo("withdrawn") /\ UNCHANGED <<settled, held, pr>>
  BY StatusMoves DEF Withdraw, WriteJob
<1>2. job.status \in {"draft", "proposed", "confirmed", "submitted"}
  BY DEF Withdraw, CanWithdraw, CanMove, StageOfHire
<1>3. ~IsHeld("deposit")
  BY NothingHeld DEF Withdraw, DepositHolds
<1>4. ~Hired => ~IsSettled("deposit")
  BY <1>2 DEF Withdraw, CanWithdraw, StageOfHire, DepositMoney
<1>5. ~AwaitsOwner("remainder")
  BY <1>2, NothingHeld DEF StagedStatuses
<1> QED
  BY <1>1, <1>3, <1>4, <1>5, StatusStep DEF StagedStatuses

LEMMA DeclineStep ==
    ASSUME IInv, Decline
    PROVE  Kept'
<1> USE DEF IInv, Kept
<1>1. OnlyMovesTo("declined") /\ UNCHANGED <<settled, held, pr>>
  BY StatusMoves DEF Decline, WriteJob
<1>2. job.status \in {"draft", "proposed", "confirmed", "submitted"} /\ ~IsSettled("deposit")
  BY DEF Decline, CanDecline, CanMove, StageOfHire
<1>3. ~IsHeld("deposit")
  BY NothingHeld DEF Decline, DepositHolds
<1>4. ~AwaitsOwner("remainder")
  BY <1>2, NothingHeld DEF StagedStatuses
<1> QED
  BY <1>1, <1>2, <1>3, <1>4, StatusStep DEF StagedStatuses

LEMMA StagedDeclineStep ==
    ASSUME IInv, StagedDecline
    PROVE  Kept'
<1> USE DEF IInv, Kept
<1>1. OnlyMovesTo("staged_declined") /\ UNCHANGED <<settled, held, pr>>
  BY StatusMoves DEF StagedDecline, WriteJob
<1>2. job.status = "staged" /\ ~IsSettled("remainder") /\ ~AwaitsOwner("remainder")
  BY DEF StagedDecline, CanMove, BalanceUntouched, AwaitsOwner
<1>3. ~IsHeld("deposit")
  BY <1>2, NothingHeld
<1> QED
  BY <1>1, <1>2, <1>3, StatusStep DEF StagedStatuses

LEMMA RedoSteps ==
    ASSUME IInv, RequestRedo \/ RefuseRedo
    PROVE  Kept'
<1> USE DEF IInv, Kept
<1>1. job.status \in StagedStatuses
  BY DEF RequestRedo, CanRequestRedo, CanMove, RefuseRedo, CanRefuseRedo, StagedStatuses
<1>2. \E status \in StagedStatuses : OnlyMovesTo(status)
  BY StatusMoves DEF RequestRedo, RefuseRedo, WriteJob, StagedStatuses
<1>3. UNCHANGED <<settled, held, pr>>
  BY DEF RequestRedo, RefuseRedo, WriteJob
<1>4. ~IsHeld("deposit")
  BY <1>1, NothingHeld DEF StagedStatuses
<1> QED
  BY <1>1, <1>2, <1>3, <1>4, StatusStep DEF StagedStatuses

\* The stale mark has no way in: the review window has passed by its day, and a
\* request on a row the clocks would move is refused.
LEMMA NoStaleMark ==
    ASSUME IInv, Fresh, job.status = "submitted"
    PROVE  ~(today >= Deadline(job))
<1>1. job.submittedAt \in Nat /\ today \in Nat
  BY DEF IInv, TypeOK, Jobs, StageOfHire, OrNone
<1>2. ~DeemWindowHasPassed(job, today)
  BY DEF Fresh, OnLoad, LapsedStatus, ExpireUnstaged, LapseAtStaged, LapseUndelivered,
         StagedStatuses
<1>3. today <= job.submittedAt + DeemCompletedAfter
  BY <1>1, <1>2, WindowsAssumption DEF DeemWindowHasPassed, DeemWindowEnd
<1> QED
  BY <1>1, <1>3, WindowsAssumption, ReviewBeforeStale DEF Deadline

LEMMA EndOfDeliveryStep ==
    ASSUME IInv, NEW status \in {"completed", "deemed_completed", "cited_closed"},
           OnlyMovesTo(status), UNCHANGED <<settled, held, pr>>,
           job.status \in {"staged", "submitted"},
           IsSettled("remainder") \/ job.status = "submitted"
    PROVE  Kept'
<1> USE DEF IInv, Kept
<1>1. ~IsHeld("deposit") /\ ~AwaitsOwner("remainder")
  BY NothingHeld DEF StagedStatuses
<1> QED
  BY <1>1, StatusStep DEF StagedStatuses

LEMMA MergeRouteStep ==
    ASSUME IInv, MergeRoute
    PROVE  Kept'
<1>1. job.status = "submitted"
  BY DEF MergeRoute, IInv, StageOfHire
<1>2. CASE CompleteMerged
  <2>1. OnlyMovesTo("completed") /\ UNCHANGED <<settled, held, pr>>
    BY <1>2, StatusMoves DEF CompleteMerged, IInv
  <2> QED
    BY <1>1, <2>1, EndOfDeliveryStep
<1>3. CASE WriteJob(WithStatus(job, UnmergedStatus))
  <2>1. UnmergedStatus = job.status
    BY <1>1, NoStaleMark DEF MergeRoute, UnmergedStatus
  <2>2. job' = job /\ UNCHANGED <<settled, held, pr>>
    BY <1>3, <2>1 DEF WriteJob, WithStatus, IInv, TypeOK, Jobs
  <2> QED
    BY <2>2, WorldStep DEF IInv, Kept
<1> QED
  BY <1>2, <1>3 DEF MergeRoute

LEMMA CitedCloseStep ==
    ASSUME IInv, CitedClose
    PROVE  Kept'
<1>1. OnlyMovesTo("cited_closed") /\ UNCHANGED <<settled, held, pr>>
  BY StatusMoves DEF CitedClose, WriteJob, IInv
<1>2. job.status = "submitted"
  BY DEF CitedClose, CanMove
<1> QED
  BY <1>1, <1>2, EndOfDeliveryStep

LEMMA LoadStep ==
    ASSUME IInv, Load
    PROVE  Kept'
<1>1. CASE LapseOnLoad
  <2>1. OnlyMovesTo(OnLoad) /\ UNCHANGED <<settled, held, pr>>
    BY <1>1, StatusMoves DEF LapseOnLoad, IInv
  <2>2. \/ job.status = "confirmed" /\ OnLoad = "expired_unstaged"
        \/ /\ job.status \in StagedStatuses /\ OnLoad = "closed_unpaid"
           /\ ~IsSettled("remainder") /\ ~AwaitsOwner("remainder")
        \/ /\ job.status \in StagedStatuses /\ OnLoad = "paid_undelivered"
           /\ IsSettled("remainder")
    BY <1>1, LoadMoves DEF LapseOnLoad
  <2>3. ~IsHeld("deposit") /\ ~AwaitsOwner("remainder")
    BY <2>2, NothingHeld DEF IInv, Kept, StagedStatuses
  <2>4. job.status \in StagedStatuses => job.submittedAt = None
    BY DEF IInv, StageOfHire, StagedStatuses
  <2> QED
    BY <2>1, <2>2, <2>3, <2>4, StatusStep DEF IInv, Kept, StagedStatuses
<1>2. CASE DeemOnLoad \/ CompleteOnLoad
  <2>1. job.status = "submitted"
    BY <1>2, LoadMoves DEF DeemOnLoad, CompleteOnLoad
  <2>2. UNCHANGED <<settled, held, pr>>
    BY <1>2 DEF DeemOnLoad, CompleteOnLoad, CompleteMerged
  <2>3. \/ job' = job
        \/ OnlyMovesTo("deemed_completed")
        \/ OnlyMovesTo("completed")
    BY <1>2, StatusMoves DEF DeemOnLoad, CompleteOnLoad, CompleteMerged, IInv
  <2> QED
    BY <2>1, <2>2, <2>3, WorldStep, EndOfDeliveryStep DEF IInv, Kept
<1>3. CASE RetryDeemedCredential
  BY <1>3, WorldStep DEF RetryDeemedCredential, IInv, Kept
<1> QED
  BY <1>1, <1>2, <1>3 DEF Load

\* A row that is still being agreed, with nothing paid or held on it, can be any
\* proposal.
LEMMA ProposeStep ==
    ASSUME IInv, NEW terms, NEW offer, Propose(terms, offer)
    PROVE  Kept'
<1> USE DEF IInv, Kept
<1>1. UNCHANGED <<settled, held, pr>> /\ job.status \in {"draft", "proposed"}
      /\ ~IsSettled("deposit")
  BY DEF Propose, CanPropose, WriteJob
<1>2. ~Hired /\ ~IsHeld("deposit") /\ job.submittedAt = None
  BY <1>1, NothingHeld DEF Propose, DepositHolds, StageOfHire
<1>3. job'.status = "proposed" /\ job'.confirmedAt = None /\ job'.submittedAt = None
  BY <1>2, ProposedRow DEF TypeOK, Propose, WriteJob, Hired
<1>4. StageOfHire'
  BY <1>3 DEF StageOfHire, Hired, StagedStatuses
<1>5. DepositMoney' /\ RemainderMoney' /\ ShortOnEthereum'
  BY <1>1, <1>2 DEF DepositMoney, RemainderMoney, ShortOnEthereum, IsSettled, IsHeld, AwaitsOwner
<1>6. AgreementSealed' /\ EndingTellsPayment'
  BY <1>3 DEF AgreementSealed, EndingTellsPayment, Hired
<1> QED
  BY <1>4, <1>5, <1>6

LEMMA AcceptSteps ==
    ASSUME IInv,
           \/ \E criterion \in Criteria, party \in Parties : AcceptCriterion(criterion, party)
           \/ \E party \in Parties : AcceptPrice(party)
    PROVE  Kept'
<1> USE DEF IInv, Kept
<1>1. UNCHANGED <<settled, held, pr>> /\ job.status = "proposed"
  BY DEF AcceptCriterion, CanAcceptCriterion, AcceptPrice, CanAcceptPrice, WriteJob
<1>2. /\ job'.status = job.status /\ job'.confirmedAt = job.confirmedAt
      /\ job'.submittedAt = job.submittedAt
      /\ job'.price = job.price /\ job'.rail = job.rail
  BY DEF AcceptCriterion, AcceptPrice, WriteJob, CriterionAccepted, PriceAccepted, TypeOK, Jobs
<1>3. StageOfHire'
  BY <1>1, <1>2 DEF StageOfHire, Hired, StagedStatuses
<1>4. DepositMoney' /\ RemainderMoney' /\ ShortOnEthereum'
  BY <1>1, <1>2 DEF DepositMoney, RemainderMoney, ShortOnEthereum, IsSettled, IsHeld, AwaitsOwner,
     Hired, StageOfHire, StagedStatuses
<1>5. AgreementSealed' /\ EndingTellsPayment'
  BY <1>1, <1>2 DEF AgreementSealed, EndingTellsPayment, Hired, StageOfHire
<1> QED
  BY <1>3, <1>4, <1>5

\* Confirming pins the terms the deposit was paid on: its price is the row's, and
\* its rail is the row's or becomes it.
LEMMA ConfirmStep ==
    ASSUME IInv, Confirm
    PROVE  Kept'
<1> USE DEF IInv, Kept
<1> DEFINE filled == WithDepositRail
<1>1. UNCHANGED <<settled, held, pr>> /\ IsSettled("deposit")
      /\ CanConfirm(filled) /\ job' = Confirmed(filled, today)
  BY DEF Confirm, WriteJob
<1>2. settled["deposit"] \in Settlements
  BY <1>1 DEF TypeOK, IsSettled, OrNone, Legs
<1>3. /\ filled.status = job.status /\ filled.price = job.price
      /\ filled.rail = settled["deposit"].rail
      /\ filled.submittedAt = job.submittedAt
      /\ DOMAIN filled = DOMAIN NewJob
  BY <1>1 DEF WithDepositRail, TypeOK, Jobs, DepositMoney, NewJob
<1>4. job.status = "proposed" /\ Agreed(filled)
  BY <1>1, <1>3 DEF CanConfirm, CanMove
<1> HIDE DEF filled
<1>5. /\ job'.status = "confirmed" /\ job'.confirmedAt = today
      /\ job'.spec = SpecOf(filled) /\ job'.submittedAt = job.submittedAt
      /\ job'.terms = filled.terms /\ job'.signed = filled.signed
      /\ job'.price = filled.price /\ job'.priceBy = filled.priceBy /\ job'.rail = filled.rail
  BY <1>1, <1>3 DEF Confirmed, NewJob
<1>6. today # None
  BY NoneAssumption DEF TypeOK
<1>7. ~Hired /\ job.submittedAt = None /\ ~IsHeld("deposit")
  BY <1>1, <1>4 DEF StageOfHire, DepositMoney
<1>8. ~IsSettled("remainder") /\ ~IsHeld("remainder")
  BY <1>7 DEF RemainderMoney
<1>9. StageOfHire'
  BY <1>5, <1>6, <1>7 DEF StageOfHire, Hired, StagedStatuses
<1>10. DepositMoney'
  BY <1>1, <1>3, <1>5, <1>7 DEF DepositMoney, IsSettled, IsHeld
<1>11. RemainderMoney' /\ ShortOnEthereum'
  BY <1>1, <1>8 DEF RemainderMoney, ShortOnEthereum, IsSettled, IsHeld, AwaitsOwner
<1>12. AgreementSealed'
  <2>1. Agreed(job)' /\ (job.spec = SpecOf(job))'
    BY <1>4, <1>5 DEF Agreed, SpecOf
  <2>2. SpecOf(filled).price = job.price /\ SpecOf(filled).rail = settled["deposit"].rail
    BY <1>3 DEF SpecOf
  <2> QED
    BY <1>1, <1>5, <1>8, <2>1, <2>2 DEF AgreementSealed, IsSettled, Legs, DepositMoney
<1>13. EndingTellsPayment'
  BY <1>5, <1>7 DEF EndingTellsPayment
<1> QED
  BY <1>9, <1>10, <1>11, <1>12, <1>13

\* A hire has a rail, and its pinned price and rail are the row's.
LEMMA HiredTerms ==
    ASSUME IInv, Hired
    PROVE  job.rail # None /\ job.spec.price = job.price /\ job.spec.rail = job.rail
<1>1. job.spec = SpecOf(job) /\ IsSettled("deposit")
      /\ settled["deposit"].rail = job.spec.rail
  BY DEF IInv, AgreementSealed, Legs
<1>2. job.spec.price = job.price /\ job.spec.rail = job.rail
  BY <1>1 DEF SpecOf
<1>3. settled["deposit"] \in Settlements
  BY <1>1 DEF IInv, TypeOK, IsSettled, OrNone, Legs
<1>4. settled["deposit"].rail \in {"abt", "usdc", "abt_eth"}
  BY <1>3, RailsAssumption DEF Settlements
<1> QED
  BY <1>1, <1>2, <1>4, NoneAssumption

\* A leg that settles, for the price that stands and on the rail of the money
\* that is already there, on a row that is being agreed or staged.
LEMMA SettleStep ==
    ASSUME IInv, NEW leg \in Legs, NEW rail \in Rails, Settle(leg, rail),
           ~IsSettled(leg), job.price # None,
           IF leg = "deposit" THEN job.status = "proposed"
                              ELSE job.status \in StagedStatuses,
           job.rail \in {None, rail}
    PROVE  Kept'
<1> USE DEF IInv, Kept, Legs
<1>1. /\ UNCHANGED <<job, pr>>
      /\ settled' = [settled EXCEPT ![leg] = [rail |-> rail, price |-> job.price, at |-> today]]
      /\ held' = [held EXCEPT ![leg] = None]
  BY DEF Settle
<1>2. /\ settled'[leg] # None /\ settled'[leg].rail = rail /\ settled'[leg].price = job.price
      /\ held'[leg] = None
      /\ \A other \in Legs : other # leg =>
             settled'[other] = settled[other] /\ held'[other] = held[other]
  <2>1. [rail |-> rail, price |-> job.price, at |-> today] # None
    <3>1. [rail |-> rail, price |-> job.price, at |-> today] \in Settlements
      BY DEF TypeOK, Settlements, Jobs, OrNone
    <3> QED
      BY <3>1, RowsAssumption
  <2> QED
    BY <1>1, <2>1 DEF TypeOK
<1>3. leg = "remainder" => Hired /\ ~IsHeld("deposit")
  BY NothingHeld DEF StageOfHire, StagedStatuses
<1>4. StageOfHire'
  BY <1>1 DEF StageOfHire, Hired, StagedStatuses
<1>5. DepositMoney'
  BY <1>1, <1>2, <1>3 DEF DepositMoney, IsSettled, IsHeld
<1>6. RemainderMoney'
  BY <1>1, <1>2, <1>3 DEF RemainderMoney, IsSettled, IsHeld, AwaitsOwner, Hired
<1>7. ShortOnEthereum'
  BY <1>2 DEF ShortOnEthereum, IsHeld, AwaitsOwner
<1>8. AgreementSealed'
  <2> SUFFICES ASSUME Hired
               PROVE  AgreementSealed'
    BY <1>1 DEF AgreementSealed, Hired
  <2>1. /\ Agreed(job) /\ job.spec = SpecOf(job) /\ IsSettled("deposit")
        /\ \A other \in Legs : IsSettled(other) =>
               settled[other].price = job.spec.price /\ settled[other].rail = job.spec.rail
    BY DEF AgreementSealed
  <2>2. job.rail = rail /\ job.spec.price = job.price /\ job.spec.rail = job.rail
    BY HiredTerms
  <2>3. \A other \in Legs : IsSettled(other)' =>
               settled'[other].price = job.spec.price /\ settled'[other].rail = job.spec.rail
    BY <1>2, <2>1, <2>2 DEF IsSettled
  <2>4. IsSettled("deposit")'
    BY <1>2, <2>1 DEF IsSettled
  <2> QED
    BY <1>1, <2>1, <2>3, <2>4 DEF AgreementSealed, Agreed, SpecOf
<1>9. EndingTellsPayment'
  BY <1>1, <1>2 DEF EndingTellsPayment, Hired, IsSettled, StageOfHire, StagedStatuses
<1> QED
  BY <1>4, <1>5, <1>6, <1>7, <1>8, <1>9

\* A hold that appears is paid at the price that stands and in the row's rail, and
\* one that disappears leaves nothing to say.
LEMMA HoldStep ==
    ASSUME IInv, NEW leg \in Legs, NEW hold, Hold(leg, hold), ~IsSettled(leg),
           hold # None =>
               /\ IF leg = "deposit" THEN job.status = "proposed"
                                     ELSE job.status \in StagedStatuses
               /\ job.price # None
               /\ hold.price = job.price
               /\ job.rail \in {None, hold.rail}
               /\ hold.awaitingOwner => hold.rail = "abt_eth"
    PROVE  Kept'
<1> USE DEF IInv, Kept, Legs
<1>1. /\ UNCHANGED <<job, settled, pr>>
      /\ held' = [held EXCEPT ![leg] = hold]
  BY DEF Hold
<1>2. /\ held'[leg] = hold
      /\ \A other \in Legs : other # leg => held'[other] = held[other]
  BY <1>1 DEF TypeOK
<1>3. leg = "remainder" /\ hold # None => Hired /\ job.rail = hold.rail
  <2>1. job.status \in StagedStatuses => Hired
    BY DEF StageOfHire, StagedStatuses
  <2>2. Hired => job.rail # None
    BY HiredTerms
  <2> QED
    BY <2>1, <2>2
<1>4. StageOfHire'
  BY <1>1 DEF StageOfHire, Hired, StagedStatuses
<1>5. DepositMoney'
  BY <1>1, <1>2 DEF DepositMoney, IsSettled, IsHeld
<1>6. RemainderMoney'
  BY <1>1, <1>2, <1>3 DEF RemainderMoney, IsSettled, IsHeld, AwaitsOwner, Hired
<1>7. ShortOnEthereum'
  BY <1>1, <1>2 DEF ShortOnEthereum, IsHeld, AwaitsOwner
<1>8. AgreementSealed' /\ EndingTellsPayment'
  BY <1>1 DEF AgreementSealed, Hired, Agreed, SpecOf, IsSettled, EndingTellsPayment
<1> QED
  BY <1>4, <1>5, <1>6, <1>7, <1>8

LEMMA PaymentStep ==
    ASSUME IInv, Payment
    PROVE  Kept'
<1> USE DEF IInv
<1>1. ASSUME NEW leg \in Legs, NEW rail, DoorOpen(leg, rail)
      PROVE  /\ ~IsSettled(leg) /\ job.price # None /\ job.rail \in {None, rail}
             /\ IF leg = "deposit" THEN job.status = "proposed"
                                   ELSE job.status \in StagedStatuses
  BY <1>1 DEF DoorOpen, LegStatusEligible
<1>2. ASSUME NEW leg \in Legs, NEW rail \in Rails, PaySettles(leg, rail)
      PROVE  Kept'
  BY <1>1, <1>2, SettleStep DEF PaySettles
<1>3. ASSUME NEW leg \in Legs, NEW rail \in Rails, PayHalf(leg, rail)
      PROVE  Kept'
  <2> DEFINE hold == [rail |-> rail, price |-> job.price, awaitingOwner |-> FALSE]
  <2>1. Hold(leg, hold) /\ hold.price = job.price /\ hold.rail = rail /\ ~hold.awaitingOwner
    BY <1>3 DEF PayHalf
  <2> HIDE DEF hold
  <2> QED
    BY <1>1, <1>3, <2>1, HoldStep DEF PayHalf
<1>4. ASSUME NEW leg \in Legs, NEW rail \in Rails, PayForgotten(leg, rail)
      PROVE  Kept'
  BY <1>1, <1>4, HoldStep DEF PayForgotten
<1>5. ASSUME NEW leg \in Legs, PayShort(leg)
      PROVE  Kept'
  <2> DEFINE hold == [rail |-> "abt_eth", price |-> job.price, awaitingOwner |-> TRUE]
  <2>1. Hold(leg, hold) /\ hold.price = job.price /\ hold.rail = "abt_eth"
    BY <1>5 DEF PayShort
  <2> HIDE DEF hold
  <2> QED
    BY <1>1, <1>5, <2>1, HoldStep DEF PayShort
<1>6. ASSUME NEW leg \in Legs, AcceptShort(leg)
      PROVE  Kept'
  <2>1. held[leg].price = job.price /\ held[leg] \in Holds /\ job.price \in Prices
    BY <1>6, HoldsArePriced DEF AcceptShort, AwaitsOwner
  <2>2. held[leg].rail = "abt_eth" /\ "abt_eth" \in Rails
    BY <1>6, <2>1 DEF AcceptShort, ShortOnEthereum, Holds
  <2>3. IF leg = "deposit" THEN job.status = "proposed" ELSE job.status \in StagedStatuses
    BY <1>6 DEF AcceptShort, AwaitsOwner, Legs, DepositMoney, RemainderMoney
  <2>4. job.rail \in {None, "abt_eth"}
    BY <1>6, <2>2 DEF AcceptShort, AwaitsOwner, Legs, DepositMoney, RemainderMoney
  <2> QED
    BY <1>6, <2>1, <2>2, <2>3, <2>4, SettleStep, NoneAssumption DEF AcceptShort
<1> QED
  BY <1>2, <1>3, <1>4, <1>5, <1>6 DEF Payment

LEMMA StageStep ==
    ASSUME IInv, NEW commit \in Commits, Stage(commit)
    PROVE  Kept'
<1> USE DEF IInv, Kept
<1>1. UNCHANGED <<settled, held, pr>>
  BY DEF Stage
<1>2. CASE job' = job
  BY <1>1, <1>2, WorldStep
<1>3. CASE job' = Staged(job, commit, today)
  <2>1. job.status \in {"confirmed", "redo_requested"}
    BY DEF Stage, CanMove
  <2>2. OnlyStages(commit)
    BY <1>3 DEF Staged, TypeOK, Jobs, OnlyStages
  <2>3. ~IsHeld("deposit") /\ commit # None
    BY <2>1, NothingHeld, NoneAssumption
  <2> USE DEF OnlyStages
  <2>4. StageOfHire'
    BY <1>1, <2>1, <2>2, <2>3 DEF StageOfHire, Hired, StagedStatuses
  <2>5. DepositMoney'
    BY <1>1, <2>2, <2>3 DEF DepositMoney, IsSettled, IsHeld
  <2>6. RemainderMoney'
    BY <1>1, <2>2 DEF RemainderMoney, IsSettled, IsHeld, AwaitsOwner, Hired, StagedStatuses
  <2>7. ShortOnEthereum'
    BY <1>1 DEF ShortOnEthereum, IsHeld, AwaitsOwner
  <2>8. AgreementSealed'
    BY <1>1, <2>2 DEF AgreementSealed, Hired, Agreed, SpecOf, IsSettled
  <2>9. EndingTellsPayment'
    BY <1>1, <2>2 DEF EndingTellsPayment, IsSettled
  <2> QED
    BY <2>4, <2>5, <2>6, <2>7, <2>8, <2>9
<1> QED
  BY <1>2, <1>3 DEF Stage

LEMMA SubmitStep ==
    ASSUME IInv, SubmitPullRequest
    PROVE  Kept'
<1> USE DEF IInv, Kept
<1>1. /\ UNCHANGED <<settled, held>> /\ IsSettled("remainder")
      /\ job.status = "staged" /\ job' = Submitted(job, today)
  BY DEF SubmitPullRequest, CanMove
<1>2. pr' # None
  <2>1. job.stagedCommit \in Commits
    BY <1>1 DEF StageOfHire, StagedStatuses, TypeOK, Jobs, OrNone
  <2>2. pr' \in PullRequests
    BY <2>1 DEF SubmitPullRequest, PullRequests, OrNone
  <2> QED
    BY <2>2, RowsAssumption
<1>3. /\ job'.status = "submitted" /\ job'.submittedAt = today
      /\ job'.terms = job.terms /\ job'.signed = job.signed
      /\ job'.price = job.price /\ job'.rail = job.rail /\ job'.priceBy = job.priceBy
      /\ job'.spec = job.spec /\ job'.confirmedAt = job.confirmedAt
  BY <1>1 DEF Submitted, TypeOK, Jobs
<1>4. Hired /\ ~IsHeld("deposit") /\ ~IsHeld("remainder") /\ today # None
  BY <1>1, NothingHeld, NoneAssumption DEF StageOfHire, RemainderMoney, TypeOK
<1>5. StageOfHire'
  BY <1>2, <1>3, <1>4 DEF StageOfHire, Hired, StagedStatuses
<1>6. DepositMoney' /\ RemainderMoney' /\ ShortOnEthereum'
  BY <1>1, <1>3, <1>4 DEF DepositMoney, RemainderMoney, ShortOnEthereum, IsSettled, IsHeld,
     AwaitsOwner, Hired
<1>7. AgreementSealed'
  BY <1>1, <1>3 DEF AgreementSealed, Hired, Agreed, SpecOf, IsSettled
<1>8. EndingTellsPayment'
  BY <1>1, <1>3 DEF EndingTellsPayment, IsSettled
<1> QED
  BY <1>5, <1>6, <1>7, <1>8

LEMMA WorldSteps ==
    ASSUME IInv, World
    PROVE  Kept'
<1>1. UNCHANGED <<job, settled, held>>
  BY DEF World, PushToPullRequest, MergePullRequest, ClosePullRequest, ReopenPullRequest,
     MovePullRequest, Tick
<1>2. pr # None => pr' # None
  <2>1. ASSUME NEW next \in PullRequests, MovePullRequest(next)
        PROVE  pr' # None
    BY <2>1, RowsAssumption DEF MovePullRequest
  <2>2. pr # None => pr \in PullRequests
    BY DEF IInv, TypeOK, OrNone
  <2>3. ASSUME NEW commit \in Commits, PushToPullRequest(commit)
        PROVE  pr' # None
    BY <2>1, <2>2, <2>3 DEF PushToPullRequest, PullRequests
  <2>4. ASSUME NEW dated \in BOOLEAN, MergePullRequest(dated)
        PROVE  pr' # None
    <3> DEFINE at == IF dated THEN today ELSE None
    <3>1. at \in OrNone(Nat)
      BY DEF OrNone, IInv, TypeOK
    <3> HIDE DEF at
    <3>2. [pr EXCEPT !.state = "merged", !.mergedAt = at] \in PullRequests
      BY <2>2, <2>4, <3>1 DEF MergePullRequest, PullRequests
    <3> QED
      BY <2>1, <2>4, <3>2 DEF MergePullRequest, at
  <2>5. CASE ClosePullRequest
    BY <2>1, <2>2, <2>5 DEF ClosePullRequest, PullRequests
  <2>6. CASE ReopenPullRequest
    BY <2>1, <2>2, <2>6 DEF ReopenPullRequest, PullRequests
  <2>7. CASE Tick
    BY <2>7 DEF Tick
  <2> QED
    BY <2>3, <2>4, <2>5, <2>6, <2>7 DEF World
<1> QED
  BY <1>1, <1>2, WorldStep DEF IInv, Kept

--------------------------------------------------------------------------------
(* The theorems.                                                                *)

LEMMA InvariantInit == Init => IInv
<1> SUFFICES ASSUME Init PROVE IInv
  OBVIOUS
<1>1. TypeOK
  BY TypeInit
<1>2. \A leg \in Legs : ~IsSettled(leg) /\ ~IsHeld(leg)
  BY DEF Init, IsSettled, IsHeld
<1>3. job.status = "draft" /\ ~Hired /\ job.submittedAt = None
  BY DEF Init, NewJob, Hired
<1>4. StageOfHire /\ AgreementSealed /\ EndingTellsPayment
  BY <1>3 DEF StageOfHire, AgreementSealed, EndingTellsPayment, StagedStatuses
<1>5. DepositMoney /\ RemainderMoney /\ ShortOnEthereum
  BY <1>2 DEF DepositMoney, RemainderMoney, ShortOnEthereum, AwaitsOwner, Legs
<1> QED
  BY <1>1, <1>4, <1>5 DEF IInv

LEMMA InvariantStep == IInv /\ [Next]_vars => IInv'
<1> SUFFICES ASSUME IInv, [Next]_vars PROVE IInv'
  OBVIOUS
<1>1. TypeOK'
  BY TypeStep
<1>2. Kept'
  <2>1. CASE Exchange
    BY <2>1, ProposeStep, AcceptSteps, ConfirmStep, WithdrawStep, DeclineStep DEF Exchange
  <2>2. CASE Payment
    BY <2>2, PaymentStep
  <2>3. CASE Delivery
    BY <2>3, StageStep, StagedDeclineStep, RedoSteps, SubmitStep, CitedCloseStep, MergeRouteStep
       DEF Delivery
  <2>4. CASE Load
    BY <2>4, LoadStep
  <2>5. CASE World
    BY <2>5, WorldSteps
  <2>6. CASE UNCHANGED vars
    BY <2>6, WorldStep DEF vars, IInv, Kept
  <2> QED
    BY <2>1, <2>2, <2>3, <2>4, <2>5, <2>6 DEF Next
<1> QED
  BY <1>1, <1>2 DEF IInv, Kept

\* Every reachable state satisfies the inductive invariant.
THEOREM HireInvariant == Spec => []IInv
<1> QED
  BY InvariantInit, InvariantStep, PTL DEF Spec

\* Every row the routes, the clocks and the doors write is a row of its table.
THEOREM HireIsTyped == Spec => []TypeOK
<1>1. IInv => TypeOK
  BY DEF IInv
<1> QED
  BY <1>1, HireInvariant, PTL

\* A confirmed hire stays the agreement both parties signed and the deposit paid.
THEOREM HireIsSealed == Spec => []AgreementSealed
<1>1. IInv => AgreementSealed
  BY DEF IInv
<1> QED
  BY <1>1, HireInvariant, PTL

\* The ending a hire records is true of the money that settled on it.
THEOREM HireEndsTruthfully == Spec => []EndingTellsPayment
<1>1. IInv => EndingTellsPayment
  BY DEF IInv
<1> QED
  BY <1>1, HireInvariant, PTL

\* No row is ever marked stale, whatever the windows, as long as the review window
\* is the shorter one.
THEOREM HireIsNeverStale == Spec => []NeverStale
<1>1. IInv => NeverStale
  BY DEF IInv, StageOfHire, NeverStale
<1> QED
  BY <1>1, HireInvariant, PTL

LEMMA SealStep ==
    ASSUME IInv, [Next]_vars, IsSettled("deposit")
    PROVE  /\ job'.terms = job.terms
           /\ job'.price = job.price
           /\ job.signed \subseteq job'.signed
           /\ job.priceBy \subseteq job'.priceBy
           /\ job'.rail \in {job.rail, settled["deposit"].rail}
<1> DEFINE Sealed ==
           /\ job'.terms = job.terms
           /\ job'.price = job.price
           /\ job.signed \subseteq job'.signed
           /\ job.priceBy \subseteq job'.priceBy
           /\ job'.rail \in {job.rail, settled["deposit"].rail}
<1>1. ASSUME NEW status, OnlyMovesTo(status)
      PROVE  Sealed
  BY <1>1 DEF OnlyMovesTo
<1>2. CASE job' = job
  BY <1>2
<1>3. CASE Exchange
  <2>1. ASSUME NEW terms, NEW offer, Propose(terms, offer)
        PROVE  Sealed
    BY <2>1 DEF Propose, CanPropose
  <2>2. ASSUME NEW criterion, NEW party, AcceptCriterion(criterion, party)
        PROVE  Sealed
    BY <2>2 DEF AcceptCriterion, WriteJob, CriterionAccepted, IInv, TypeOK, Jobs
  <2>3. ASSUME NEW party, AcceptPrice(party)
        PROVE  Sealed
    BY <2>3 DEF AcceptPrice, WriteJob, PriceAccepted, IInv, TypeOK, Jobs
  <2>4. CASE Confirm
    BY <2>4 DEF Confirm, WriteJob, Confirmed, WithDepositRail, IInv, TypeOK, Jobs
  <2>5. CASE Withdraw \/ Decline
    BY <1>1, <2>5, StatusMoves DEF Withdraw, Decline, WriteJob, IInv
  <2> QED
    BY <1>3, <2>1, <2>2, <2>3, <2>4, <2>5 DEF Exchange
<1>4. CASE Payment
  BY <1>2, <1>4 DEF Payment, PaySettles, PayHalf, PayForgotten, PayShort, AcceptShort, Settle, Hold
<1>5. CASE Delivery
  <2>1. ASSUME NEW commit, Stage(commit)
        PROVE  Sealed
    BY <1>2, <2>1 DEF Stage, Staged, IInv, TypeOK, Jobs
  <2>2. CASE SubmitPullRequest
    BY <2>2 DEF SubmitPullRequest, Submitted, IInv, TypeOK, Jobs
  <2>3. CASE StagedDecline \/ RequestRedo \/ RefuseRedo \/ CitedClose \/ MergeRoute
    BY <1>1, <2>3, StatusMoves
       DEF StagedDecline, RequestRedo, RefuseRedo, CitedClose, MergeRoute, CompleteMerged,
           WriteJob, IInv
  <2> QED
    BY <1>5, <2>1, <2>2, <2>3 DEF Delivery
<1>6. CASE Load
  BY <1>1, <1>2, <1>6, StatusMoves
     DEF Load, LapseOnLoad, DeemOnLoad, CompleteOnLoad, CompleteMerged, RetryDeemedCredential, IInv
<1>7. CASE World
  BY <1>2, <1>7 DEF World, PushToPullRequest, MergePullRequest, ClosePullRequest,
     ReopenPullRequest, MovePullRequest, Tick
<1> QED
  BY <1>2, <1>3, <1>4, <1>5, <1>6, <1>7 DEF Next, vars

\* Once the deposit settled nothing a route or a clock does changes the terms.
THEOREM HireTermsSealed == Spec => TermsSealedByDeposit
<1>1. IInv /\ [Next]_vars =>
        [IsSettled("deposit") =>
          /\ job'.terms = job.terms
          /\ job'.price = job.price
          /\ job.signed \subseteq job'.signed
          /\ job.priceBy \subseteq job'.priceBy
          /\ job'.rail \in {job.rail, settled["deposit"].rail}]_vars
  BY SealStep
<1> QED
  BY <1>1, HireInvariant, PTL DEF Spec, TermsSealedByDeposit

LEMMA FinishStep ==
    ASSUME IInv, [Next]_vars, NEW leg \in Legs,
           IsHeld(leg), ~IsSettled(leg), settled'[leg] # None
    PROVE  settled'[leg].rail = held[leg].rail /\ settled'[leg].price = held[leg].price
<1>1. settled[leg] = None
  BY DEF IsSettled
<1>2. held[leg].price = job.price
  BY HoldsArePriced
<1>3. ASSUME NEW other \in Legs, NEW rail, Settle(other, rail)
      PROVE  settled'[leg].rail = rail /\ settled'[leg].price = job.price /\ other = leg
  BY <1>1, <1>3 DEF Settle, IInv, TypeOK
<1>4. CASE Payment
  <2>1. ASSUME NEW other \in Legs, NEW rail \in Rails, PaySettles(other, rail)
        PROVE  settled'[leg].rail = held[leg].rail /\ settled'[leg].price = held[leg].price
    BY <1>2, <1>3, <2>1 DEF PaySettles, DoorOpen
  <2>2. ASSUME NEW other \in Legs, AcceptShort(other)
        PROVE  settled'[leg].rail = held[leg].rail /\ settled'[leg].price = held[leg].price
    BY <1>2, <1>3, <2>2 DEF AcceptShort, IInv, ShortOnEthereum
  <2>3. ASSUME UNCHANGED settled
        PROVE  FALSE
    BY <1>1, <2>3
  <2> QED
    BY <1>4, <2>1, <2>2, <2>3 DEF Payment, PayHalf, PayForgotten, PayShort, Hold
<1>5. CASE ~Payment
  <2>1. UNCHANGED settled
    <3>1. CASE Exchange
      BY <3>1 DEF Exchange, Propose, AcceptCriterion, AcceptPrice, Confirm, Withdraw, Decline, WriteJob
    <3>2. CASE Delivery
      BY <3>2 DEF Delivery, Stage, StagedDecline, RequestRedo, RefuseRedo, SubmitPullRequest,
         CitedClose, MergeRoute, CompleteMerged, WriteJob
    <3>3. CASE Load
      BY <3>3 DEF Load, LapseOnLoad, DeemOnLoad, CompleteOnLoad, CompleteMerged,
         RetryDeemedCredential
    <3>4. CASE World
      BY <3>4 DEF World, PushToPullRequest, MergePullRequest, ClosePullRequest,
         ReopenPullRequest, MovePullRequest, Tick
    <3>5. CASE UNCHANGED vars
      BY <3>5 DEF vars
    <3> QED
      BY <1>5, <3>1, <3>2, <3>3, <3>4, <3>5 DEF Next
  <2> QED
    BY <1>1, <2>1
<1> QED
  BY <1>4, <1>5

\* A payment that was begun is finished on its rail and at its price.
THEOREM HirePaymentFinished == Spec => PaymentFinishedAsStarted
<1>1. IInv /\ [Next]_vars =>
        [\A leg \in Legs :
          IsHeld(leg) /\ ~IsSettled(leg) /\ settled'[leg] # None =>
              /\ settled'[leg].rail = held[leg].rail
              /\ settled'[leg].price = held[leg].price]_vars
  BY FinishStep
<1> QED
  BY <1>1, HireInvariant, PTL DEF Spec, PaymentFinishedAsStarted

--------------------------------------------------------------------------------
(* The contract. Each step of the hire is a step of HireContract or leaves its  *)
(* four variables alone.                                                        *)

\* The phase a status stands for.
LEMMA PhaseOf ==
    IInv =>
        /\ job.status \in {"draft", "proposed"} => Phase = "terms"
        /\ job.status \in {"confirmed", "staged", "redo_requested"} => Phase = "hired"
        /\ job.status = "submitted" => Phase = "delivered"
        /\ IF job.status \in TerminalStatuses THEN Phase = "over" /\ Outcome = job.status
                                              ELSE Outcome = None
BY DEF IInv, StageOfHire, Phase, Outcome, Over, IsTerminal, TerminalStatuses

\* The moves of the status that leave the money alone.
LEMMA ContractMove ==
    ASSUME IInv, IInv', UNCHANGED settled,
           \/ job.status \in {"draft", "proposed"} /\ job'.status = "proposed"
           \/ job'.status = job.status /\ Phase' = Phase
           \/ /\ job.status \in {"confirmed", "staged", "redo_requested"}
              /\ job'.status \in StagedStatuses
           \/ job.status = "proposed" /\ job'.status = "confirmed"
           \/ job.status = "staged" /\ job'.status = "submitted"
           \/ /\ job.status \in {"draft", "proposed"} /\ ~IsSettled("deposit")
              /\ job'.status \in {"declined", "withdrawn"}
           \/ /\ job.status \in {"confirmed", "staged", "redo_requested"}
              /\ job'.status \in {"withdrawn", "expired_unstaged", "closed_unpaid",
                                  "staged_declined", "paid_undelivered"}
           \/ /\ job.status = "submitted"
              /\ job'.status \in {"withdrawn", "completed", "deemed_completed", "cited_closed"}
    PROVE  [Contract!Next]_(Contract!contractVars)
<1>1. UNCHANGED <<IsSettled("deposit"), IsSettled("remainder")>>
  BY DEF IsSettled
<1>2. /\ job.status \in {"draft", "proposed"} => Phase = "terms" /\ Outcome = None
      /\ job.status \in {"confirmed", "staged", "redo_requested"} =>
             Phase = "hired" /\ Outcome = None
      /\ job.status = "submitted" => Phase = "delivered" /\ Outcome = None
  BY PhaseOf DEF TerminalStatuses
<1>3. /\ job'.status \in {"draft", "proposed"} => Phase' = "terms" /\ Outcome' = None
      /\ job'.status \in {"confirmed", "staged", "redo_requested"} =>
             Phase' = "hired" /\ Outcome' = None
      /\ job'.status = "submitted" => Phase' = "delivered" /\ Outcome' = None
      /\ job'.status \in TerminalStatuses => Phase' = "over" /\ Outcome' = job'.status
  BY DEF IInv, StageOfHire, Phase, Outcome, Over, IsTerminal, TerminalStatuses, Hired
<1>4. CASE Phase' = Phase /\ Outcome' = Outcome
  BY <1>1, <1>4 DEF Contract!contractVars
<1>5. CASE job.status \in {"draft", "proposed"} /\ job'.status = "proposed"
  BY <1>2, <1>3, <1>4, <1>5
<1>6. CASE job'.status = job.status /\ Phase' = Phase
  BY <1>4, <1>6 DEF Outcome, Over
<1>7. CASE /\ job.status \in {"confirmed", "staged", "redo_requested"}
           /\ job'.status \in StagedStatuses
  BY <1>2, <1>3, <1>4, <1>7 DEF StagedStatuses
<1>8. CASE job.status = "proposed" /\ job'.status = "confirmed"
  <2>1. IsSettled("deposit")'
    BY <1>8 DEF IInv, StageOfHire, AgreementSealed
  <2>2. Contract!Hire
    BY <1>1, <1>2, <1>3, <1>8, <2>1 DEF Contract!Hire
  <2> QED
    BY <2>2 DEF Contract!Next
<1>9. CASE job.status = "staged" /\ job'.status = "submitted"
  <2>1. IsSettled("remainder")'
    BY <1>9 DEF IInv, StageOfHire, EndingTellsPayment
  <2>2. Contract!Deliver
    BY <1>1, <1>2, <1>3, <1>9, <2>1 DEF Contract!Deliver
  <2> QED
    BY <2>2 DEF Contract!Next
<1>10. ASSUME job'.status \in TerminalStatuses,
              \/ Phase = "terms" /\ ~IsSettled("deposit")
                 /\ job'.status \in Contract!UnpaidEndings
              \/ Phase = "hired" /\ job'.status \in Contract!HiredEndings(IsSettled("remainder"))
              \/ Phase = "delivered" /\ job'.status \in Contract!DeliveredEndings
       PROVE  Contract!Next
  <2>1. Contract!End(job'.status)
    BY <1>1, <1>3, <1>10 DEF Contract!End
  <2>2. IsSettled("remainder") \in BOOLEAN
    BY DEF IsSettled
  <2>3. job'.status \in Contract!UnpaidEndings \cup Contract!HiredEndings(TRUE)
            \cup Contract!HiredEndings(FALSE) \cup Contract!DeliveredEndings
    BY <1>10, <2>2 DEF Contract!HiredEndings
  <2> QED
    BY <2>1, <2>3 DEF Contract!Next
<1>11. CASE /\ job.status \in {"draft", "proposed"} /\ ~IsSettled("deposit")
            /\ job'.status \in {"declined", "withdrawn"}
  BY <1>2, <1>10, <1>11 DEF Contract!UnpaidEndings, TerminalStatuses
<1>12. CASE /\ job.status \in {"confirmed", "staged", "redo_requested"}
            /\ job'.status \in {"withdrawn", "expired_unstaged", "closed_unpaid",
                                "staged_declined", "paid_undelivered"}
  <2>1. /\ job'.status \in {"closed_unpaid", "staged_declined"} => ~IsSettled("remainder")
        /\ job'.status = "paid_undelivered" => IsSettled("remainder")
    BY <1>1 DEF IInv, EndingTellsPayment
  <2>2. job'.status \in Contract!HiredEndings(IsSettled("remainder"))
    BY <1>12, <2>1 DEF Contract!HiredEndings
  <2> QED
    BY <1>2, <1>10, <1>12, <2>2 DEF TerminalStatuses
<1>13. CASE /\ job.status = "submitted"
            /\ job'.status \in {"withdrawn", "completed", "deemed_completed", "cited_closed"}
  BY <1>2, <1>10, <1>13 DEF Contract!DeliveredEndings, TerminalStatuses
<1> QED
  BY <1>5, <1>6, <1>7, <1>8, <1>9, <1>11, <1>12, <1>13

\* A payment that settles its leg pays the deposit of terms or the balance of a
\* hire; one that does not changes nothing the contract speaks of.
LEMMA ContractPayment ==
    ASSUME IInv, Payment
    PROVE  [Contract!Next]_(Contract!contractVars)
<1>1. UNCHANGED job
  BY DEF Payment, PaySettles, PayHalf, PayForgotten, PayShort, AcceptShort, Settle, Hold
<1>2. UNCHANGED <<Phase, Outcome>>
  BY <1>1 DEF Phase, Outcome, Over, Hired
<1>3. CASE UNCHANGED settled
  BY <1>2, <1>3 DEF Contract!contractVars, IsSettled
<1>4. ASSUME NEW leg \in Legs, NEW rail \in Rails, Settle(leg, rail), ~IsSettled(leg),
             job.price # None,
             IF leg = "deposit" THEN job.status = "proposed" ELSE job.status \in StagedStatuses
      PROVE  Contract!Next
  <2>1. [rail |-> rail, price |-> job.price, at |-> today] # None
    <3>1. [rail |-> rail, price |-> job.price, at |-> today] \in Settlements
      BY <1>4 DEF IInv, TypeOK, Settlements, Jobs, OrNone
    <3> QED
      BY <3>1, RowsAssumption
  <2>2. IsSettled(leg)' /\ \A other \in Legs : other # leg => settled'[other] = settled[other]
    BY <1>4, <2>1 DEF Settle, IInv, TypeOK, IsSettled
  <2>3. CASE leg = "deposit"
    <3>1. Contract!PayDeposit
      BY <1>2, <1>4, <2>2, <2>3, PhaseOf DEF Contract!PayDeposit, IsSettled, Legs
    <3> QED
      BY <3>1 DEF Contract!Next
  <2>4. CASE leg = "remainder"
    <3>1. Contract!PayBalance
      BY <1>2, <1>4, <2>2, <2>4, PhaseOf DEF Contract!PayBalance, IsSettled, Legs, StagedStatuses
    <3> QED
      BY <3>1 DEF Contract!Next
  <2> QED
    BY <2>3, <2>4 DEF Legs
<1>5. ASSUME NEW leg \in Legs, NEW rail \in Rails, PaySettles(leg, rail)
      PROVE  Contract!Next
  BY <1>4, <1>5 DEF PaySettles, DoorOpen, LegStatusEligible
<1>6. ASSUME NEW leg \in Legs, AcceptShort(leg)
      PROVE  Contract!Next
  <2>1. held[leg].price = job.price /\ held[leg] \in Holds /\ job.price \in Prices
    BY <1>6, HoldsArePriced DEF AcceptShort, AwaitsOwner
  <2>2. "abt_eth" \in Rails
    BY <1>6, <2>1 DEF AcceptShort, IInv, ShortOnEthereum, Holds
  <2>3. IF leg = "deposit" THEN job.status = "proposed" ELSE job.status \in StagedStatuses
    BY <1>6 DEF AcceptShort, AwaitsOwner, Legs, IInv, DepositMoney, RemainderMoney
  <2> QED
    BY <1>4, <1>6, <2>1, <2>2, <2>3, NoneAssumption DEF AcceptShort
<1> QED
  BY <1>3, <1>5, <1>6 DEF Payment, PayHalf, PayForgotten, PayShort, Hold

LEMMA ContractStep == IInv /\ IInv' /\ [Next]_vars => [Contract!Next]_(Contract!contractVars)
<1> SUFFICES ASSUME IInv, IInv', [Next]_vars
             PROVE  [Contract!Next]_(Contract!contractVars)
  OBVIOUS
<1>1. CASE UNCHANGED <<job, settled>>
  BY <1>1, ContractMove DEF Phase, Over, Hired
<1>2. CASE Exchange
  <2> UNCHANGED settled
    BY <1>2 DEF Exchange, Propose, AcceptCriterion, AcceptPrice, Confirm, Withdraw, Decline, WriteJob
  <2>1. ASSUME NEW terms, NEW offer, Propose(terms, offer)
        PROVE  job.status \in {"draft", "proposed"} /\ job'.status = "proposed"
    BY <2>1, ProposedRow DEF Propose, CanPropose, WriteJob, IInv, TypeOK
  <2>2. ASSUME \/ \E criterion \in Criteria, party \in Parties : AcceptCriterion(criterion, party)
               \/ \E party \in Parties : AcceptPrice(party)
        PROVE  job.status \in {"draft", "proposed"} /\ job'.status = "proposed"
    BY <2>2 DEF AcceptCriterion, CanAcceptCriterion, AcceptPrice, CanAcceptPrice, WriteJob,
       CriterionAccepted, PriceAccepted, IInv, TypeOK, Jobs
  <2>3. ASSUME Confirm
        PROVE  job.status = "proposed" /\ job'.status = "confirmed"
    BY <2>3 DEF Confirm, CanConfirm, CanMove, WriteJob, Confirmed, WithDepositRail, IInv, TypeOK, Jobs
  <2>4. ASSUME Withdraw
        PROVE  /\ job'.status = "withdrawn"
               /\ \/ job.status \in {"draft", "proposed"} /\ ~IsSettled("deposit")
                  \/ job.status \in {"confirmed", "submitted"}
    <3>1. job'.status = "withdrawn"
      BY <2>4, StatusMoves DEF Withdraw, WriteJob, OnlyMovesTo, IInv
    <3>2. job.status \in {"draft", "proposed", "confirmed", "submitted"}
      BY <2>4 DEF Withdraw, CanWithdraw, CanMove, IInv, StageOfHire
    <3>3. job.status \in {"draft", "proposed"} => ~IsSettled("deposit")
      BY <2>4 DEF Withdraw, CanWithdraw, IInv, DepositMoney
    <3> QED
      BY <3>1, <3>2, <3>3
  <2>5. ASSUME Decline
        PROVE  /\ job'.status = "declined"
               /\ job.status \in {"draft", "proposed"} /\ ~IsSettled("deposit")
    <3>1. job'.status = "declined"
      BY <2>5, StatusMoves DEF Decline, WriteJob, OnlyMovesTo, IInv
    <3>2. job.status \in {"draft", "proposed", "confirmed", "submitted"} /\ ~IsSettled("deposit")
      BY <2>5 DEF Decline, CanDecline, CanMove, IInv, StageOfHire
    <3>3. ~Hired
      BY <3>2 DEF IInv, AgreementSealed
    <3>4. job.status \notin {"confirmed", "submitted"}
      BY <3>3 DEF IInv, StageOfHire
    <3> QED
      BY <3>1, <3>2, <3>4
  <2> QED
    BY <1>2, <2>1, <2>2, <2>3, <2>4, <2>5, ContractMove DEF Exchange
<1>3. CASE Payment
  BY <1>3, ContractPayment
<1>4. CASE Delivery
  <2> UNCHANGED settled
    BY <1>4 DEF Delivery, Stage, StagedDecline, RequestRedo, RefuseRedo, SubmitPullRequest,
       CitedClose, MergeRoute, CompleteMerged, WriteJob
  <2>1. ASSUME NEW commit \in Commits, Stage(commit), job' # job
        PROVE  job.status \in {"confirmed", "redo_requested"} /\ job'.status \in StagedStatuses
    BY <2>1 DEF Stage, CanMove, Staged, IInv, TypeOK, Jobs, StagedStatuses
  <2>2. ASSUME StagedDecline
        PROVE  job.status = "staged" /\ job'.status = "staged_declined"
    BY <2>2, StatusMoves DEF StagedDecline, CanMove, WriteJob, OnlyMovesTo, IInv
  <2>3. ASSUME RequestRedo \/ RefuseRedo
        PROVE  job.status \in {"staged", "redo_requested"} /\ job'.status \in StagedStatuses
    BY <2>3, StatusMoves DEF RequestRedo, CanRequestRedo, RefuseRedo, CanRefuseRedo, CanMove,
       WriteJob, OnlyMovesTo, IInv, StagedStatuses
  <2>4. ASSUME SubmitPullRequest
        PROVE  job.status = "staged" /\ job'.status = "submitted"
    BY <2>4 DEF SubmitPullRequest, CanMove, Submitted, IInv, TypeOK, Jobs
  <2>5. ASSUME CitedClose
        PROVE  job.status = "submitted" /\ job'.status = "cited_closed"
    BY <2>5, StatusMoves DEF CitedClose, CanMove, WriteJob, OnlyMovesTo, IInv
  <2>6. ASSUME MergeRoute, job' # job
        PROVE  job.status = "submitted" /\ job'.status = "completed"
    <3>1. job.status = "submitted"
      BY <2>6 DEF MergeRoute, IInv, StageOfHire
    <3>2. CASE CompleteMerged
      BY <3>1, <3>2, StatusMoves DEF CompleteMerged, OnlyMovesTo, IInv
    <3>3. CASE WriteJob(WithStatus(job, UnmergedStatus))
      <4>1. UnmergedStatus = job.status
        BY <2>6, <3>1, NoStaleMark DEF MergeRoute, UnmergedStatus
      <4>2. job' = job
        BY <3>3, <4>1 DEF WriteJob, WithStatus, IInv, TypeOK, Jobs
      <4> QED
        BY <2>6, <4>2
    <3> QED
      BY <2>6, <3>2, <3>3 DEF MergeRoute
  <2> QED
    BY <1>1, <1>4, <2>1, <2>2, <2>3, <2>4, <2>5, <2>6, ContractMove DEF Delivery
<1>5. CASE Load
  <2> UNCHANGED settled
    BY <1>5 DEF Load, LapseOnLoad, DeemOnLoad, CompleteOnLoad, CompleteMerged, RetryDeemedCredential
  <2>1. ASSUME LapseOnLoad
        PROVE  /\ job.status \in {"confirmed", "staged", "redo_requested"}
               /\ job'.status \in {"expired_unstaged", "closed_unpaid", "paid_undelivered"}
    BY <2>1, LoadMoves, StatusMoves DEF LapseOnLoad, OnlyMovesTo, StagedStatuses, IInv
  <2>2. ASSUME DeemOnLoad \/ CompleteOnLoad, job' # job
        PROVE  job.status = "submitted" /\ job'.status \in {"deemed_completed", "completed"}
    BY <2>2, LoadMoves, StatusMoves
       DEF DeemOnLoad, CompleteOnLoad, CompleteMerged, OnlyMovesTo, IInv
  <2> QED
    BY <1>1, <1>5, <2>1, <2>2, ContractMove DEF Load, RetryDeemedCredential
<1>6. CASE World
  BY <1>1, <1>6 DEF World, PushToPullRequest, MergePullRequest, ClosePullRequest,
     ReopenPullRequest, MovePullRequest, Tick
<1> QED
  BY <1>1, <1>2, <1>3, <1>4, <1>5, <1>6 DEF Next, vars

\* The hire implements its contract: every step of the routes, the doors, the
\* clocks and the world is a step the contract allows, or one it does not see.
THEOREM HireKeepsContract == Spec => KeepsContract
<1>1. Init => Contract!Init
  BY DEF Init, NewJob, Contract!Init, Phase, Outcome, Over, IsTerminal, TerminalStatuses, Hired,
     IsSettled, Legs
<1> QED
  BY <1>1, ContractStep, HireInvariant, PTL DEF Spec, KeepsContract, Contract!Spec

--------------------------------------------------------------------------------
(* The receipts. HonestReceipt speaks of rows that have ended; what it needs of *)
(* the others is that a commit is attested before the row names it, and that    *)
(* the credential of a deemed hire, which is written before the row, is written *)
(* when the review window is over: whatever merges from then on is dated after  *)
(* it.                                                                          *)

\* The commit a row names was attested, and what was submitted names one.
Attestation ==
    /\ job.stagedCommit # None => \E i \in DOMAIN attested : attested[i] = job.stagedCommit
    /\ job.submittedAt # None => job.stagedCommit # None
    /\ job.status \in {"completed", "deemed_completed"} => job.submittedAt # None

\* GitHub dates no merge ahead.
MergesArePast == pr # None /\ pr.mergedAt # None => pr.mergedAt <= today

\* GitHub dates a merge of the attested commit inside the review window.
MergeDatedInTime ==
    /\ pr.state = "merged" /\ AtAttestedCommit
    /\ pr.mergedAt # None /\ MergedInsideWindow(job, pr.mergedAt)

CompletedInEarnest ==
    /\ job.status = "completed" => pr.state = "merged" /\ AtAttestedCommit
    /\ credential = "workHistory" =>
           job.status = "completed" /\ MergedInsideWindow(job, job.mergedAt)

DeemedInEarnest ==
    job.status = "deemed_completed" \/ credential = "deemedCompletion" =>
        /\ job.status \in {"submitted", "deemed_completed"}
        /\ today > DeemWindowEnd(job)
        /\ ~MergeDatedInTime

Receipts == Attestation /\ MergesArePast /\ CompletedInEarnest /\ DeemedInEarnest

LEMMA ReceiptsAreHonest == IInv /\ Receipts => HonestReceipt
<1> SUFFICES ASSUME IInv, Receipts PROVE HonestReceipt
  OBVIOUS
<1>1. AttestedWork
  BY DEF Receipts, Attestation, CompletedInEarnest, AtAttestedCommit, AttestedWork
<1>2. credential = "workHistory" =>
          job.status = "completed" /\ job.mergedAt <= job.submittedAt + DeemCompletedAfter
  BY DEF Receipts, CompletedInEarnest, MergedInsideWindow, DeemWindowEnd
<1>3. credential = "deemedCompletion" =>
          /\ job.status # "completed"
          /\ ~(/\ pr.state = "merged" /\ pr.head = job.stagedCommit
               /\ pr.mergedAt # None
               /\ pr.mergedAt <= job.submittedAt + DeemCompletedAfter)
  BY DEF Receipts, DeemedInEarnest, MergeDatedInTime, AtAttestedCommit, MergedInsideWindow,
         DeemWindowEnd
<1> QED
  BY <1>1, <1>2, <1>3 DEF HonestReceipt

LEMMA SubmittedInstants ==
    ASSUME IInv, job.status = "submitted"
    PROVE  job.submittedAt \in Nat /\ today \in Nat /\ pr \in PullRequests
BY DEF IInv, TypeOK, Jobs, StageOfHire, OrNone

\* A request finds a submitted hire only while its review window is open.
LEMMA WindowIsOpen ==
    ASSUME IInv, Fresh, job.status = "submitted"
    PROVE  today <= DeemWindowEnd(job)
<1>1. ~DeemWindowHasPassed(job, today)
  BY DEF Fresh, OnLoad, LapsedStatus, ExpireUnstaged, LapseAtStaged, LapseUndelivered,
         StagedStatuses
<1> QED
  BY <1>1, SubmittedInstants, WindowsAssumption DEF DeemWindowHasPassed, DeemWindowEnd

\* No request that is served changes a row that has its receipt.
LEMMA NoReceiptYet ==
    ASSUME IInv, Receipts,
           \/ Fresh /\ job.status \notin {"completed", "deemed_completed"}
           \/ job.status \notin {"submitted", "completed", "deemed_completed"}
    PROVE  credential = None
<1>1. credential \in {"workHistory", "deemedCompletion", None}
  BY DEF IInv, TypeOK, OrNone, Credentials
<1>2. credential # "workHistory"
  BY DEF Receipts, CompletedInEarnest
<1>3. ASSUME credential = "deemedCompletion" PROVE FALSE
  <2>1. job.status = "submitted" /\ today > DeemWindowEnd(job) /\ Fresh
    BY <1>3 DEF Receipts, DeemedInEarnest
  <2>2. today <= DeemWindowEnd(job)
    BY <2>1, WindowIsOpen
  <2> QED
    BY <2>1, <2>2, SubmittedInstants, WindowsAssumption DEF DeemWindowEnd
<1> QED
  BY <1>1, <1>2, <1>3

\* The next row names the commit and the submission of the present one.
SameWork == job'.stagedCommit = job.stagedCommit /\ job'.submittedAt = job.submittedAt

\* A row without a receipt moves on, and not to a completion.
LEMMA QuietStep ==
    ASSUME Receipts, credential = None, UNCHANGED <<attested, pr, credential, today>>,
           SameWork, job'.status \notin {"completed", "deemed_completed"}
    PROVE  Receipts'
<1>1. Attestation' /\ MergesArePast'
  BY DEF Receipts, Attestation, MergesArePast, SameWork
<1>2. credential' \notin {"workHistory", "deemedCompletion"}
  BY RowsAssumption DEF Credentials
<1> QED
  BY <1>1, <1>2 DEF Receipts, CompletedInEarnest, DeemedInEarnest

LEMMA ExchangeReceipts ==
    ASSUME IInv, Receipts, Exchange
    PROVE  Receipts'
<1>1. UNCHANGED <<attested, pr, credential, today>>
  BY DEF Exchange, Propose, AcceptCriterion, AcceptPrice, Confirm, Withdraw, Decline, WriteJob
<1>2. Fresh /\ job.status \notin {"completed", "deemed_completed"}
  <2>1. ASSUME Confirm PROVE job.status = "proposed"
    BY <2>1 DEF Confirm, CanConfirm, CanMove, WithDepositRail, IInv, TypeOK, Jobs
  <2> QED
    BY <2>1 DEF Exchange, Propose, CanPropose, AcceptCriterion, CanAcceptCriterion, AcceptPrice,
       CanAcceptPrice, Confirm, Withdraw, CanWithdraw, Decline, CanDecline, CanMove
<1>3. SameWork /\ job'.status \notin {"completed", "deemed_completed"}
  <2>1. ASSUME NEW terms, NEW offer, Propose(terms, offer)
        PROVE  SameWork /\ job'.status = "proposed"
    BY <2>1, ProposedRow DEF Propose, WriteJob, SameWork, IInv, TypeOK
  <2>2. ASSUME \/ \E criterion \in Criteria, party \in Parties : AcceptCriterion(criterion, party)
               \/ \E party \in Parties : AcceptPrice(party)
        PROVE  SameWork /\ job'.status = "proposed"
    BY <2>2 DEF AcceptCriterion, CanAcceptCriterion, AcceptPrice, CanAcceptPrice, WriteJob,
       CriterionAccepted, PriceAccepted, SameWork, IInv, TypeOK, Jobs
  <2>3. ASSUME Confirm
        PROVE  SameWork /\ job'.status = "confirmed"
    BY <2>3 DEF Confirm, WriteJob, Confirmed, WithDepositRail, SameWork, IInv, TypeOK, Jobs
  <2>4. ASSUME Withdraw \/ Decline
        PROVE  SameWork /\ job'.status \in {"withdrawn", "declined"}
    BY <2>4, StatusMoves DEF Withdraw, Decline, WriteJob, OnlyMovesTo, SameWork, IInv
  <2> QED
    BY <2>1, <2>2, <2>3, <2>4 DEF Exchange
<1> QED
  BY <1>1, <1>2, <1>3, NoReceiptYet, QuietStep

LEMMA PaymentReceipts ==
    ASSUME Receipts, Payment
    PROVE  Receipts'
<1>1. UNCHANGED <<job, attested, pr, credential, today>>
  BY DEF Payment, PaySettles, PayHalf, PayForgotten, PayShort, AcceptShort, Settle, Hold
<1> QED
  BY <1>1 DEF Receipts, Attestation, MergesArePast, CompletedInEarnest, DeemedInEarnest,
     MergeDatedInTime, AtAttestedCommit, MergedInsideWindow, DeemWindowEnd

\* A merge that is recorded is one GitHub dates inside the window, or one observed inside it.
LEMMA CompleteReceipts ==
    ASSUME IInv, Receipts, CompleteMerged, job.status = "submitted",
           pr.state = "merged", AtAttestedCommit,
           MergedInsideWindow(job, MergeInstant),
           credential = None
    PROVE  Receipts'
<1>1. /\ job'.status = "completed" /\ job'.mergedAt = MergeInstant
      /\ SameWork
      /\ UNCHANGED <<attested, pr, today>>
      /\ credential' \in {None, "workHistory"}
  BY DEF CompleteMerged, Completed, SameWork, IInv, TypeOK, Jobs
<1>2. Attestation' /\ MergesArePast'
  BY <1>1, SubmittedInstants, NoneAssumption DEF Receipts, Attestation, MergesArePast, SameWork
<1>3. CompletedInEarnest'
  BY <1>1 DEF CompletedInEarnest, AtAttestedCommit, SameWork, MergedInsideWindow, DeemWindowEnd
<1>4. DeemedInEarnest'
  BY <1>1, RowsAssumption DEF DeemedInEarnest, Credentials
<1> QED
  BY <1>2, <1>3, <1>4 DEF Receipts

LEMMA DeliveryReceipts ==
    ASSUME IInv, Receipts, Delivery
    PROVE  Receipts'
<1>1. Fresh /\ job.status \notin {"completed", "deemed_completed"}
  BY DEF Delivery, Stage, StagedDecline, RequestRedo, CanRequestRedo, RefuseRedo, CanRefuseRedo,
     SubmitPullRequest, CitedClose, MergeRoute, CanMove
<1>2. credential = None
  BY <1>1, NoReceiptYet
<1>3. ASSUME NEW commit \in Commits, Stage(commit)
      PROVE  Receipts'
  <2>1. /\ UNCHANGED <<pr, credential, today>> /\ attested' = Append(attested, commit)
        /\ attested \in Seq(Commits)
    BY <1>3 DEF Stage, IInv, TypeOK
  <2>2. \/ SameWork /\ job'.status = job.status
        \/ /\ job'.stagedCommit = commit /\ job'.submittedAt = job.submittedAt
           /\ job'.status = "staged"
    BY <1>3 DEF Stage, Staged, SameWork, IInv, TypeOK, Jobs
  <2>3. /\ \E i \in DOMAIN attested' : attested'[i] = commit
        /\ \A c : (\E i \in DOMAIN attested : attested[i] = c) =>
                   \E i \in DOMAIN attested' : attested'[i] = c
    BY <2>1
  <2>4. Attestation'
    BY <1>1, <2>2, <2>3, NoneAssumption DEF Receipts, Attestation, SameWork
  <2>5. MergesArePast'
    BY <2>1 DEF Receipts, MergesArePast
  <2>6. CompletedInEarnest' /\ DeemedInEarnest'
    BY <1>1, <1>2, <2>1, <2>2, RowsAssumption DEF CompletedInEarnest, DeemedInEarnest, Credentials
  <2> QED
    BY <2>4, <2>5, <2>6 DEF Receipts
<1>4. ASSUME StagedDecline \/ RequestRedo \/ RefuseRedo \/ CitedClose
      PROVE  Receipts'
  <2>1. UNCHANGED <<attested, pr, credential, today>>
    BY <1>4 DEF StagedDecline, RequestRedo, RefuseRedo, CitedClose, WriteJob
  <2>2. \E status \in {"staged_declined", "redo_requested", "staged", "cited_closed"} :
            OnlyMovesTo(status)
    BY <1>4, StatusMoves DEF StagedDecline, RequestRedo, RefuseRedo, CitedClose, WriteJob, IInv
  <2> QED
    BY <1>2, <2>1, <2>2, QuietStep DEF OnlyMovesTo, SameWork
<1>5. ASSUME SubmitPullRequest
      PROVE  Receipts'
  <2>1. /\ UNCHANGED <<attested, credential, today>> /\ pr'.mergedAt = None
        /\ job'.status = "submitted" /\ job'.stagedCommit = job.stagedCommit
        /\ job.status = "staged"
    BY <1>5 DEF SubmitPullRequest, Submitted, CanMove, IInv, TypeOK, Jobs
  <2>2. job.stagedCommit # None
    BY <2>1 DEF IInv, StageOfHire, StagedStatuses
  <2>3. Attestation' /\ MergesArePast'
    BY <2>1, <2>2 DEF Receipts, Attestation, MergesArePast
  <2>4. CompletedInEarnest' /\ DeemedInEarnest'
    BY <1>2, <2>1, RowsAssumption DEF CompletedInEarnest, DeemedInEarnest, Credentials
  <2> QED
    BY <2>3, <2>4 DEF Receipts
<1>6. ASSUME MergeRoute
      PROVE  Receipts'
  <2>1. job.status = "submitted" /\ AtAttestedCommit
    BY <1>6 DEF MergeRoute, IInv, StageOfHire
  <2>2. today <= DeemWindowEnd(job)
    BY <1>1, <2>1, WindowIsOpen
  <2>3. CASE pr.state = "merged" /\ CompleteMerged
    <3>1. MergeInstant \in Nat /\ MergeInstant <= today
      BY <2>1, SubmittedInstants
         DEF MergeInstant, Receipts, MergesArePast, PullRequests, OrNone, IInv, StageOfHire
    <3>2. MergedInsideWindow(job, MergeInstant)
      BY <2>1, <2>2, <3>1, SubmittedInstants, WindowsAssumption DEF MergedInsideWindow, DeemWindowEnd
    <3> QED
      BY <1>2, <2>1, <2>3, <3>2, CompleteReceipts
  <2>4. CASE WriteJob(WithStatus(job, UnmergedStatus)) /\ pr.state # "merged"
    <3>1. UnmergedStatus = job.status
      BY <1>1, <2>1, NoStaleMark DEF UnmergedStatus
    <3>2. OnlyMovesTo("submitted") /\ UNCHANGED <<attested, pr, credential, today>>
      BY <2>1, <2>4, <3>1, StatusMoves DEF WriteJob, IInv
    <3> QED
      BY <1>2, <3>2, QuietStep DEF OnlyMovesTo, SameWork
  <2> QED
    BY <1>6, <2>3, <2>4 DEF MergeRoute
<1> QED
  BY <1>3, <1>4, <1>5, <1>6 DEF Delivery

\* A receipt the clocks write: the window is over, and GitHub was asked.
LEMMA LoadReceipts ==
    ASSUME IInv, Receipts, Load
    PROVE  Receipts'
<1>1. CASE LapseOnLoad
  <2>1. /\ job.status \in {"confirmed", "staged", "redo_requested"}
        /\ OnLoad \notin {"completed", "deemed_completed"}
    BY <1>1, LoadMoves DEF LapseOnLoad, StagedStatuses
  <2>2. OnlyMovesTo(OnLoad) /\ UNCHANGED <<attested, pr, credential, today>>
    BY <1>1, StatusMoves DEF LapseOnLoad, IInv
  <2>3. credential = None
    BY <2>1, NoReceiptYet
  <2> QED
    BY <2>1, <2>2, <2>3, QuietStep DEF OnlyMovesTo, SameWork
<1>2. ASSUME OnLoad = "deemed_completed", ~Fresh
      PROVE  job.status = "submitted" /\ today > DeemWindowEnd(job)
  <2>1. job.status = "submitted"
    BY <1>2, LoadMoves
  <2>2. DeemWindowHasPassed(job, today)
    BY <1>2, <2>1 DEF Fresh, OnLoad, LapsedStatus, ExpireUnstaged, LapseAtStaged,
       LapseUndelivered, StagedStatuses
  <2> QED
    BY <2>1, <2>2 DEF DeemWindowHasPassed
<1>3. ASSUME UNCHANGED <<attested, pr, today>>, IssueDeemed, SameWork,
             job.submittedAt # None, job.status \in {"submitted", "deemed_completed"},
             job'.status \in {"submitted", "deemed_completed"},
             today > DeemWindowEnd(job), ~MergeDatedInTime
      PROVE  Receipts'
  <2>1. Attestation' /\ MergesArePast'
    BY <1>3 DEF Receipts, Attestation, MergesArePast, SameWork
  <2>2. credential' # "workHistory"
    BY <1>3, RowsAssumption DEF IssueDeemed, Receipts, CompletedInEarnest, Credentials
  <2>3. CompletedInEarnest'
    BY <1>3, <2>2 DEF CompletedInEarnest
  <2>4. DeemedInEarnest'
    BY <1>3 DEF DeemedInEarnest, MergeDatedInTime, AtAttestedCommit, MergedInsideWindow,
       DeemWindowEnd, SameWork
  <2> QED
    BY <2>1, <2>3, <2>4 DEF Receipts
<1>4. CASE DeemOnLoad
  <2>1. job.status = "submitted" /\ today > DeemWindowEnd(job) /\ job.submittedAt # None
    BY <1>2, <1>4, SubmittedInstants, NoneAssumption DEF DeemOnLoad
  <2>2. ~MergeDatedInTime
    BY <1>4 DEF DeemOnLoad, MergedInTime, MergeDatedInTime, MergeInstant
  <2>3. SameWork /\ job'.status \in {"submitted", "deemed_completed"}
    BY <1>4, <2>1, StatusMoves DEF DeemOnLoad, OnlyMovesTo, SameWork, IInv
  <2> QED
    BY <1>3, <1>4, <2>1, <2>2, <2>3 DEF DeemOnLoad
<1>5. CASE CompleteOnLoad
  <2>1. job.status = "submitted" /\ today > DeemWindowEnd(job)
    BY <1>2, <1>5 DEF CompleteOnLoad
  <2>2. pr.state = "merged" /\ AtAttestedCommit /\ MergedInsideWindow(job, MergeInstant)
    BY <1>5 DEF CompleteOnLoad, MergedInTime
  <2>3. MergeDatedInTime
    <3>1. ~(today <= DeemWindowEnd(job))
      BY <2>1, SubmittedInstants, WindowsAssumption DEF DeemWindowEnd
    <3>2. pr.mergedAt # None
      BY <2>2, <3>1 DEF MergeInstant, MergedInsideWindow
    <3> QED
      BY <2>2, <3>2 DEF MergeDatedInTime, MergeInstant
  <2>4. credential = None
    <3>1. credential \in {"workHistory", "deemedCompletion", None}
      BY DEF IInv, TypeOK, OrNone, Credentials
    <3> QED
      BY <2>1, <2>3, <3>1 DEF Receipts, CompletedInEarnest, DeemedInEarnest
  <2> QED
    BY <1>5, <2>1, <2>2, <2>4, CompleteReceipts DEF CompleteOnLoad
<1>6. CASE RetryDeemedCredential
  <2>1. job.status = "deemed_completed" /\ job' = job /\ UNCHANGED <<attested, pr, today>>
    BY <1>6 DEF RetryDeemedCredential
  <2>2. today > DeemWindowEnd(job) /\ ~MergeDatedInTime /\ job.submittedAt # None
    BY <2>1 DEF Receipts, DeemedInEarnest, Attestation
  <2> QED
    BY <1>3, <1>6, <2>1, <2>2 DEF RetryDeemedCredential, SameWork
<1> QED
  BY <1>1, <1>4, <1>5, <1>6 DEF Load

\* What happens on GitHub, and the calendar.
LEMMA WorldReceipts ==
    ASSUME IInv, Receipts, World
    PROVE  Receipts'
<1> USE DEF Receipts, Attestation, MergesArePast, CompletedInEarnest, DeemedInEarnest,
            MergeDatedInTime, AtAttestedCommit, MergedInsideWindow, DeemWindowEnd
<1>1. pr # None => pr \in PullRequests
  BY DEF IInv, TypeOK, OrNone
<1>2. ASSUME NEW commit \in Commits, PushToPullRequest(commit)
      PROVE  Receipts'
  <2>1. /\ UNCHANGED <<job, attested, credential, today>>
        /\ pr.state = "open" /\ pr'.state = "open" /\ pr'.mergedAt = pr.mergedAt /\ pr # None
    BY <1>1, <1>2 DEF PushToPullRequest, MovePullRequest, PullRequests
  <2> QED
    BY <2>1
<1>3. ASSUME NEW dated \in BOOLEAN, MergePullRequest(dated)
      PROVE  Receipts'
  <2> DEFINE at == IF dated THEN today ELSE None
  <2>1. /\ UNCHANGED <<job, attested, credential, today>>
        /\ pr # None /\ pr.state = "open"
        /\ pr' = [pr EXCEPT !.state = "merged", !.mergedAt = at]
    BY <1>3 DEF MergePullRequest, MovePullRequest
  <2> HIDE DEF at
  <2>2. pr'.state = "merged" /\ pr'.mergedAt = at
    BY <1>1, <2>1 DEF PullRequests
  <2>3. at \in {today, None} /\ today \in Nat
    BY DEF at, IInv, TypeOK
  <2>4. job.status = "deemed_completed" \/ credential = "deemedCompletion" =>
            job.submittedAt # None /\ job.submittedAt \in OrNone(Nat)
    BY SubmittedInstants, NoneAssumption DEF IInv, TypeOK, Jobs
  <2>5. DeemedInEarnest'
    BY <2>1, <2>2, <2>3, <2>4, WindowsAssumption DEF OrNone
  <2> QED
    BY <2>1, <2>2, <2>3, <2>5
<1>4. ASSUME ClosePullRequest
      PROVE  Receipts'
  <2>1. /\ UNCHANGED <<job, attested, credential, today>>
        /\ pr.state = "open" /\ pr'.state = "closed" /\ pr'.mergedAt = pr.mergedAt /\ pr # None
    BY <1>1, <1>4 DEF ClosePullRequest, MovePullRequest, PullRequests
  <2> QED
    BY <2>1
<1>5. ASSUME ReopenPullRequest
      PROVE  Receipts'
  <2>1. /\ UNCHANGED <<job, attested, credential, today>>
        /\ pr.state = "closed" /\ pr'.state = "open" /\ pr'.mergedAt = pr.mergedAt /\ pr # None
    BY <1>1, <1>5 DEF ReopenPullRequest, MovePullRequest, PullRequests
  <2> QED
    BY <2>1
<1>6. ASSUME Tick
      PROVE  Receipts'
  <2>1. UNCHANGED <<job, attested, pr, credential>> /\ today' = today + 1 /\ today \in Nat
    BY <1>6 DEF Tick, IInv, TypeOK
  <2>2. MergesArePast'
    BY <1>1, <2>1 DEF PullRequests, OrNone
  <2>3. job.status = "deemed_completed" \/ credential = "deemedCompletion" =>
            job.submittedAt # None /\ job.submittedAt \in OrNone(Nat)
    BY SubmittedInstants, NoneAssumption DEF IInv, TypeOK, Jobs
  <2>4. DeemedInEarnest'
    BY <2>1, <2>3, WindowsAssumption DEF OrNone
  <2> QED
    BY <2>1, <2>2, <2>4
<1> QED
  BY <1>2, <1>3, <1>4, <1>5, <1>6 DEF World

LEMMA ReceiptsStep == IInv /\ Receipts /\ [Next]_vars => Receipts'
<1> SUFFICES ASSUME IInv, Receipts, [Next]_vars PROVE Receipts'
  OBVIOUS
<1>1. CASE UNCHANGED vars
  BY <1>1 DEF vars, Receipts, Attestation, MergesArePast, CompletedInEarnest, DeemedInEarnest,
     MergeDatedInTime, AtAttestedCommit, MergedInsideWindow, DeemWindowEnd
<1> QED
  BY <1>1, ExchangeReceipts, PaymentReceipts, DeliveryReceipts, LoadReceipts, WorldReceipts DEF Next

\* A receipt says what GitHub saw, in every reachable state: whichever of the row and the
\* credential was written, and whenever the merge came (completeMergedPullRequest,
\* issueDeemedCompletionCredentialIfMissing, POST /jobs/:jobId/merge).
THEOREM HireReceiptsAreHonest == Spec => []HonestReceipt
<1>1. Init => Receipts
  BY RowsAssumption DEF Init, NewJob, Receipts, Attestation, MergesArePast, CompletedInEarnest,
     DeemedInEarnest, Credentials
<1>2. Spec => []Receipts
  BY <1>1, ReceiptsStep, HireInvariant, PTL DEF Spec
<1> QED
  BY <1>2, ReceiptsAreHonest, HireInvariant, PTL

--------------------------------------------------------------------------------
(* The bound. A hire is staged within its first window, and staged again only   *)
(* after a redo: each round lasts no longer than the review of staged work with *)
(* every extension there is. Once the balance is paid the row's own instants    *)
(* stop mattering, and the windows of the paid hire begin.                      *)

\* The longest a staged hire waits before it is over, paid or staged again.
Round == LapseAtStagedAfter + RedoAllowance * RedoLapseExtension

\* Nothing was paid on the balance that would stop its clock.
Unpaid == ~IsSettled("remainder") /\ ~AwaitsOwner("remainder")

\* The instant of the last staging, and the round a redo has opened after it.
StagedInTime ==
    Unpaid =>
        /\ job.status = "staged" =>
               job.stagedAt <= job.confirmedAt + ExpireUnstagedAfter + job.redoUsed * Round
        /\ job.status = "redo_requested" =>
               job.stagedAt + Round
                   <= job.confirmedAt + ExpireUnstagedAfter + job.redoUsed * Round

Windows ==
    /\ job.status = "confirmed" => ~IsSettled("remainder")
    /\ job.status \in StagedStatuses => job.stagedAt # None
    /\ job.redoUsed <= RedoAllowance
    /\ job.extension = job.redoUsed * RedoLapseExtension
    /\ StagedInTime
    /\ job.status = "submitted" =>
           job.submittedAt <= settled["remainder"].at + UndeliveredAfterPaid

LEMMA Products ==
    ASSUME NEW u \in Nat, NEW n \in Nat, NEW c \in Nat
    PROVE  /\ u * c \in Nat
           /\ (u + 1) * c = u * c + c
           /\ u <= n => u * c <= n * c
OBVIOUS

\* The numbers a row on hire keeps.
LEMMA HireInstants ==
    ASSUME IInv, Windows
    PROVE  /\ today \in Nat /\ job.redoUsed \in Nat /\ job.extension \in Nat /\ Round \in Nat
           /\ job.redoUsed * Round \in Nat
           /\ job.extension <= RedoAllowance * RedoLapseExtension
           /\ Hired => job.confirmedAt \in Nat
           /\ job.status \in StagedStatuses => job.stagedAt \in Nat /\ job.confirmedAt \in Nat
           /\ job.status = "submitted" => job.submittedAt \in Nat
           /\ IsSettled("remainder") => settled["remainder"].at \in Nat
<1>1. Round \in Nat
  BY WindowsAssumption, Products DEF Round
<1>2. today \in Nat /\ job.redoUsed \in Nat /\ job.extension \in Nat
  BY DEF IInv, TypeOK, Jobs
<1>3. job.extension <= RedoAllowance * RedoLapseExtension
  BY <1>2, WindowsAssumption, Products DEF Windows
<1>4. Hired => job.confirmedAt \in Nat
  BY DEF IInv, TypeOK, Jobs, OrNone, Hired
<1>5. job.status \in StagedStatuses => job.stagedAt \in Nat /\ Hired
  BY DEF IInv, TypeOK, Jobs, OrNone, Windows, StageOfHire, StagedStatuses
<1>6. IsSettled("remainder") => settled["remainder"].at \in Nat
  BY DEF IInv, TypeOK, IsSettled, OrNone, Legs, Settlements
<1> QED
  BY <1>1, <1>2, <1>3, <1>4, <1>5, <1>6, SubmittedInstants, Products

\* A request finds an unpaid hire, and a staged and paid one, only inside its window.
LEMMA WindowsAreOpen ==
    ASSUME IInv, Windows, Fresh
    PROVE  /\ job.status = "confirmed" => today <= job.confirmedAt + ExpireUnstagedAfter
           /\ Unpaid /\ job.status \in StagedStatuses => today <= job.stagedAt + Round
           /\ IsSettled("remainder") /\ job.status \in StagedStatuses =>
                  today <= settled["remainder"].at + UndeliveredAfterPaid
<1> USE HireInstants, WindowsAssumption
<1>1. ASSUME job.status = "confirmed"
      PROVE  today <= job.confirmedAt + ExpireUnstagedAfter
  <2>1. ~ExpireUnstaged(job, today)
    BY <1>1 DEF Fresh, OnLoad, LapsedStatus
  <2>2. job.confirmedAt \in Nat
    BY <1>1 DEF IInv, StageOfHire
  <2> QED
    BY <1>1, <2>1, <2>2 DEF ExpireUnstaged
<1>2. ASSUME Unpaid, job.status \in StagedStatuses
      PROVE  today <= job.stagedAt + Round
  <2>1. ~LapseAtStaged(job, today, FALSE)
    BY <1>2 DEF Fresh, OnLoad, LapsedStatus, ExpireUnstaged, StagedStatuses, Unpaid, PaidAt
  <2>2. today <= job.stagedAt + LapseAtStagedAfter + job.extension
    BY <1>2, <2>1 DEF LapseAtStaged, Windows
  <2>3. RedoAllowance * RedoLapseExtension \in Nat
    BY Products
  <2> QED
    BY <1>2, <2>2, <2>3 DEF Round
<1>3. ASSUME IsSettled("remainder"), job.status \in StagedStatuses
      PROVE  today <= settled["remainder"].at + UndeliveredAfterPaid
  <2>1. PaidAt = settled["remainder"].at /\ PaidAt # None
    BY <1>3, NoneAssumption DEF PaidAt
  <2>2. ~LapseUndelivered(job, today, PaidAt)
    BY <1>3, <2>1 DEF Fresh, OnLoad, LapsedStatus, ExpireUnstaged, LapseAtStaged, StagedStatuses
  <2> QED
    BY <1>3, <2>1, <2>2 DEF LapseUndelivered
<1> QED
  BY <1>1, <1>2, <1>3

LEMMA WindowsBound == IInv /\ Windows => HireIsBounded
<1> SUFFICES ASSUME IInv, Windows, Hired, Fresh, ~Over, ~AwaitsOwner("remainder")
             PROVE  \/ ~IsSettled("remainder") /\ today <= job.confirmedAt + UnpaidLimit
                    \/ IsSettled("remainder") /\ today <= settled["remainder"].at + PaidLimit
  BY DEF HireIsBounded
<1> USE HireInstants, WindowsAssumption
<1> DEFINE Rounds == (RedoAllowance + 1) * Round
<1>1. /\ Rounds \in Nat /\ Rounds = RedoAllowance * Round + Round
      /\ RedoAllowance * Round \in Nat /\ job.redoUsed * Round <= RedoAllowance * Round
  BY Products DEF Windows
<1>2. UnpaidLimit = ExpireUnstagedAfter + Rounds
  BY DEF UnpaidLimit, Round
<1> HIDE DEF Rounds
<1>3. job.status \in {"confirmed", "submitted"} \cup StagedStatuses
  BY DEF Over, IsTerminal, TerminalStatuses, StagedStatuses, IInv, TypeOK, Jobs, Statuses, StageOfHire
<1>4. CASE job.status = "confirmed"
  BY <1>1, <1>2, <1>4, WindowsAreOpen DEF Windows
<1>5. CASE job.status \in StagedStatuses /\ ~IsSettled("remainder")
  <2>1. Unpaid
    BY <1>5 DEF Unpaid
  <2>2. job.stagedAt <= job.confirmedAt + ExpireUnstagedAfter + job.redoUsed * Round
    BY <1>5, <2>1 DEF Windows, StagedInTime, StagedStatuses
  <2>3. today <= job.stagedAt + Round
    BY <1>5, <2>1, WindowsAreOpen
  <2> QED
    BY <1>1, <1>2, <1>5, <2>2, <2>3
<1>6. CASE job.status \in StagedStatuses /\ IsSettled("remainder")
  BY <1>6, WindowsAreOpen DEF PaidLimit
<1>7. CASE job.status = "submitted"
  <2>1. IsSettled("remainder")
    BY <1>7, SubmittedInstants, NoneAssumption DEF IInv, EndingTellsPayment
  <2>2. today <= job.submittedAt + DeemCompletedAfter
    BY <1>7, WindowIsOpen DEF DeemWindowEnd
  <2> QED
    BY <1>7, <2>1, <2>2 DEF Windows, PaidLimit
<1> QED
  BY <1>3, <1>4, <1>5, <1>6, <1>7

\* The next row keeps the count of redos and the instants of the present one.
SameWindows ==
    /\ job'.confirmedAt = job.confirmedAt /\ job'.stagedAt = job.stagedAt
    /\ job'.redoUsed = job.redoUsed /\ job'.extension = job.extension
    /\ job'.submittedAt = job.submittedAt

LEMMA StatusKeepsWindows ==
    ASSUME TypeOK
    PROVE  \A status : job' = WithStatus(job, status) => SameWindows
BY DEF TypeOK, Jobs, WithStatus, SameWindows

\* A row on which no window runs.
LEMMA NoWindowStep ==
    ASSUME Windows, SameWindows,
           job'.status \notin {"confirmed", "submitted"} \cup StagedStatuses
    PROVE  Windows'
BY DEF Windows, SameWindows, StagedInTime, StagedStatuses

\* A row whose windows are those of the present one, and its money, too.
LEMMA SameWindowStep ==
    ASSUME Windows, SameWindows, job'.status = job.status, UNCHANGED <<settled, held>>
    PROVE  Windows'
BY DEF Windows, SameWindows, StagedInTime, Unpaid, IsSettled, AwaitsOwner, IsHeld

LEMMA ExchangeWindows ==
    ASSUME IInv, Windows, Exchange
    PROVE  Windows'
<1>1. ASSUME NEW terms, NEW offer, Propose(terms, offer)
      PROVE  Windows'
  <2>1. SameWindows /\ job'.status = "proposed"
    BY <1>1, ProposedRow DEF Propose, WriteJob, SameWindows, IInv, TypeOK
  <2> QED
    BY <2>1, NoWindowStep DEF StagedStatuses
<1>2. ASSUME \/ \E criterion \in Criteria, party \in Parties : AcceptCriterion(criterion, party)
             \/ \E party \in Parties : AcceptPrice(party)
      PROVE  Windows'
  <2>1. SameWindows /\ job'.status = "proposed"
    BY <1>2 DEF AcceptCriterion, CanAcceptCriterion, AcceptPrice, CanAcceptPrice, WriteJob,
       CriterionAccepted, PriceAccepted, SameWindows, IInv, TypeOK, Jobs
  <2> QED
    BY <2>1, NoWindowStep DEF StagedStatuses
<1>3. ASSUME Confirm
      PROVE  Windows'
  <2>1. job.status = "proposed"
    BY <1>3 DEF Confirm, CanConfirm, CanMove, WithDepositRail, IInv, TypeOK, Jobs
  <2>2. ~IsSettled("remainder")
    BY <2>1 DEF IInv, StageOfHire, RemainderMoney
  <2>3. /\ job'.status = "confirmed" /\ job'.redoUsed = job.redoUsed
        /\ job'.extension = job.extension /\ UNCHANGED <<settled, held>>
    BY <1>3 DEF Confirm, WriteJob, Confirmed, WithDepositRail, IInv, TypeOK, Jobs
  <2> QED
    BY <2>2, <2>3 DEF Windows, StagedInTime, StagedStatuses, IsSettled
<1>4. ASSUME Withdraw \/ Decline
      PROVE  Windows'
  <2>1. SameWindows
    BY <1>4, StatusKeepsWindows DEF Withdraw, Decline, WriteJob, IInv
  <2>2. job'.status \in {"withdrawn", "declined"}
    BY <1>4, StatusMoves DEF Withdraw, Decline, WriteJob, OnlyMovesTo, IInv
  <2> QED
    BY <2>1, <2>2, NoWindowStep DEF StagedStatuses
<1> QED
  BY <1>1, <1>2, <1>3, <1>4 DEF Exchange

\* Money moves on the row. The clock of a balance does not start again: what waits on the
\* owner goes on waiting until it settles.
LEMMA MoneyWindows ==
    ASSUME Windows, UNCHANGED job,
           job.status \notin StagedStatuses => settled'["remainder"] = settled["remainder"],
           Unpaid' => Unpaid
    PROVE  Windows'
<1>1. job.status \notin StagedStatuses => IsSettled("remainder")' = IsSettled("remainder")
  BY DEF IsSettled
<1>2. StagedInTime'
  BY DEF Windows, StagedInTime
<1> QED
  BY <1>1, <1>2 DEF Windows, StagedStatuses

LEMMA PaymentWindows ==
    ASSUME IInv, Windows, Payment
    PROVE  Windows'
<1>1. ASSUME NEW leg \in Legs, NEW rail \in Rails, Settle(leg, rail), ~IsSettled(leg),
             job.price # None,
             leg = "remainder" => job.status \in StagedStatuses
      PROVE  Windows'
  <2>1. /\ UNCHANGED job
        /\ \A other \in Legs : other # leg =>
               settled'[other] = settled[other] /\ held'[other] = held[other]
    BY <1>1 DEF Settle, IInv, TypeOK
  <2>2. leg = "remainder" => ~Unpaid'
    <3>1. [rail |-> rail, price |-> job.price, at |-> today] # None
      <4>1. [rail |-> rail, price |-> job.price, at |-> today] \in Settlements
        BY <1>1 DEF IInv, TypeOK, Settlements, Jobs, OrNone
      <4> QED
        BY <4>1, RowsAssumption
    <3> QED
      BY <1>1, <3>1 DEF Settle, IInv, TypeOK, Unpaid, IsSettled
  <2>3. leg = "deposit" => Unpaid' = Unpaid
    BY <2>1 DEF Unpaid, IsSettled, AwaitsOwner, IsHeld, Legs
  <2> QED
    BY <1>1, <2>1, <2>2, <2>3, MoneyWindows DEF Legs
<1>2. ASSUME NEW leg \in Legs, NEW hold, Hold(leg, hold), ~AwaitsOwner(leg)
      PROVE  Windows'
  <2>1. UNCHANGED <<job, settled>> /\ \A other \in Legs : other # leg => held'[other] = held[other]
    BY <1>2 DEF Hold, IInv, TypeOK
  <2>2. Unpaid' => Unpaid
    BY <1>2, <2>1 DEF Unpaid, IsSettled, AwaitsOwner, IsHeld, Legs
  <2> QED
    BY <2>1, <2>2, MoneyWindows
<1>3. ASSUME NEW leg \in Legs, NEW rail \in Rails, PaySettles(leg, rail)
      PROVE  Windows'
  BY <1>1, <1>3 DEF PaySettles, DoorOpen, LegStatusEligible
<1>4. ASSUME NEW leg \in Legs, NEW rail, PayHalf(leg, rail) \/ PayForgotten(leg, rail)
      PROVE  Windows'
  BY <1>2, <1>4 DEF PayHalf, PayForgotten, DoorOpen, AwaitsOwner
<1>5. ASSUME NEW leg \in Legs, PayShort(leg)
      PROVE  Windows'
  BY <1>2, <1>5 DEF PayShort, DoorOpen, AwaitsOwner
<1>6. ASSUME NEW leg \in Legs, AcceptShort(leg)
      PROVE  Windows'
  <2>1. leg = "remainder" => job.status \in StagedStatuses
    BY <1>6 DEF AcceptShort, IInv, RemainderMoney
  <2>2. held[leg].rail = "abt_eth" /\ held[leg] \in Holds /\ job.price \in Prices
    BY <1>6, HoldsArePriced DEF AcceptShort, AwaitsOwner, IInv, ShortOnEthereum
  <2>3. "abt_eth" \in Rails /\ job.price # None
    BY <2>2, NoneAssumption DEF Holds
  <2> QED
    BY <1>1, <1>6, <2>1, <2>3 DEF AcceptShort
<1> QED
  BY <1>3, <1>4, <1>5, <1>6 DEF Payment

LEMMA DeliveryWindows ==
    ASSUME IInv, Windows, Delivery
    PROVE  Windows'
<1> USE HireInstants, WindowsAssumption
<1>1. ASSUME NEW commit \in Commits, Stage(commit)
      PROVE  Windows'
  <2>1. UNCHANGED <<settled, held>> /\ job.status \in {"confirmed", "redo_requested"} /\ Fresh
    BY <1>1 DEF Stage, CanMove
  <2>2. CASE job' = job
    BY <2>1, <2>2, SameWindowStep DEF SameWindows
  <2>3. CASE job' = Staged(job, commit, today)
    <3>1. /\ job'.status = "staged" /\ job'.stagedAt = today /\ job'.confirmedAt = job.confirmedAt
          /\ job'.redoUsed = job.redoUsed /\ job'.extension = job.extension
      BY <2>3 DEF Staged, IInv, TypeOK, Jobs
    <3>2. Unpaid' = Unpaid
      BY <2>1 DEF Unpaid, IsSettled, AwaitsOwner, IsHeld
    <3>3. ASSUME Unpaid
          PROVE  today <= job.confirmedAt + ExpireUnstagedAfter + job.redoUsed * Round
      <4>1. CASE job.status = "confirmed"
        <5>1. job.confirmedAt \in Nat
          BY <4>1 DEF IInv, StageOfHire
        <5>2. today <= job.confirmedAt + ExpireUnstagedAfter
          BY <2>1, <4>1, WindowsAreOpen
        <5> QED
          BY <5>1, <5>2
      <4>2. CASE job.status = "redo_requested"
        <5>1. job.stagedAt + Round
                  <= job.confirmedAt + ExpireUnstagedAfter + job.redoUsed * Round
          BY <3>3, <4>2 DEF Windows, StagedInTime
        <5>2. today <= job.stagedAt + Round
          BY <2>1, <3>3, <4>2, WindowsAreOpen DEF StagedStatuses
        <5>3. job.stagedAt \in Nat /\ job.confirmedAt \in Nat
          BY <4>2 DEF StagedStatuses
        <5> QED
          BY <5>1, <5>2, <5>3
      <4> QED
        BY <2>1, <4>1, <4>2
    <3>4. today # None
      BY NoneAssumption
    <3>5. StagedInTime'
      BY <3>1, <3>2, <3>3 DEF StagedInTime
    <3> QED
      BY <3>1, <3>4, <3>5 DEF Windows
  <2> QED
    BY <1>1, <2>2, <2>3 DEF Stage
<1>2. ASSUME StagedDecline \/ CitedClose
      PROVE  Windows'
  <2>1. SameWindows
    BY <1>2, StatusKeepsWindows DEF StagedDecline, CitedClose, WriteJob, IInv
  <2>2. job'.status \in {"staged_declined", "cited_closed"}
    BY <1>2, StatusMoves DEF StagedDecline, CitedClose, WriteJob, OnlyMovesTo, IInv
  <2> QED
    BY <2>1, <2>2, NoWindowStep DEF StagedStatuses
<1>3. ASSUME RequestRedo
      PROVE  Windows'
  <2>1. /\ job.status = "staged" /\ job.redoUsed < RedoAllowance
        /\ UNCHANGED <<settled, held>> /\ job' = RedoRequested(job)
    BY <1>3 DEF RequestRedo, CanRequestRedo, CanMove, WriteJob
  <2>2. /\ job'.status = "redo_requested" /\ job'.stagedAt = job.stagedAt
        /\ job'.confirmedAt = job.confirmedAt
        /\ job'.redoUsed = job.redoUsed + 1
        /\ job'.extension = job.extension + RedoLapseExtension
    BY <2>1 DEF RedoRequested, IInv, TypeOK, Jobs
  <2>3. job'.redoUsed <= RedoAllowance
    BY <2>1, <2>2
  <2>4. job'.extension = job'.redoUsed * RedoLapseExtension
    BY <2>2, Products DEF Windows
  <2>5. Unpaid' = Unpaid
    BY <2>1 DEF Unpaid, IsSettled, AwaitsOwner, IsHeld
  <2>6. job'.redoUsed * Round = job.redoUsed * Round + Round
    BY <2>2, Products
  <2>7. job.stagedAt \in Nat /\ job.confirmedAt \in Nat
    BY <2>1 DEF StagedStatuses
  <2>8. ASSUME Unpaid
        PROVE  job.stagedAt + Round
                   <= job.confirmedAt + ExpireUnstagedAfter + job'.redoUsed * Round
    <3>1. job.stagedAt <= job.confirmedAt + ExpireUnstagedAfter + job.redoUsed * Round
      BY <2>1, <2>8 DEF Windows, StagedInTime
    <3> QED
      BY <2>6, <2>7, <3>1
  <2>9. StagedInTime'
    BY <2>2, <2>5, <2>8 DEF StagedInTime
  <2> QED
    BY <2>1, <2>2, <2>3, <2>4, <2>9 DEF Windows, StagedStatuses
<1>4. ASSUME RefuseRedo
      PROVE  Windows'
  <2>1. /\ job.status = "redo_requested" /\ UNCHANGED <<settled, held>>
        /\ job' = WithStatus(job, "staged")
    BY <1>4 DEF RefuseRedo, CanRefuseRedo, WriteJob
  <2>2. SameWindows /\ job'.status = "staged"
    BY <2>1, StatusKeepsWindows, StatusMoves DEF OnlyMovesTo, IInv
  <2>3. Unpaid' = Unpaid
    BY <2>1 DEF Unpaid, IsSettled, AwaitsOwner, IsHeld
  <2>4. job.stagedAt \in Nat /\ job.confirmedAt \in Nat
    BY <2>1 DEF StagedStatuses
  <2>5. StagedInTime'
    <3>1. Unpaid => job.stagedAt + Round
                        <= job.confirmedAt + ExpireUnstagedAfter + job.redoUsed * Round
      BY <2>1 DEF Windows, StagedInTime
    <3>2. Unpaid => job.stagedAt <= job.confirmedAt + ExpireUnstagedAfter + job.redoUsed * Round
      BY <2>4, <3>1
    <3> QED
      BY <2>2, <2>3, <3>2 DEF StagedInTime, SameWindows
  <2> QED
    BY <2>1, <2>2, <2>5 DEF Windows, StagedStatuses, SameWindows
<1>5. ASSUME SubmitPullRequest
      PROVE  Windows'
  <2>1. /\ IsSettled("remainder") /\ job.status = "staged" /\ Fresh /\ UNCHANGED settled
        /\ job' = Submitted(job, today)
    BY <1>5 DEF SubmitPullRequest, CanMove
  <2>2. /\ job'.status = "submitted" /\ job'.submittedAt = today
        /\ job'.redoUsed = job.redoUsed /\ job'.extension = job.extension
    BY <2>1 DEF Submitted, IInv, TypeOK, Jobs
  <2>3. today <= settled["remainder"].at + UndeliveredAfterPaid
    BY <2>1, WindowsAreOpen DEF StagedStatuses
  <2> QED
    BY <2>1, <2>2, <2>3 DEF Windows, StagedInTime, StagedStatuses
<1>6. ASSUME MergeRoute
      PROVE  Windows'
  <2>1. job.status = "submitted"
    BY <1>6 DEF MergeRoute, IInv, StageOfHire
  <2>2. CASE CompleteMerged
    <3>1. SameWindows /\ job'.status = "completed"
      BY <2>2 DEF CompleteMerged, Completed, SameWindows, IInv, TypeOK, Jobs
    <3> QED
      BY <3>1, NoWindowStep DEF StagedStatuses
  <2>3. CASE WriteJob(WithStatus(job, UnmergedStatus))
    <3>1. UnmergedStatus = job.status
      BY <1>6, <2>1, NoStaleMark DEF MergeRoute, UnmergedStatus
    <3>2. SameWindows /\ job'.status = job.status /\ UNCHANGED <<settled, held>>
      BY <2>3, <3>1, StatusKeepsWindows, StatusMoves DEF WriteJob, OnlyMovesTo, IInv
    <3> QED
      BY <3>2, SameWindowStep
  <2> QED
    BY <1>6, <2>2, <2>3 DEF MergeRoute
<1> QED
  BY <1>1, <1>2, <1>3, <1>4, <1>5, <1>6 DEF Delivery

LEMMA LoadWindows ==
    ASSUME IInv, Windows, Load
    PROVE  Windows'
<1>1. CASE LapseOnLoad
  <2>1. SameWindows /\ job'.status = OnLoad
    BY <1>1, StatusKeepsWindows, StatusMoves DEF LapseOnLoad, OnlyMovesTo, IInv
  <2>2. OnLoad \in {"expired_unstaged", "closed_unpaid", "paid_undelivered"}
    BY <1>1, LoadMoves DEF LapseOnLoad
  <2> QED
    BY <2>1, <2>2, NoWindowStep DEF StagedStatuses
<1>2. CASE DeemOnLoad
  <2>1. \/ job' = job /\ UNCHANGED <<settled, held>>
        \/ SameWindows /\ job'.status = "deemed_completed"
    BY <1>2, StatusKeepsWindows, StatusMoves DEF DeemOnLoad, OnlyMovesTo, IInv
  <2> QED
    BY <2>1, NoWindowStep, SameWindowStep DEF StagedStatuses, SameWindows
<1>3. CASE CompleteOnLoad
  <2>1. SameWindows /\ job'.status = "completed"
    BY <1>3 DEF CompleteOnLoad, CompleteMerged, Completed, SameWindows, IInv, TypeOK, Jobs
  <2> QED
    BY <2>1, NoWindowStep DEF StagedStatuses
<1>4. CASE RetryDeemedCredential
  BY <1>4, SameWindowStep DEF RetryDeemedCredential, SameWindows
<1> QED
  BY <1>1, <1>2, <1>3, <1>4 DEF Load

LEMMA WindowsStep == IInv /\ Windows /\ [Next]_vars => Windows'
<1> SUFFICES ASSUME IInv, Windows, [Next]_vars PROVE Windows'
  OBVIOUS
<1>1. ASSUME UNCHANGED <<job, settled, held>> PROVE Windows'
  BY <1>1, SameWindowStep DEF SameWindows
<1>2. CASE World
  BY <1>1, <1>2 DEF World, PushToPullRequest, MergePullRequest, ClosePullRequest,
     ReopenPullRequest, MovePullRequest, Tick
<1>3. CASE UNCHANGED vars
  BY <1>1, <1>3 DEF vars
<1> QED
  BY <1>2, <1>3, ExchangeWindows, PaymentWindows, DeliveryWindows, LoadWindows DEF Next

\* A hire whose payment does not wait on its owner is over, once somebody looks, within the
\* sum of its windows, whatever the two parties do in between (applyLapses, requestRedo).
THEOREM HireStaysBounded == Spec => []HireIsBounded
<1>1. Init => Windows
  BY WindowsAssumption, Products DEF Init, NewJob, Windows, StagedInTime, StagedStatuses
<1>2. Spec => []Windows
  BY <1>1, WindowsStep, HireInvariant, PTL DEF Spec
<1> QED
  BY <1>2, WindowsBound, HireInvariant, PTL

--------------------------------------------------------------------------------
(* The pages and the lists. What a page shows is a copy of the row it was drawn *)
(* from, while the hire goes on; every press is a request the hire may be asked *)
(* at any time, so all that holds of the hire holds under its pages.            *)

LEMMA PagesStep == [PagesNext]_pagesVars => [Next]_vars
<1> SUFFICES ASSUME [PagesNext]_pagesVars PROVE [Next]_vars
  OBVIOUS
<1>1. ASSUME NEW leg \in Legs, Pay(leg)
      PROVE  Payment
  <2>1. PICK rail \in Rails : \/ PaySettles(leg, rail)
                              \/ PayHalf(leg, rail)
                              \/ PayForgotten(leg, rail)
                              \/ rail = "abt_eth" /\ PayShort(leg)
    BY <1>1 DEF Pay
  <2> QED
    BY <2>1 DEF Payment
<1>2. ASSUME NEW shot, NEW control \in Controls, Route(control, shot)
      PROVE  Exchange \/ Payment \/ Delivery
  <2>1. CASE control \in {"withdraw", "decline"}
    BY <1>2, <2>1 DEF Route, Exchange
  <2>2. CASE control \in {"pay-deposit", "pay-balance"}
    BY <1>1, <1>2, <2>2 DEF Route, Legs
  <2>3. CASE control \in {"staged-decline", "redo", "redo-refuse", "stage", "cited-close"}
    BY <1>2, <2>3 DEF Route, Delivery
  <2>4. CASE control = "accept-short"
    <3>1. ShortLeg(shot) \in Legs
      BY DEF ShortLeg, Legs
    <3>2. AcceptShort(ShortLeg(shot))
      BY <1>2, <2>4 DEF Route
    <3> QED
      BY <3>1, <3>2 DEF Payment
  <2> QED
    BY <2>1, <2>2, <2>3, <2>4 DEF Controls
<1>3. ASSUME NEW t \in Tabs, NEW control \in Controls, Press(t, control)
      PROVE  [Next]_vars
  BY <1>2, <1>3 DEF Press, Next
<1>4. ASSUME NEW t \in Tabs, CheckMerge(t)
      PROVE  [Next]_vars
  BY <1>4 DEF CheckMerge, Next, Delivery
<1>5. ASSUME NEW t \in Tabs, \/ \E seat \in Seats : Open(t, seat)
                             \/ ReadJob(t) \/ ReadAttestation(t) \/ ReadPayments(t)
                             \/ Close(t)
      PROVE  [Next]_vars
  BY <1>5 DEF Open, ReadJob, ReadAttestation, ReadPayments, Close
<1>6. CASE Elsewhere
  BY <1>6 DEF Elsewhere
<1>7. CASE UNCHANGED pagesVars
  BY <1>7 DEF pagesVars
<1> QED
  BY <1>3, <1>4, <1>5, <1>6, <1>7 DEF PagesNext

\* A press of any page is a request the hire may be asked at any time: the pages implement
\* the hire, and whatever is promised of it holds under them.
THEOREM PagesAreRequests == PagesSpec => Spec
BY PagesStep, PTL DEF PagesSpec, PagesInit, Spec

\* What a proposal carries, and the instant of a merge that was recorded.
OffersAreReal ==
    /\ job.status = "proposed" => job.terms # {}
    /\ job.priceBy # {} => job.price # None
    /\ job.status = "completed" => job.mergedAt # None

LEMMA OffersStep == IInv /\ OffersAreReal /\ [Next]_vars => OffersAreReal'
<1> SUFFICES ASSUME IInv, OffersAreReal, [Next]_vars PROVE OffersAreReal'
  OBVIOUS
<1> USE DEF OffersAreReal
<1>1. ASSUME NEW status, OnlyMovesTo(status), status \notin {"proposed", "completed"}
      PROVE  OffersAreReal'
  BY <1>1 DEF OnlyMovesTo
<1>2. ASSUME CompleteMerged, job.status = "submitted"
      PROVE  OffersAreReal'
  <2>1. MergeInstant \in Nat
    BY <1>2, SubmittedInstants DEF MergeInstant, PullRequests, OrNone
  <2>2. /\ job'.status = "completed" /\ job'.mergedAt = MergeInstant
        /\ job'.priceBy = job.priceBy /\ job'.price = job.price
    BY <1>2 DEF CompleteMerged, Completed, IInv, TypeOK, Jobs
  <2> QED
    BY <2>1, <2>2, NoneAssumption
<1>3. CASE Exchange
  <2>1. ASSUME NEW terms, NEW offer \in OrNone(Offers), Propose(terms, offer)
        PROVE  OffersAreReal'
    <3>1. job'.terms = terms /\ (job'.priceBy # {} => job'.price # None) /\ terms # {}
      BY <2>1, ProposedTerms DEF Propose, WriteJob, IInv, TypeOK
    <3>2. job'.status = "proposed"
      BY <2>1, ProposedRow DEF Propose, WriteJob, IInv, TypeOK
    <3> QED
      BY <3>1, <3>2
  <2>2. ASSUME NEW criterion, NEW party, AcceptCriterion(criterion, party) \/ AcceptPrice(party)
        PROVE  OffersAreReal'
    BY <2>2 DEF AcceptCriterion, CanAcceptCriterion, AcceptPrice, CanAcceptPrice, WriteJob,
       CriterionAccepted, PriceAccepted, IInv, TypeOK, Jobs
  <2>3. CASE Confirm
    BY <2>3 DEF Confirm, WriteJob, Confirmed, WithDepositRail, IInv, TypeOK, Jobs
  <2>4. CASE Withdraw \/ Decline
    BY <1>1, <2>4, StatusMoves DEF Withdraw, Decline, WriteJob, IInv
  <2> QED
    BY <1>3, <2>1, <2>2, <2>3, <2>4 DEF Exchange
<1>4. ASSUME UNCHANGED job PROVE OffersAreReal'
  BY <1>4
<1>5. CASE Delivery
  <2>1. ASSUME NEW commit \in Commits, Stage(commit)
        PROVE  OffersAreReal'
    BY <2>1 DEF Stage, Staged, IInv, TypeOK, Jobs
  <2>2. CASE StagedDecline \/ RequestRedo \/ RefuseRedo \/ CitedClose
    BY <1>1, <2>2, StatusMoves
       DEF StagedDecline, RequestRedo, RefuseRedo, CitedClose, WriteJob, IInv
  <2>3. CASE SubmitPullRequest
    BY <2>3 DEF SubmitPullRequest, Submitted, IInv, TypeOK, Jobs
  <2>4. CASE MergeRoute
    <3>1. job.status = "submitted"
      BY <2>4 DEF MergeRoute, IInv, StageOfHire
    <3>2. CASE WriteJob(WithStatus(job, UnmergedStatus))
      <4>1. UnmergedStatus \notin {"proposed", "completed"}
        BY <3>1 DEF UnmergedStatus
      <4> QED
        BY <1>1, <3>2, <4>1, StatusMoves DEF WriteJob, IInv
    <3> QED
      BY <1>2, <2>4, <3>1, <3>2 DEF MergeRoute
  <2> QED
    BY <1>5, <2>1, <2>2, <2>3, <2>4 DEF Delivery
<1>6. CASE Load
  <2>1. CASE LapseOnLoad
    BY <1>1, <2>1, LoadMoves, StatusMoves DEF LapseOnLoad, IInv
  <2>2. CASE DeemOnLoad
    BY <1>1, <1>4, <2>2, StatusMoves DEF DeemOnLoad, IInv
  <2>3. CASE CompleteOnLoad
    BY <1>2, <2>3, LoadMoves DEF CompleteOnLoad
  <2>4. CASE RetryDeemedCredential
    BY <2>4 DEF RetryDeemedCredential
  <2> QED
    BY <1>6, <2>1, <2>2, <2>3, <2>4 DEF Load
<1>7. CASE Payment
  BY <1>4, <1>7 DEF Payment, PaySettles, PayHalf, PayForgotten, PayShort, AcceptShort, Settle, Hold
<1>8. CASE World
  BY <1>4, <1>8 DEF World, PushToPullRequest, MergePullRequest, ClosePullRequest,
     ReopenPullRequest, MovePullRequest, Tick
<1>9. CASE UNCHANGED vars
  BY <1>4, <1>9 DEF vars
<1> QED
  BY <1>3, <1>5, <1>6, <1>7, <1>8, <1>9 DEF Next

\* All that is known of the row of a hire.
HireInv == IInv /\ Receipts /\ Windows /\ OffersAreReal

LEMMA HireInvStep == HireInv /\ [Next]_vars => HireInv'
BY InvariantStep, ReceiptsStep, WindowsStep, OffersStep DEF HireInv

LEMMA HireInvInit == Init => HireInv
<1> SUFFICES ASSUME Init PROVE HireInv
  OBVIOUS
<1>1. IInv
  BY InvariantInit
<1>2. Windows
  BY WindowsAssumption, Products DEF Init, NewJob, Windows, StagedInTime, StagedStatuses
<1>3. OffersAreReal
  BY DEF Init, NewJob, OffersAreReal
<1>4. Receipts
  BY RowsAssumption DEF Init, NewJob, Receipts, Attestation, MergesArePast, CompletedInEarnest,
     DeemedInEarnest, Credentials
<1> QED
  BY <1>1, <1>2, <1>3, <1>4 DEF HireInv

\* A staged hire has an attestation to show.
LEMMA StagedIsAttested ==
    ASSUME HireInv, job.status \in StagedStatuses
    PROVE  Len(attested) # 0
<1>1. attested \in Seq(Commits)
  BY DEF HireInv, IInv, TypeOK
<1>2. DOMAIN attested # {}
  BY DEF HireInv, IInv, StageOfHire, Receipts, Attestation
<1> QED
  BY <1>1, <1>2

\* Attestations are only added, and only by a stage.
LEMMA AttestedGrows ==
    ASSUME HireInv, [Next]_vars
    PROVE  /\ Len(attested) \in Nat /\ Len(attested') \in Nat
           /\ Len(attested) <= Len(attested')
           /\ \A i \in 1..Len(attested) : attested'[i] = attested[i]
           /\ attested' = attested \/ job.status \in {"confirmed", "redo_requested"}
<1>1. attested \in Seq(Commits)
  BY DEF HireInv, IInv, TypeOK
<1>2. CASE UNCHANGED attested
  BY <1>1, <1>2
<1>3. ASSUME NEW commit \in Commits, Stage(commit)
      PROVE  /\ attested' = Append(attested, commit)
             /\ job.status \in {"confirmed", "redo_requested"}
  BY <1>3 DEF Stage, CanMove
<1>4. CASE Exchange
  BY <1>2, <1>4 DEF Exchange, Propose, AcceptCriterion, AcceptPrice, Confirm, Withdraw, Decline,
     WriteJob
<1>5. CASE Payment
  BY <1>2, <1>5 DEF Payment, PaySettles, PayHalf, PayForgotten, PayShort, AcceptShort, Settle, Hold
<1>6. CASE Delivery
  <2>1. CASE \E commit \in Commits : Stage(commit)
    BY <1>1, <1>3, <2>1
  <2>2. CASE StagedDecline \/ RequestRedo \/ RefuseRedo \/ SubmitPullRequest \/ CitedClose
    BY <1>2, <2>2 DEF StagedDecline, RequestRedo, RefuseRedo, SubmitPullRequest, CitedClose, WriteJob
  <2>3. CASE MergeRoute
    BY <1>2, <2>3 DEF MergeRoute, CompleteMerged, WriteJob
  <2> QED
    BY <1>6, <2>1, <2>2, <2>3 DEF Delivery
<1>7. CASE Load
  BY <1>2, <1>7 DEF Load, LapseOnLoad, DeemOnLoad, CompleteOnLoad, RetryDeemedCredential,
     CompleteMerged
<1>8. CASE World
  BY <1>2, <1>8 DEF World, PushToPullRequest, MergePullRequest, ClosePullRequest,
     ReopenPullRequest, MovePullRequest, Tick
<1>9. CASE UNCHANGED vars
  BY <1>2, <1>9 DEF vars
<1> QED
  BY <1>4, <1>5, <1>6, <1>7, <1>8, <1>9 DEF Next

--------------------------------------------------------------------------------
(* A page that shows the work as staged: it has gone on from there, and work    *)
(* staged anew was sent back by the buyer first. What it shows of that work is  *)
(* an attestation read before or after the row, and the attestation is the      *)
(* row's unless one came between the two reads or a stage was left half done.   *)

\* What has become of the hire a page showed as staged.
StagedSince(shot) ==
    /\ shot.redoUsed <= job.redoUsed
    /\ job.status \notin {"draft", "proposed", "confirmed"}
    /\ job.status = "redo_requested" => shot.redoUsed < job.redoUsed

\* And of the work it shows, once it shows any.
ShownWork(shot) ==
    "attestation" \notin shot.out /\ shot.seen # 0 =>
        \/ attested[shot.seen] = job.stagedCommit
        \/ shot.redoUsed < job.redoUsed
        \/ shot.crossed
        \/ HalfStaged

StagedShot(shot) == StagedSince(shot) /\ ShownWork(shot)

ReadPages ==
    \A t \in Tabs : tab[t] # None =>
        /\ tab[t].seen <= Len(attested)
        /\ "job" \in tab[t].out => tab[t].status = None
        /\ tab[t].status = "staged" => StagedShot(tab[t])

PagesInv == HireInv /\ PagesTypeOK /\ ReadPages

LEMMA ShotsAreTyped ==
    ASSUME IInv
    PROVE  /\ \A seat \in Seats : Blank(seat) \in Shots
           /\ \A shot \in Shots : WithJob(shot) \in Shots /\ WithAttestation(shot) \in Shots
           /\ PaymentsNow \in Payments
           /\ \A shot \in Shots, payments \in OrNone(Payments) : WithPayments(shot, payments) \in Shots
<1>1. Agreed(job) \in BOOLEAN /\ job.status \in Statuses /\ job.redoUsed \in Nat
  BY DEF Agreed, IInv, TypeOK, Jobs
<1>2. Len(attested) \in Nat
  BY DEF IInv, TypeOK
<1>3. ASSUME NEW seat \in Seats PROVE Blank(seat) \in Shots
  BY DEF Blank, Shots, OrNone
<1>4. ASSUME NEW shot \in Shots PROVE WithJob(shot) \in Shots
  <2>1. ("attestation" \notin shot.out /\ shot.seen # Len(attested)) \in BOOLEAN
    OBVIOUS
  <2> QED
    BY <1>1, <2>1 DEF WithJob, Shots, OrNone
<1>5. ASSUME NEW shot \in Shots PROVE WithAttestation(shot) \in Shots
  BY <1>2 DEF WithAttestation, Shots
<1>6. PaymentsNow \in Payments
  BY DEF PaymentsNow, Payments
<1>7. ASSUME NEW shot \in Shots, NEW payments \in OrNone(Payments)
      PROVE  WithPayments(shot, payments) \in Shots
  BY DEF WithPayments, Shots
<1> QED
  BY <1>3, <1>4, <1>5, <1>6, <1>7

\* The hire goes on from where a page showed it: the buyer sends work back, and only
\* then is a row staged at another commit.
GoesOn(shot) ==
    /\ StagedSince(shot)'
    /\ job.redoUsed <= job'.redoUsed
    /\ job'.stagedCommit = job.stagedCommit \/ shot.redoUsed < job.redoUsed

LEMMA HiresGoOn ==
    ASSUME HireInv, [Next]_vars, NEW shot \in Shots, StagedSince(shot)
    PROVE  GoesOn(shot)
<1> USE DEF GoesOn, StagedSince
<1>1. job.redoUsed \in Nat /\ shot.redoUsed \in Nat
  BY DEF HireInv, IInv, TypeOK, Jobs, Shots
<1>2. ASSUME job'.redoUsed = job.redoUsed, job'.stagedCommit = job.stagedCommit,
             job'.status \notin {"draft", "proposed", "confirmed", "staged", "redo_requested"}
      PROVE  GoesOn(shot)
  BY <1>1, <1>2
<1>3. ASSUME UNCHANGED job PROVE GoesOn(shot)
  BY <1>1, <1>3
<1>4. CASE Exchange
  <2>1. job.status \in {"draft", "proposed"} \/ Withdraw \/ Decline
    BY <1>4 DEF Exchange, Propose, CanPropose, AcceptCriterion, CanAcceptCriterion, AcceptPrice,
       CanAcceptPrice, Confirm, CanConfirm, CanMove, WithDepositRail, HireInv, IInv, TypeOK, Jobs
  <2>2. CASE Withdraw \/ Decline
    BY <1>2, <2>2 DEF Withdraw, Decline, WriteJob, WithStatus, HireInv, IInv, TypeOK, Jobs
  <2> QED
    BY <2>1, <2>2
<1>5. CASE Delivery
  <2>1. ASSUME NEW commit \in Commits, Stage(commit)
        PROVE  GoesOn(shot)
    <3>1. job.status = "redo_requested"
      BY <2>1 DEF Stage, CanMove
    <3>2. job' = job \/ (job'.status = "staged" /\ job'.redoUsed = job.redoUsed)
      BY <2>1 DEF Stage, Staged, HireInv, IInv, TypeOK, Jobs
    <3> QED
      BY <1>1, <3>1, <3>2
  <2>2. CASE RequestRedo
    <3>1. job'.status = "redo_requested" /\ job'.redoUsed = job.redoUsed + 1
          /\ job'.stagedCommit = job.stagedCommit
      BY <2>2 DEF RequestRedo, WriteJob, RedoRequested, HireInv, IInv, TypeOK, Jobs
    <3> QED
      BY <1>1, <3>1
  <2>3. CASE RefuseRedo
    <3>1. job.status = "redo_requested" /\ job'.status = "staged" /\ job'.redoUsed = job.redoUsed
          /\ job'.stagedCommit = job.stagedCommit
      BY <2>3 DEF RefuseRedo, CanRefuseRedo, WriteJob, WithStatus, HireInv, IInv, TypeOK, Jobs
    <3> QED
      BY <1>1, <3>1
  <2>4. CASE StagedDecline \/ CitedClose
    BY <1>2, <2>4 DEF StagedDecline, CitedClose, WriteJob, WithStatus, HireInv, IInv, TypeOK, Jobs
  <2>5. CASE SubmitPullRequest
    BY <1>2, <2>5 DEF SubmitPullRequest, Submitted, HireInv, IInv, TypeOK, Jobs
  <2>6. CASE MergeRoute
    <3>1. job.status = "submitted"
      BY <2>6 DEF MergeRoute, HireInv, IInv, StageOfHire
    <3>2. /\ job'.redoUsed = job.redoUsed /\ job'.stagedCommit = job.stagedCommit
          /\ job'.status \in {"completed", UnmergedStatus}
      BY <2>6 DEF MergeRoute, CompleteMerged, Completed, WriteJob, WithStatus, HireInv, IInv,
         TypeOK, Jobs
    <3>3. UnmergedStatus \in {"submitted", "stale"}
      BY <3>1 DEF UnmergedStatus
    <3> QED
      BY <1>2, <3>2, <3>3
  <2> QED
    BY <1>5, <2>1, <2>2, <2>3, <2>4, <2>5, <2>6 DEF Delivery
<1>6. CASE Load
  <2>1. CASE LapseOnLoad
    BY <1>2, <2>1, LoadMoves DEF LapseOnLoad, WithStatus, HireInv, IInv, TypeOK, Jobs
  <2>2. CASE DeemOnLoad
    BY <1>2, <1>3, <2>2 DEF DeemOnLoad, WithStatus, HireInv, IInv, TypeOK, Jobs
  <2>3. CASE CompleteOnLoad
    BY <1>2, <2>3 DEF CompleteOnLoad, CompleteMerged, Completed, HireInv, IInv, TypeOK, Jobs
  <2>4. CASE RetryDeemedCredential
    BY <1>3, <2>4 DEF RetryDeemedCredential
  <2> QED
    BY <1>6, <2>1, <2>2, <2>3, <2>4 DEF Load
<1>7. CASE Payment
  BY <1>3, <1>7 DEF Payment, PaySettles, PayHalf, PayForgotten, PayShort, AcceptShort, Settle, Hold
<1>8. CASE World
  BY <1>3, <1>8 DEF World, PushToPullRequest, MergePullRequest, ClosePullRequest,
     ReopenPullRequest, MovePullRequest, Tick
<1>9. CASE UNCHANGED vars
  BY <1>3, <1>9 DEF vars
<1> QED
  BY <1>4, <1>5, <1>6, <1>7, <1>8, <1>9 DEF Next


\* However the hire goes on, the pages read before stay such pages.
LEMMA ShotsGoStale ==
    ASSUME HireInv, [Next]_vars, NEW shot \in Shots, StagedShot(shot), shot.seen <= Len(attested)
    PROVE  StagedShot(shot)'
<1>1. GoesOn(shot)
  BY HiresGoOn DEF StagedShot
<1>2. job.redoUsed \in Nat /\ job'.redoUsed \in Nat /\ shot.redoUsed \in Nat /\ shot.seen \in Nat
  BY HireInvStep DEF HireInv, IInv, TypeOK, Jobs, Shots
<1>3. ASSUME shot.redoUsed < job.redoUsed PROVE ShownWork(shot)'
  BY <1>1, <1>2, <1>3 DEF GoesOn, ShownWork
<1>4. ASSUME attested' = attested, job'.stagedCommit = job.stagedCommit PROVE ShownWork(shot)'
  BY <1>1, <1>2, <1>4 DEF GoesOn, StagedShot, ShownWork, HalfStaged
<1>5. attested' = attested \/ shot.redoUsed < job.redoUsed
  BY AttestedGrows DEF StagedShot, StagedSince
<1> QED
  BY <1>1, <1>3, <1>4, <1>5 DEF GoesOn, StagedShot

LEMMA PagesInvStep == PagesInv /\ [PagesNext]_pagesVars => PagesInv'
<1> SUFFICES ASSUME PagesInv, [PagesNext]_pagesVars PROVE PagesInv'
  OBVIOUS
<1> USE DEF PagesInv
<1>1. [Next]_vars /\ HireInv'
  BY PagesStep, HireInvStep
<1>2. \A t \in Tabs : tab[t] # None => tab[t] \in Shots
  BY DEF PagesTypeOK, OrNone
<1>3. Len(attested) \in Nat
  BY DEF HireInv, IInv, TypeOK
\* The page reads: what it shows then is a page of that kind.
<1>4. ASSUME NEW t \in Tabs, NEW shot \in Shots, Show(t, shot), UNCHANGED vars,
             shot.seen <= Len(attested), "job" \in shot.out => shot.status = None,
             shot.status = "staged" => StagedShot(shot)
      PROVE  PagesInv'
  <2>1. PagesTypeOK'
    BY <1>4 DEF Show, PagesTypeOK, OrNone
  <2>2. job' = job /\ attested' = attested
    BY <1>4 DEF vars
  <2>3. ASSUME NEW u \in Tabs, tab'[u] # None
        PROVE  /\ tab'[u].seen <= Len(attested)
               /\ "job" \in tab'[u].out => tab'[u].status = None
               /\ tab'[u].status = "staged" => StagedShot(tab'[u])
    BY <1>4, <2>3 DEF Show, PagesTypeOK, ReadPages
  <2>4. ReadPages'
    BY <2>2, <2>3 DEF ReadPages, StagedShot, StagedSince, ShownWork, HalfStaged
  <2> QED
    BY <1>1, <2>1, <2>4
\* The hire goes on, and at most one page is closed by it.
<1>5. ASSUME \/ UNCHANGED tab
             \/ \E t \in Tabs : Show(t, None)
      PROVE  PagesInv'
  <2>1. \A t \in Tabs : tab'[t] \in {tab[t], None}
    BY <1>5 DEF Show, PagesTypeOK
  <2>2. PagesTypeOK'
    BY <1>5 DEF Show, PagesTypeOK, OrNone
  <2>3. ASSUME NEW t \in Tabs, tab'[t] # None
        PROVE  /\ tab'[t].seen <= Len(attested')
               /\ "job" \in tab'[t].out => tab'[t].status = None
               /\ tab'[t].status = "staged" =>
                      /\ tab'[t].redoUsed <= job'.redoUsed
                      /\ job'.status \notin {"draft", "proposed", "confirmed"}
                      /\ job'.status = "redo_requested" => tab'[t].redoUsed < job'.redoUsed
                      /\ "attestation" \notin tab'[t].out /\ tab'[t].seen # 0 =>
                             \/ attested'[tab'[t].seen] = job'.stagedCommit
                             \/ tab'[t].redoUsed < job'.redoUsed
                             \/ tab'[t].crossed
                             \/ HalfStaged'
    <3>1. tab'[t] = tab[t] /\ tab[t] \in Shots /\ tab[t].seen \in Nat
      BY <1>2, <2>1, <2>3 DEF Shots
    <3>2. tab[t].seen <= Len(attested) /\ Len(attested) <= Len(attested') /\ Len(attested') \in Nat
      BY <1>1, <2>3, <3>1, AttestedGrows DEF ReadPages
    <3>3. tab[t].seen <= Len(attested')
      BY <1>3, <3>1, <3>2
    <3>4. ASSUME NEW shot \in Shots, shot.seen <= Len(attested), StagedShot(shot)
          PROVE  /\ shot.redoUsed <= job'.redoUsed
                 /\ job'.status \notin {"draft", "proposed", "confirmed"}
                 /\ job'.status = "redo_requested" => shot.redoUsed < job'.redoUsed
                 /\ "attestation" \notin shot.out /\ shot.seen # 0 =>
                        \/ attested'[shot.seen] = job'.stagedCommit
                        \/ shot.redoUsed < job'.redoUsed
                        \/ shot.crossed
                        \/ HalfStaged'
      BY <1>1, <3>4, ShotsGoStale DEF StagedShot, StagedSince, ShownWork
    <3>5. tab[t].status = "staged" => StagedShot(tab[t])
      BY <3>1, <2>3 DEF ReadPages
    <3>6. "job" \in tab[t].out => tab[t].status = None
      BY <3>1, <2>3 DEF ReadPages
    <3> QED
      BY <3>1, <3>2, <3>3, <3>4, <3>5, <3>6
  <2>4. ReadPages'
    BY <2>3 DEF ReadPages, StagedShot, StagedSince, ShownWork
  <2> QED
    BY <1>1, <2>2, <2>4
<1>6. ASSUME NEW t \in Tabs, NEW seat \in Seats, Open(t, seat)
      PROVE  PagesInv'
  <2>1. /\ Blank(seat) \in Shots /\ Blank(seat).seen = 0 /\ Blank(seat).status = None
        /\ Blank(seat).out = Reads
    BY ShotsAreTyped DEF Blank, HireInv
  <2>2. Blank(seat).status # "staged"
    BY <2>1, AnswersAssumption DEF Statuses
  <2> QED
    BY <1>3, <1>4, <1>6, <2>1, <2>2 DEF Open
<1>7. ASSUME NEW t \in Tabs, ReadJob(t)
      PROVE  PagesInv'
  <2> DEFINE shot == WithJob(tab[t])
  <2>1. tab[t] \in Shots /\ tab[t] # None /\ "job" \in tab[t].out
    BY <1>2, <1>7 DEF ReadJob, Awaits
  <2>2. /\ shot.status = job.status /\ shot.redoUsed = job.redoUsed /\ shot.seen = tab[t].seen
        /\ shot.crossed = ("attestation" \notin tab[t].out /\ tab[t].seen # Len(attested))
        /\ shot.out = tab[t].out \ {"job"}
    BY <2>1 DEF WithJob, Shots
  <2>3. shot \in Shots
    BY <2>1, ShotsAreTyped DEF HireInv
  <2>4. shot.seen <= Len(attested)
    BY <2>1, <2>2 DEF ReadPages
  <2> HIDE DEF shot
  <2>5. shot.status = "staged" => StagedSince(shot)
    BY <2>2 DEF StagedSince, HireInv, IInv, TypeOK, Jobs
  <2>6. shot.status = "staged" => ShownWork(shot)
    <3> SUFFICES ASSUME "attestation" \notin shot.out, shot.seen # 0, ~shot.crossed, ~HalfStaged
                 PROVE  attested[shot.seen] = job.stagedCommit
      BY DEF ShownWork
    <3>1. shot.seen = Len(attested)
      BY <2>2
    <3> QED
      BY <1>3, <2>4, <3>1 DEF HalfStaged
  <2>7. Show(t, shot) /\ UNCHANGED vars
    BY <1>7 DEF ReadJob, shot
  <2>8. "job" \notin shot.out
    BY <2>2
  <2> QED
    BY <1>4, <2>3, <2>4, <2>5, <2>6, <2>7, <2>8 DEF StagedShot
<1>8. ASSUME NEW t \in Tabs, ReadAttestation(t)
      PROVE  PagesInv'
  <2> DEFINE shot == WithAttestation(tab[t])
  <2>1. tab[t] \in Shots /\ tab[t] # None
    BY <1>2, <1>8 DEF ReadAttestation, Awaits
  <2>2. /\ shot.status = tab[t].status /\ shot.redoUsed = tab[t].redoUsed
        /\ shot.seen = Len(attested) /\ shot.crossed = tab[t].crossed
        /\ "job" \in shot.out <=> "job" \in tab[t].out
    BY <2>1 DEF WithAttestation, Shots
  <2>3. shot \in Shots
    BY <2>1, ShotsAreTyped DEF HireInv
  <2> HIDE DEF shot
  <2>4. shot.status = "staged" => StagedSince(shot)
    BY <2>1, <2>2 DEF ReadPages, StagedShot, StagedSince
  <2>5. ShownWork(shot)
    BY <1>3, <2>2 DEF ShownWork, HalfStaged
  <2>6. Show(t, shot) /\ UNCHANGED vars
    BY <1>8 DEF ReadAttestation, shot
  <2>7. "job" \in shot.out => shot.status = None
    BY <2>1, <2>2 DEF ReadPages
  <2> QED
    BY <1>3, <1>4, <2>2, <2>3, <2>4, <2>5, <2>6, <2>7 DEF StagedShot
<1>9. ASSUME NEW t \in Tabs, ReadPayments(t)
      PROVE  PagesInv'
  <2>1. PICK payments \in {None, PaymentsNow} : Show(t, WithPayments(tab[t], payments))
    BY <1>9 DEF ReadPayments
  <2>2. payments \in OrNone(Payments)
    BY <2>1, ShotsAreTyped DEF OrNone, HireInv
  <2> DEFINE shot == WithPayments(tab[t], payments)
  <2>3. tab[t] \in Shots /\ tab[t] # None /\ UNCHANGED vars
    BY <1>2, <1>9 DEF ReadPayments, Awaits
  <2>4. /\ shot.status = tab[t].status /\ shot.redoUsed = tab[t].redoUsed
        /\ shot.seen = tab[t].seen /\ shot.crossed = tab[t].crossed
        /\ "job" \in shot.out <=> "job" \in tab[t].out
        /\ "attestation" \in shot.out <=> "attestation" \in tab[t].out
    BY <2>3 DEF WithPayments, Shots
  <2>5. shot \in Shots
    BY <2>2, <2>3, ShotsAreTyped DEF HireInv
  <2>6. Show(t, shot)
    BY <2>1
  <2> HIDE DEF shot
  <2>7. shot.status = "staged" => StagedShot(shot)
    BY <2>3, <2>4 DEF ReadPages, StagedShot, StagedSince, ShownWork
  <2>8. shot.seen <= Len(attested) /\ ("job" \in shot.out => shot.status = None)
    BY <2>3, <2>4 DEF ReadPages
  <2> QED
    BY <1>4, <2>3, <2>5, <2>6, <2>7, <2>8
<1>10. ASSUME NEW t \in Tabs, \/ Close(t)
                              \/ \E control \in Controls : Press(t, control)
                              \/ CheckMerge(t)
      PROVE  PagesInv'
  BY <1>5, <1>10 DEF Close, Press, CheckMerge
<1>11. CASE Elsewhere \/ UNCHANGED pagesVars
  BY <1>5, <1>11 DEF Elsewhere, pagesVars
<1> QED
  BY <1>6, <1>7, <1>8, <1>9, <1>10, <1>11 DEF PagesNext

LEMMA PagesInvariant == PagesSpec => []PagesInv
<1>1. PagesInit => PagesInv
  BY HireInvInit DEF PagesInit, PagesInv, PagesTypeOK, ReadPages, OrNone
<1> QED
  BY <1>1, PagesInvStep, PTL DEF PagesSpec

\* The work a buyer pays for is the work the page showed, which it read apart from the
\* row: unless the buyer sent it back, work was staged between the two reads, or a stage
\* was left half done (/staged, POST /jobs/:jobId/stage, refuseStagedMoveWhenPaid).
THEOREM PagesShowPaidWork == PagesSpec => []PaidWorkWasShown
<1>1. PagesInv => PaidWorkWasShown
  <2> SUFFICES ASSUME PagesInv, NEW t \in Tabs, PaysNow(t)
               PROVE  ShowsTheStagedWork(t) \/ SentBack(t) \/ tab[t].crossed \/ HalfStaged
    BY DEF PaidWorkWasShown
  <2>1. tab[t] # None /\ tab[t].out = {} /\ "pay-balance" \in Offered(tab[t])
    BY DEF PaysNow, Drawn
  <2>2. tab[t].status = "staged" /\ tab[t].seen # 0
    BY <2>1 DEF Offered, OperatorJobPage, JobPage, DepositPage, StagedPage, PullRequestPage, ChoicesOpen
  <2>3. StagedShot(tab[t])
    BY <2>1, <2>2 DEF PagesInv, ReadPages
  <2> QED
    BY <2>1, <2>2, <2>3 DEF StagedShot, ShownWork, ShowsTheStagedWork, SentBack
<1> QED
  BY <1>1, PagesInvariant, PTL

--------------------------------------------------------------------------------
(* What a page offers that was drawn this instant.                              *)

LEMMA ShotNowShows ==
    ASSUME NEW seat \in Seats
    PROVE  /\ ShotNow(seat).seat = seat
           /\ ShotNow(seat).status = job.status
           /\ ShotNow(seat).seen = Len(attested)
           /\ ShotNow(seat).agreed = Agreed(job)
           /\ ShotNow(seat).redoUsed = job.redoUsed
           /\ \A leg \in Legs : SettledShown(ShotNow(seat), leg) <=> IsSettled(leg)
           /\ \A leg \in Legs : ShortShown(ShotNow(seat), leg) <=> AwaitsOwner(leg)
<1>1. PaymentsNow \in Payments
  BY DEF PaymentsNow, Payments
<1>2. PaymentsNow # None
  BY <1>1, AnswersAssumption
<1>3. ShotNow(seat).payments = PaymentsNow
  BY DEF ShotNow, WithPayments, WithAttestation, WithJob, Blank
<1>4. ASSUME NEW leg \in Legs
      PROVE  /\ SettledShown(ShotNow(seat), leg) <=> IsSettled(leg)
             /\ ShortShown(ShotNow(seat), leg) <=> AwaitsOwner(leg)
  BY <1>2, <1>3, <1>4 DEF SettledShown, ShortShown, PaymentsNow
<1> QED
  BY <1>4 DEF ShotNow, WithPayments, WithAttestation, WithJob, Blank

\* A balance that is neither paid nor waits on the owner has a door open.
LEMMA BalanceIsPayable ==
    ASSUME IInv, Fresh, job.status \in StagedStatuses,
           ~IsSettled("remainder"), ~AwaitsOwner("remainder")
    PROVE  \E rail \in Rails : DoorOpen("remainder", rail)
<1>1. Hired
  BY DEF IInv, StageOfHire, StagedStatuses
<1>2. job.rail \in Rails
  BY <1>1, HiredTerms DEF IInv, TypeOK, Jobs, OrNone
<1>3. job.price # None /\ settled["deposit"].rail = job.rail
  BY <1>1, HiredTerms DEF IInv, AgreementSealed, Agreed, Legs
<1>4. IsHeld("remainder") => held["remainder"].rail = job.rail /\ ~held["remainder"].awaitingOwner
  BY DEF IInv, RemainderMoney, AwaitsOwner
<1>5. DoorOpen("remainder", job.rail)
  BY <1>3, <1>4 DEF DoorOpen, LegStatusEligible
<1> QED
  BY <1>2, <1>5

\* So has a deposit on an agreement both have signed.
LEMMA DepositIsPayable ==
    ASSUME IInv, Fresh, job.status = "proposed", Agreed(job),
           ~IsSettled("deposit"), ~AwaitsOwner("deposit")
    PROVE  \E rail \in Rails : DoorOpen("deposit", rail)
<1>1. job.rail \in OrNone(Rails) /\ job.price # None
  BY DEF IInv, TypeOK, Jobs, Agreed
<1>2. CASE IsHeld("deposit")
  <2>1. held["deposit"].rail \in Rails
    BY <1>2 DEF IInv, TypeOK, Holds, IsHeld, OrNone, Legs
  <2>2. DoorOpen("deposit", held["deposit"].rail)
    BY <1>1, <1>2 DEF DoorOpen, LegStatusEligible, IInv, DepositMoney, AwaitsOwner
  <2> QED
    BY <2>1, <2>2
<1>3. CASE ~IsHeld("deposit")
  <2>1. PICK rail \in Rails : job.rail \in {None, rail}
    BY <1>1, PayableAssumption DEF OrNone
  <2>2. DoorOpen("deposit", rail)
    BY <1>1, <1>3, <2>1 DEF DoorOpen, LegStatusEligible
  <2> QED
    BY <2>2
<1> QED
  BY <1>2, <1>3

\* Every control of a page drawn this instant, and why it is there.
LEMMA OfferedNow ==
    ASSUME NEW seat \in Seats, NEW control \in Offered(ShotNow(seat))
    PROVE  \/ /\ control \in {"withdraw", "decline"}
              /\ job.status = "draft" \/ (job.status = "proposed" /\ ~Agreed(job))
           \/ /\ control = "pay-deposit" /\ seat = "buyer"
              /\ job.status = "proposed" /\ Agreed(job) /\ ~AwaitsOwner("deposit")
           \/ /\ control \in {"pay-balance", "staged-decline", "redo"} /\ seat = "buyer"
              /\ job.status = "staged" /\ ~IsSettled("remainder") /\ ~AwaitsOwner("remainder")
              /\ control = "redo" => job.redoUsed < RedoAllowance
           \/ control = "cited-close" /\ seat = "buyer" /\ job.status = "submitted"
           \/ /\ control = "accept-short" /\ seat = "owner"
              /\ \E leg \in Legs : AwaitsOwner(leg)
           \/ control = "stage" /\ seat = "owner" /\ job.status \in {"confirmed", "redo_requested"}
           \/ control = "redo-refuse" /\ seat = "owner" /\ job.status = "redo_requested"
<1> DEFINE shot == ShotNow(seat)
<1> HIDE DEF shot
<1>1. /\ shot.seat = seat /\ shot.status = job.status /\ shot.agreed = Agreed(job)
      /\ shot.redoUsed = job.redoUsed
      /\ \A leg \in Legs : SettledShown(shot, leg) <=> IsSettled(leg)
      /\ \A leg \in Legs : ShortShown(shot, leg) <=> AwaitsOwner(leg)
  BY ShotNowShows DEF shot
<1>2. control \in Offered(shot)
  BY DEF shot
<1>3. CASE seat = "owner"
  BY <1>1, <1>2, <1>3 DEF Offered, OperatorJobPage, WalkAwayOpen
<1>4. CASE seat = "buyer"
  <2>1. control \in JobPage(shot) \/ control \in DepositPage(shot) \/ control \in StagedPage(shot)
        \/ control \in PullRequestPage(shot)
    BY <1>1, <1>2, <1>4 DEF Offered
  <2>2. CASE control \in JobPage(shot)
    BY <1>1, <2>2 DEF JobPage, WalkAwayOpen
  <2>3. CASE control \in DepositPage(shot)
    BY <1>1, <1>4, <2>3 DEF DepositPage, Legs
  <2>4. CASE control \in StagedPage(shot)
    BY <1>1, <1>4, <2>4 DEF StagedPage, ChoicesOpen, Legs
  <2>5. CASE control \in PullRequestPage(shot)
    BY <1>1, <1>4, <2>5 DEF PullRequestPage
  <2> QED
    BY <2>1, <2>2, <2>3, <2>4, <2>5
<1> QED
  BY <1>3, <1>4 DEF Seats

\* Which the route behind it takes.
LEMMA OfferedIsTaken ==
    ASSUME IInv, Fresh, NEW seat \in Seats, NEW control \in Offered(ShotNow(seat))
    PROVE  \/ Takes(control, ShotNow(seat))
           \/ control \in {"redo", "staged-decline"} /\ IsHeld("remainder")
           \/ control \in {"withdraw", "decline"} /\ (IsHeld("deposit") \/ IsSettled("deposit"))
<1> DEFINE shot == ShotNow(seat)
<1> HIDE DEF shot
<1>1. \A leg \in Legs : ShortShown(shot, leg) <=> AwaitsOwner(leg)
  BY ShotNowShows DEF shot
<1>2. ASSUME control \in {"withdraw", "decline"},
             job.status \in {"draft", "proposed"}, ~IsHeld("deposit"), ~IsSettled("deposit")
      PROVE  Takes(control, shot)
  BY <1>2 DEF Takes, CanWithdraw, CanDecline, CanMove, DepositHolds
<1>3. ASSUME control = "pay-deposit", job.status = "proposed", Agreed(job), ~AwaitsOwner("deposit")
      PROVE  Takes(control, shot)
  BY <1>3, DepositIsPayable DEF Takes
<1>4. ASSUME control \in {"pay-balance", "staged-decline", "redo"}, job.status = "staged",
             ~IsSettled("remainder"), ~AwaitsOwner("remainder"),
             control = "redo" => job.redoUsed < RedoAllowance,
             control \in {"redo", "staged-decline"} => ~IsHeld("remainder")
      PROVE  Takes(control, shot)
  <2>1. CASE control = "pay-balance"
    BY <1>4, <2>1, BalanceIsPayable DEF Takes, StagedStatuses
  <2>2. CASE control = "staged-decline"
    BY <1>4, <2>2 DEF Takes, CanMove, BalanceUntouched
  <2>3. CASE control = "redo"
    BY <1>4, <2>3 DEF Takes, CanRequestRedo, CanMove, BalanceUntouched
  <2> QED
    BY <1>4, <2>1, <2>2, <2>3
<1>5. ASSUME control = "cited-close", job.status = "submitted"
      PROVE  Takes(control, shot)
  BY <1>5 DEF Takes, CanMove, IInv, StageOfHire, EndingTellsPayment
<1>6. ASSUME control = "accept-short", NEW leg \in Legs, AwaitsOwner(leg)
      PROVE  Takes(control, shot)
  <2>1. AwaitsOwner(ShortLeg(shot))
    BY <1>1, <1>6 DEF ShortLeg, Legs
  <2>2. ~IsSettled(ShortLeg(shot))
    BY <2>1 DEF IInv, DepositMoney, RemainderMoney, AwaitsOwner, ShortLeg
  <2> QED
    BY <1>6, <2>1, <2>2 DEF Takes
<1>7. ASSUME control \in {"stage", "redo-refuse"},
             job.status = "redo_requested" \/ (control = "stage" /\ job.status = "confirmed")
      PROVE  Takes(control, shot)
  BY <1>7 DEF Takes, CanMove, CanRefuseRedo
<1> QED
  BY <1>2, <1>3, <1>4, <1>5, <1>6, <1>7, OfferedNow DEF shot

\* A page that was just drawn offers what the route behind it takes (job.js, deposit.js,
\* staged.js, pullrequest.js, operatorjob.js and the guards of app.ts).
THEOREM PagesOfferTheirRoutes == PagesSpec => []PagesOfferWhatIsTaken
<1>1. IInv => PagesOfferWhatIsTaken
  BY OfferedIsTaken DEF PagesOfferWhatIsTaken
<1> QED
  BY <1>1, PagesInvariant, PTL DEF PagesInv, HireInv

--------------------------------------------------------------------------------
(* What the lists say.                                                          *)

\* A hire nobody has confirmed has no clock to run.
LEMMA PendingIsFresh == IsPending(job) => Fresh
<1>1. IsPending(job) => job.status \in {"draft", "proposed"}
  BY DEF IsPending, Bucket
<1> QED
  BY <1>1, LoadMoves DEF StagedStatuses

\* What a route takes is one of the controls of the page.
LEMMA OneIsTaken ==
    ASSUME NEW controls, NEW shot, NEW control \in controls, Takes(control, shot)
    PROVE  TakesOne(controls, shot)
BY DEF TakesOne

\* A hire said to wait for the buyer.
LEMMA WaitingBuyer ==
    ASSUME HireInv, Fresh, BuyerSection(job) = "waiting"
    PROVE  BuyerMoves \/ BalanceIsElsewhere
<1> DEFINE shot == ShotNow("buyer")
<1> HIDE DEF shot
<1>1. /\ shot.status = job.status /\ shot.seen = Len(attested)
      /\ \A leg \in Legs : SettledShown(shot, leg) <=> IsSettled(leg)
      /\ \A leg \in Legs : ShortShown(shot, leg) <=> AwaitsOwner(leg)
  BY ShotNowShows DEF shot, Seats
<1>2. CASE IsPending(job)
  <2>1. job.terms # {} /\ job.terms \X {"agent"} \subseteq job.signed
    BY <1>2 DEF BuyerSection, WaitingOn
  <2>2. ASSUME "agent" \in job.priceBy
        PROVE  Agreed(BuyerSigns(job))
    <3>1. /\ BuyerSigns(job).terms = job.terms /\ BuyerSigns(job).price = job.price
          /\ BuyerSigns(job).signed = job.signed \cup (job.terms \X {"buyer"})
          /\ BuyerSigns(job).priceBy = job.priceBy \cup {"buyer"}
      BY DEF BuyerSigns, HireInv, IInv, TypeOK, Jobs
    <3>2. job.price # None /\ job.priceBy \cup {"buyer"} = Parties
      BY <2>2 DEF HireInv, OffersAreReal, IInv, TypeOK, Jobs, Parties
    <3>3. job.terms \X Parties \subseteq job.signed \cup (job.terms \X {"buyer"})
      BY <2>1 DEF Parties
    <3> QED
      BY <2>1, <3>1, <3>2, <3>3 DEF Agreed
  <2>3. job.status \notin {"staged", "submitted"}
    BY <1>2 DEF IsPending, Bucket
  <2>4. BuyerMoves <=> ("agent" \in job.priceBy => Agreed(BuyerSigns(job)))
    BY <1>2, <2>3 DEF BuyerMoves
  <2> QED
    BY <2>2, <2>4
<1>3. CASE ~IsPending(job)
  <2>1. job.status \in {"staged", "submitted"}
    BY <1>3 DEF BuyerSection, IsPending, Bucket
  <2>2. CASE job.status = "staged" /\ ~BalanceIsElsewhere
    <3>1. "pay-balance" \in StagedPage(shot)
      BY <1>1, <2>2, StagedIsAttested
         DEF StagedPage, ChoicesOpen, BalanceIsElsewhere, Legs, StagedStatuses
    <3>2. Takes("pay-balance", shot)
      BY <2>2, BalanceIsPayable DEF Takes, BalanceIsElsewhere, HireInv, StagedStatuses
    <3> QED
      BY <1>3, <2>2, <3>1, <3>2, OneIsTaken DEF BuyerMoves, shot
  <2>3. CASE job.status = "submitted"
    <3>1. "cited-close" \in PullRequestPage(shot)
      BY <1>1, <2>3 DEF PullRequestPage
    <3>2. Takes("cited-close", shot)
      BY <2>3 DEF Takes, CanMove, HireInv, IInv, StageOfHire, EndingTellsPayment
    <3>3. TakesOne(PullRequestPage(shot), shot)
      BY <3>1, <3>2, OneIsTaken
    <3> QED
      BY <1>3, <2>3, <3>3 DEF BuyerMoves, shot
  <2> QED
    BY <2>1, <2>2, <2>3
<1> QED
  BY <1>2, <1>3

\* A hire on which nobody has written a line yet.
LEMMA NoLinesYet ==
    ASSUME HireInv, job.status \in {"draft", "proposed"}, job.terms = {} \/ job.status = "draft"
    PROVE  CanPropose(job, IsSettled("deposit"))
BY DEF CanPropose, HireInv, OffersAreReal, IInv, DepositMoney

\* A hire said to be in progress.
LEMMA ProgressAgent ==
    ASSUME HireInv, Fresh, BuyerSection(job) = "progress"
    PROVE  AgentMoves
<1>1. CASE IsPending(job)
  <2>1. job.status \in {"draft", "proposed"}
    BY <1>1 DEF IsPending, Bucket
  <2>2. CASE job.terms = {} \/ job.status = "draft"
    BY <1>1, <2>1, <2>2, NoLinesYet DEF AgentMoves
  <2>3. CASE job.terms # {} /\ job.status = "proposed"
    <3>1. ~(job.terms \X {"agent"} \subseteq job.signed)
      BY <1>1, <2>3 DEF BuyerSection, WaitingOn
    <3>2. PICK line \in job.terms : <<line, "agent">> \notin job.signed
      BY <3>1
    <3> QED
      BY <1>1, <2>3, <3>2 DEF AgentMoves, CanAcceptCriterion
  <2> QED
    BY <2>1, <2>2, <2>3
<1>2. CASE ~IsPending(job)
  <2>1. job.status \in {"confirmed", "redo_requested"}
    BY <1>2 DEF BuyerSection, IsPending, Bucket
  <2>2. Takes("stage", ShotNow("owner"))
    BY <2>1 DEF Takes, CanMove
  <2> QED
    BY <1>2, <2>2, OneIsTaken DEF AgentMoves
<1> QED
  BY <1>1, <1>2

\* A hire that is over.
LEMMA OverOffersNothing ==
    ASSUME BuyerSection(job) = "over", NEW seat \in Seats
    PROVE  ~TakesOne(Offered(ShotNow(seat)) \ {"accept-short"}, ShotNow(seat))
<1>1. job.status \notin {"draft", "proposed", "confirmed", "staged", "redo_requested", "submitted"}
  BY DEF BuyerSection, IsPending, Bucket, WaitingOn
<1>2. \A control \in Offered(ShotNow(seat)) : control = "accept-short"
  BY <1>1, OfferedNow
<1> QED
  BY <1>2 DEF TakesOne

\* The date a list shows.
LEMMA ListsAreDated ==
    ASSUME HireInv, Fresh
    PROVE  /\ BuyerSection(job) # "over" /\ ~IsPending(job) => ListDate(Clocked(job)) # None
           /\ Bucket(job.status) = "shipped" => IsRecent(Clocked(job))
<1>1. job.status = "confirmed" => job.confirmedAt # None
  BY DEF HireInv, IInv, StageOfHire, Hired
<1>2. job.status = "staged" => job.stagedAt # None
  BY DEF HireInv, Windows, StagedStatuses
<1>3. job.status = "submitted" => job.submittedAt # None
  BY DEF HireInv, IInv, StageOfHire
<1>4. job.status = "completed" => job.mergedAt # None
  BY DEF HireInv, OffersAreReal
<1>5. Clocked(job) = job
  BY DEF Clocked, WithStatus, Fresh, HireInv, IInv, TypeOK, Jobs
<1>6. ASSUME BuyerSection(job) # "over", ~IsPending(job)
      PROVE  ListDate(job) # None
  <2>1. job.status \in {"confirmed", "staged", "redo_requested", "submitted"}
    BY <1>6 DEF BuyerSection, IsPending, Bucket
  <2> QED
    BY <1>1, <1>2, <1>3, <2>1, WordsAssumption DEF ListDate
<1>7. ASSUME Bucket(job.status) = "shipped"
      PROVE  IsRecent(job)
  <2>1. job.status \in {"completed", "deemed_completed"}
    BY <1>7 DEF Bucket
  <2>2. ListDate(job) # None
    BY <1>4, <2>1, WordsAssumption DEF ListDate
  <2>3. BuyerSection(job) = "over"
    BY <2>1 DEF BuyerSection, IsPending, Bucket
  <2> QED
    BY <2>2, <2>3 DEF IsRecent
<1> QED
  BY <1>5, <1>6, <1>7

\* Where the pinned line sends its reader.
LEMMA NextStepIsOpen ==
    ASSUME HireInv, Fresh, NEW seat \in Seats
    PROVE  LET shot == ShotNow(seat)
               step == NextStep(shot)
           IN  /\ step \in {"accept-short", "pay-deposit"} => step \in Offered(shot) /\ Takes(step, shot)
               /\ step = "review" => StagedPage(shot) # {} \/ IsSettled("remainder")
               /\ step = "pull-request" /\ seat = "buyer" => PullRequestPage(shot) # {}
<1> DEFINE shot == ShotNow(seat)
           step == NextStep(shot)
<1>1. /\ shot.seat = seat /\ shot.status = job.status /\ shot.agreed = Agreed(job)
      /\ shot.seen = Len(attested)
      /\ \A leg \in Legs : SettledShown(shot, leg) <=> IsSettled(leg)
      /\ \A leg \in Legs : ShortShown(shot, leg) <=> AwaitsOwner(leg)
  BY ShotNowShows
<1> HIDE DEF shot
<1>2. CASE \E leg \in Legs : ShortShown(shot, leg)
  <2>1. step = IF seat = "owner" THEN "accept-short" ELSE None
    BY <1>1, <1>2 DEF NextStep
  <2>2. CASE seat = "owner"
    <3>1. step = "accept-short" /\ "accept-short" \in Offered(shot)
      BY <1>1, <1>2, <2>1, <2>2 DEF Offered, OperatorJobPage
    <3>2. "accept-short" \in Offered(ShotNow(seat))
      BY <3>1 DEF shot
    <3>3. Takes("accept-short", shot)
      BY <3>2, OfferedIsTaken DEF HireInv, shot
    <3> QED
      BY <3>1, <3>3 DEF shot
  <2>3. CASE seat # "owner"
    BY <2>1, <2>3, WordsAssumption DEF shot
  <2> QED
    BY <2>2, <2>3
<1>3. CASE ~\E leg \in Legs : ShortShown(shot, leg)
  <2>1. step = CASE job.status = "proposed" ->
                      IF seat = "buyer" /\ Agreed(job) THEN "pay-deposit" ELSE "agreement"
                 [] job.status = "staged" /\ seat = "buyer" -> "review"
                 [] job.status = "submitted" -> "pull-request"
                 [] OTHER -> None
    BY <1>1, <1>3 DEF NextStep
  <2>2. ~\E leg \in Legs : AwaitsOwner(leg)
    BY <1>1, <1>3
  <2>3. ASSUME step = "pay-deposit"
        PROVE  "pay-deposit" \in Offered(shot) /\ Takes("pay-deposit", shot)
    <3>1. job.status = "proposed" /\ seat = "buyer" /\ Agreed(job)
      BY <2>1, <2>3, WordsAssumption
    <3>2. "pay-deposit" \in Offered(shot)
      BY <1>1, <2>2, <3>1 DEF Offered, DepositPage, Legs
    <3>3. "pay-deposit" \in Offered(ShotNow(seat))
      BY <3>2 DEF shot
    <3>4. Takes("pay-deposit", shot)
      BY <3>3, OfferedIsTaken DEF HireInv, shot
    <3> QED
      BY <3>2, <3>4
  <2>4. ASSUME step = "review"
        PROVE  StagedPage(shot) # {} \/ IsSettled("remainder")
    <3>1. job.status = "staged"
      BY <2>1, <2>4, WordsAssumption
    <3>2. ~IsSettled("remainder") => "pay-balance" \in StagedPage(shot)
      BY <1>1, <2>2, <3>1, StagedIsAttested DEF StagedPage, ChoicesOpen, Legs, StagedStatuses
    <3> QED
      BY <3>2
  <2>5. ASSUME step = "pull-request"
        PROVE  PullRequestPage(shot) # {}
    <3>1. job.status = "submitted"
      BY <2>1, <2>5, WordsAssumption
    <3> QED
      BY <1>1, <3>1 DEF PullRequestPage
  <2>6. step # "accept-short"
    BY <2>1, WordsAssumption
  <2> QED
    BY <2>3, <2>4, <2>5, <2>6 DEF shot
<1> QED
  BY <1>2, <1>3

\* The lists tell each side the truth about whose turn it is (job-list.ts, jobs.js,
\* dashboard.js and nextStep of messages.js).
THEOREM ListsAreTrue == PagesSpec => []ListsTellTheTurn
<1>1. ASSUME HireInv PROVE ListsTellTheTurn
  <2>1. ASSUME Fresh, OfferState(job) = "draft the agreement"
        PROVE  CanPropose(job, IsSettled("deposit"))
    <3>1. IsPending(job)
      BY <2>1, WordsAssumption DEF OfferState, IsOffered
    <3>2. WaitingOn(job) = "noReply"
      BY <2>1, <3>1 DEF OfferState, IsOffered, WaitingOn
    <3>3. job.status \in {"draft", "proposed"} /\ job.terms = {}
      BY <3>1, <3>2 DEF IsPending, Bucket, WaitingOn
    <3> QED
      BY <1>1, <3>3, NoLinesYet
  <2> QED
    BY <1>1, <2>1, PendingIsFresh, WaitingBuyer, ProgressAgent, OverOffersNothing, ListsAreDated,
       NextStepIsOpen DEF ListsTellTheTurn
<1> QED
  BY <1>1, PagesInvariant, PTL DEF PagesInv
================================================================================
