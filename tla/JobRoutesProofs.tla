---------------------------- MODULE JobRoutesProofs ----------------------------
(* What overlapping requests cannot break, for any number of them.              *)
EXTENDS MCJobs, TLAPS

--------------------------------------------------------------------------------
(* What the functions of JobDomain do to the type of a row, and what the clocks  *)
(* can do to its status, for every value of its constants.                       *)

\* Every function of the domain takes a row to a row.
LEMMA RepricedType ==
    ASSUME NEW j \in Jobs, NEW offer \in Offers
    PROVE  Repriced(j, offer) \in Jobs
<1> DEFINE rail == IF offer.rail = None THEN j.rail ELSE offer.rail
           signers == IF j.price = offer.price /\ j.rail = rail THEN j.priceBy ELSE {}
<1>1. rail \in OrNone(Rails) /\ offer.price \in OrNone(Prices)
  BY DEF Jobs, Offers, OrNone
<1>2. signers \in SUBSET Parties
  BY DEF Jobs
<1>3. Repriced(j, offer) = [j EXCEPT !.price = offer.price, !.rail = rail, !.priceBy = signers]
  BY DEF Repriced, Jobs
<1> HIDE DEF rail, signers
<1> QED
  BY <1>1, <1>2, <1>3 DEF Jobs

LEMMA ProposedType ==
    ASSUME NEW j \in Jobs, NEW terms \in SUBSET Criteria, NEW offer \in OrNone(Offers)
    PROVE  Proposed(j, terms, offer) \in Jobs
<1> DEFINE priced == IF offer = None THEN j ELSE Repriced(j, offer)
<1>1. priced \in Jobs
  BY RepricedType DEF OrNone
<1>2. "proposed" \in Statuses
  BY DEF Statuses
<1> HIDE DEF priced
<1>3. [priced EXCEPT !.status = "proposed", !.terms = terms,
                     !.signed = @ \cap (terms \X Parties)] \in Jobs
  BY <1>1, <1>2 DEF Jobs
<1> QED
  BY <1>3 DEF Proposed, priced

\* A proposal rewrites the terms and nothing of the hire.
LEMMA ProposedRow ==
    ASSUME NEW j \in Jobs, NEW terms, NEW offer
    PROVE  LET next == Proposed(j, terms, offer)
           IN  /\ next.status = "proposed"
               /\ next.confirmedAt = j.confirmedAt
               /\ next.stagedAt = j.stagedAt
               /\ next.stagedCommit = j.stagedCommit
               /\ next.redoUsed = j.redoUsed
               /\ next.extension = j.extension
               /\ next.submittedAt = j.submittedAt
<1> DEFINE priced == IF offer = None THEN j ELSE Repriced(j, offer)
           SameHire(r) ==
               /\ r.confirmedAt = j.confirmedAt
               /\ r.stagedAt = j.stagedAt
               /\ r.stagedCommit = j.stagedCommit
               /\ r.redoUsed = j.redoUsed
               /\ r.extension = j.extension
               /\ r.submittedAt = j.submittedAt
<1>1. SameHire(priced)
  BY DEF Repriced, Jobs
<1>2. DOMAIN priced = DOMAIN NewJob
  BY DEF Repriced, Jobs, NewJob
<1> HIDE DEF priced
<1>3. [priced EXCEPT !.status = "proposed", !.terms = terms,
                     !.signed = @ \cap (terms \X Parties)].status = "proposed"
  BY <1>2 DEF NewJob
<1>4. SameHire([priced EXCEPT !.status = "proposed", !.terms = terms,
                              !.signed = @ \cap (terms \X Parties)])
  BY <1>1, <1>2 DEF NewJob
<1> QED
  BY <1>3, <1>4 DEF Proposed, priced

LEMMA SpecOfType ==
    ASSUME NEW j \in Jobs, j.price # None, j.rail # None
    PROVE  SpecOf(j) \in Specs
BY DEF SpecOf, Specs, Jobs, OrNone

LEMMA ConfirmedType ==
    ASSUME NEW j \in Jobs, NEW date \in Nat, CanConfirm(j)
    PROVE  Confirmed(j, date) \in Jobs
<1>1. SpecOf(j) \in Specs
  BY SpecOfType DEF CanConfirm, Agreed
<1>2. "confirmed" \in Statuses
  BY DEF Statuses
<1> QED
  BY <1>1, <1>2 DEF Confirmed, Jobs, OrNone

LEMMA AcceptedType ==
    ASSUME NEW j \in Jobs, NEW criterion \in Criteria, NEW party \in Parties
    PROVE  /\ CriterionAccepted(j, criterion, party) \in Jobs
           /\ PriceAccepted(j, party) \in Jobs
BY DEF CriterionAccepted, PriceAccepted, Jobs

LEMMA WithStatusType ==
    ASSUME NEW j \in Jobs, NEW status \in Statuses
    PROVE  WithStatus(j, status) \in Jobs
BY DEF WithStatus, Jobs

LEMMA StagedType ==
    ASSUME NEW j \in Jobs, NEW commit \in Commits, NEW date \in Nat
    PROVE  Staged(j, commit, date) \in Jobs
BY DEF Staged, Jobs, OrNone, Statuses

LEMMA RedoRequestedType ==
    ASSUME NEW j \in Jobs
    PROVE  RedoRequested(j) \in Jobs
<1>1. "redo_requested" \in Statuses
  BY DEF Statuses
<1>2. j.redoUsed + 1 \in Nat /\ j.extension + RedoLapseExtension \in Nat
  BY WindowsAssumption DEF Jobs
<1> QED
  BY <1>1, <1>2 DEF RedoRequested, Jobs

LEMMA SubmittedType ==
    ASSUME NEW j \in Jobs, NEW date \in Nat
    PROVE  Submitted(j, date) \in Jobs
BY DEF Submitted, Jobs, OrNone, Statuses

\* Where the clocks can move a row: only out of the status each of them watches,
\* to "unpaid" only when the caller says so, to "undelivered" only when paid.
LEMMA ClocksMove ==
    ASSUME NEW j, NEW date, NEW notUnpaid \in BOOLEAN, NEW paidAt,
           LapsedStatus(j, date, notUnpaid, paidAt) # j.status
    PROVE  LET next == LapsedStatus(j, date, notUnpaid, paidAt)
           IN  \/ j.status = "confirmed" /\ next = "expired_unstaged"
               \/ j.status \in StagedStatuses /\ next = "closed_unpaid" /\ ~notUnpaid /\ paidAt = None
               \/ j.status \in StagedStatuses /\ next = "paid_undelivered" /\ paidAt # None
               \/ j.status = "submitted" /\ next = "deemed_completed"
BY DEF LapsedStatus, ExpireUnstaged, LapseAtStaged, LapseUndelivered, DeemWindowHasPassed

--------------------------------------------------------------------------------
(* The inductive invariant. A blind write can put any copy in flight back, so    *)
(* the stored row is right only if every copy is; and since settlement rows are  *)
(* never deleted, a copy that was right when it was loaded stays right.          *)

\* A row is right about the agreement, the money and the redo allowance.
RowIsRight(j, depositPaid, remainderPaid) ==
    /\ j.status \in {"draft", "proposed"} => j.confirmedAt = None
    /\ j.status = "declined" => j.confirmedAt = None
    /\ j.confirmedAt # None => Agreed(j) /\ j.spec = SpecOf(j) /\ depositPaid
    /\ j.submittedAt # None => remainderPaid
    /\ j.status \in {"cited_closed", "paid_undelivered"} => remainderPaid
    /\ j.redoUsed <= RedoAllowance
    /\ j.extension = j.redoUsed * RedoLapseExtension

Paid(leg) == settled[leg] # None

RowStored == RowIsRight(row, Paid("deposit"), Paid("remainder"))

CopiesInFlight ==
    \A r \in Requests : RowIsRight(request[r].copy, Paid("deposit"), Paid("remainder"))

\* What the money question found is settled still; a decline that goes on was told
\* nothing is paid, so its copy is of a job never confirmed.
AnswersInFlight ==
    \A r \in Requests :
        /\ request[r].paid # None =>
               AskedLeg(request[r].route) \in Legs /\ Paid(AskedLeg(request[r].route))
        /\ request[r].phase = "asked" /\ request[r].route = "decline" /\ request[r].paid = None =>
               request[r].copy.confirmedAt = None

IInv == TypeOK /\ RowStored /\ CopiesInFlight /\ AnswersInFlight

--------------------------------------------------------------------------------
(* Rows.                                                                        *)

\* What is right stays right as more is paid.
LEMMA RightStaysRight ==
    ASSUME NEW j, NEW d \in BOOLEAN, NEW m \in BOOLEAN, NEW e \in BOOLEAN, NEW n \in BOOLEAN,
           RowIsRight(j, d, m), d => e, m => n
    PROVE  RowIsRight(j, e, n)
BY DEF RowIsRight

\* A row that keeps the agreement of a right one, and its instants.
KeepsAgreement(j, k) ==
    /\ k.terms = j.terms
    /\ k.signed = j.signed
    /\ k.price = j.price
    /\ k.rail = j.rail
    /\ k.priceBy = j.priceBy
    /\ k.spec = j.spec
    /\ k.confirmedAt = j.confirmedAt

LEMMA AgreementKept ==
    ASSUME NEW j, NEW k, KeepsAgreement(j, k)
    PROVE  (Agreed(j) <=> Agreed(k)) /\ SpecOf(j) = SpecOf(k)
BY DEF KeepsAgreement, Agreed, SpecOf

LEMMA NewStatusIsRight ==
    ASSUME NEW j \in Jobs, NEW d \in BOOLEAN, NEW m \in BOOLEAN, NEW status \in Statuses,
           RowIsRight(j, d, m),
           status \notin {"draft", "proposed"},
           status = "declined" => j.confirmedAt = None,
           status \in {"cited_closed", "paid_undelivered"} => m
    PROVE  RowIsRight(WithStatus(j, status), d, m)
<1> DEFINE k == WithStatus(j, status)
<1>1. KeepsAgreement(j, k) /\ k.status = status /\ k.submittedAt = j.submittedAt
      /\ k.redoUsed = j.redoUsed /\ k.extension = j.extension
  BY DEF WithStatus, Jobs, KeepsAgreement
<1>2. (Agreed(j) <=> Agreed(k)) /\ SpecOf(j) = SpecOf(k)
  BY <1>1, AgreementKept
<1> HIDE DEF k
<1>3. RowIsRight(k, d, m)
  BY <1>1, <1>2 DEF RowIsRight, KeepsAgreement
<1> QED
  BY <1>3 DEF k

\* Staging, a redo, a submission: the agreement and what was paid stand.
LEMMA StagedIsRight ==
    ASSUME NEW j \in Jobs, NEW d \in BOOLEAN, NEW m \in BOOLEAN, NEW commit, NEW now,
           RowIsRight(j, d, m)
    PROVE  RowIsRight(Staged(j, commit, now), d, m)
<1> DEFINE k == Staged(j, commit, now)
<1>1. KeepsAgreement(j, k) /\ k.status = "staged" /\ k.submittedAt = j.submittedAt
      /\ k.redoUsed = j.redoUsed /\ k.extension = j.extension
  BY DEF Staged, Jobs, KeepsAgreement
<1>2. (Agreed(j) <=> Agreed(k)) /\ SpecOf(j) = SpecOf(k)
  BY <1>1, AgreementKept
<1> HIDE DEF k
<1>3. RowIsRight(k, d, m)
  BY <1>1, <1>2 DEF RowIsRight, KeepsAgreement
<1> QED
  BY <1>3 DEF k

LEMMA RedoRequestedIsRight ==
    ASSUME NEW j \in Jobs, NEW d \in BOOLEAN, NEW m \in BOOLEAN,
           RowIsRight(j, d, m), CanRequestRedo(j)
    PROVE  RowIsRight(RedoRequested(j), d, m)
<1> DEFINE k == RedoRequested(j)
<1>1. KeepsAgreement(j, k) /\ k.status = "redo_requested" /\ k.submittedAt = j.submittedAt
      /\ k.redoUsed = j.redoUsed + 1 /\ k.extension = j.extension + RedoLapseExtension
  BY DEF RedoRequested, Jobs, KeepsAgreement
<1>2. (Agreed(j) <=> Agreed(k)) /\ SpecOf(j) = SpecOf(k)
  BY <1>1, AgreementKept
<1>3. j.redoUsed \in Nat /\ j.redoUsed < RedoAllowance /\ j.extension = j.redoUsed * RedoLapseExtension
  BY DEF CanRequestRedo, RowIsRight, Jobs
<1>4. (j.redoUsed + 1) * RedoLapseExtension = j.redoUsed * RedoLapseExtension + RedoLapseExtension
  BY <1>3, WindowsAssumption
<1>5. j.redoUsed + 1 <= RedoAllowance
  BY <1>3, WindowsAssumption
<1> HIDE DEF k
<1>6. RowIsRight(k, d, m)
  BY <1>1, <1>2, <1>3, <1>4, <1>5 DEF RowIsRight, KeepsAgreement
<1> QED
  BY <1>6 DEF k

LEMMA SubmittedIsRight ==
    ASSUME NEW j \in Jobs, NEW d \in BOOLEAN, NEW m \in BOOLEAN, NEW now,
           RowIsRight(j, d, m), m
    PROVE  RowIsRight(Submitted(j, now), d, m)
<1> DEFINE k == Submitted(j, now)
<1>1. KeepsAgreement(j, k) /\ k.status = "submitted"
      /\ k.redoUsed = j.redoUsed /\ k.extension = j.extension
  BY DEF Submitted, Jobs, KeepsAgreement
<1>2. (Agreed(j) <=> Agreed(k)) /\ SpecOf(j) = SpecOf(k)
  BY <1>1, AgreementKept
<1> HIDE DEF k
<1>3. RowIsRight(k, d, m)
  BY <1>1, <1>2 DEF RowIsRight, KeepsAgreement
<1> QED
  BY <1>3 DEF k

\* The exchange of terms: a row of one signing or rewriting its terms is not hired.
LEMMA ExchangedIsRight ==
    ASSUME NEW j \in Jobs, NEW d \in BOOLEAN, NEW m \in BOOLEAN, NEW k,
           RowIsRight(j, d, m), j.confirmedAt = None,
           k.status = "proposed", k.confirmedAt = j.confirmedAt, k.submittedAt = j.submittedAt,
           k.redoUsed = j.redoUsed, k.extension = j.extension
    PROVE  RowIsRight(k, d, m)
BY DEF RowIsRight

\* A proposal leaves the redo allowance alone.
LEMMA ProposedRedo ==
    ASSUME NEW j \in Jobs, NEW terms, NEW offer
    PROVE  LET next == Proposed(j, terms, offer)
           IN  next.redoUsed = j.redoUsed /\ next.extension = j.extension
<1> DEFINE priced == IF offer = None THEN j ELSE Repriced(j, offer)
<1>1. priced.redoUsed = j.redoUsed /\ priced.extension = j.extension
  BY DEF Repriced, Jobs
<1>2. DOMAIN priced = DOMAIN NewJob
  BY DEF Repriced, Jobs, NewJob
<1> HIDE DEF priced
<1>3. /\ [priced EXCEPT !.status = "proposed", !.terms = terms,
                        !.signed = @ \cap (terms \X Parties)].redoUsed = j.redoUsed
      /\ [priced EXCEPT !.status = "proposed", !.terms = terms,
                        !.signed = @ \cap (terms \X Parties)].extension = j.extension
  BY <1>1, <1>2 DEF NewJob
<1> QED
  BY <1>3 DEF Proposed, priced

LEMMA ConfirmedIsRight ==
    ASSUME NEW j \in Jobs, NEW d \in BOOLEAN, NEW m \in BOOLEAN, NEW now \in Nat,
           RowIsRight(j, d, m), d, CanConfirm(j)
    PROVE  RowIsRight(Confirmed(j, now), d, m)
<1> DEFINE k == Confirmed(j, now)
<1>1. /\ k.terms = j.terms /\ k.signed = j.signed /\ k.price = j.price /\ k.rail = j.rail
      /\ k.priceBy = j.priceBy /\ k.spec = SpecOf(j) /\ k.status = "confirmed"
      /\ k.submittedAt = j.submittedAt /\ k.redoUsed = j.redoUsed /\ k.extension = j.extension
  BY DEF Confirmed, Jobs
<1>2. Agreed(j)
  BY DEF CanConfirm
<1> HIDE DEF k
<1>3. Agreed(k) /\ k.spec = SpecOf(k)
  BY <1>1, <1>2 DEF Agreed, SpecOf
<1>4. RowIsRight(k, d, m)
  BY <1>1, <1>3 DEF RowIsRight
<1> QED
  BY <1>4 DEF k

--------------------------------------------------------------------------------
(* What the routes write.                                                       *)

\* The rail the deposit filled in.
Filled(j, paid) == [j EXCEPT !.rail = IF @ = None /\ paid # None THEN paid.rail ELSE @]

LEMMA FilledIsRight ==
    ASSUME NEW j \in Jobs, NEW d \in BOOLEAN, NEW m \in BOOLEAN, NEW paid \in OrNone(Settlements),
           RowIsRight(j, d, m), j.confirmedAt = None
    PROVE  Filled(j, paid) \in Jobs /\ RowIsRight(Filled(j, paid), d, m)
<1> DEFINE rail == IF j.rail = None /\ paid # None THEN paid.rail ELSE j.rail
           k == [j EXCEPT !.rail = rail]
<1>1. rail \in OrNone(Rails)
  BY DEF Jobs, OrNone, Settlements
<1>2. Filled(j, paid) = k
  BY DEF Filled, Jobs
<1> HIDE DEF rail
<1>3. k \in Jobs /\ k.status = j.status /\ k.confirmedAt = j.confirmedAt
      /\ k.submittedAt = j.submittedAt /\ k.redoUsed = j.redoUsed /\ k.extension = j.extension
  BY <1>1 DEF Jobs
<1> HIDE DEF k
<1>4. RowIsRight(k, d, m)
  BY <1>3 DEF RowIsRight
<1> QED
  BY <1>2, <1>3, <1>4

\* Whatever a route writes from a right copy is a right row: `paid` is what its
\* money question found, settled still.
LEMMA WritesAreRight ==
    ASSUME NEW j \in Jobs, NEW route \in Routes, NEW paid \in OrNone(Settlements), today \in Nat,
           NEW d \in BOOLEAN, NEW m \in BOOLEAN, RowIsRight(j, d, m),
           paid # None /\ AskedLeg(route) = "deposit" => d,
           paid # None /\ AskedLeg(route) = "remainder" => m,
           route = "decline" /\ paid = None => j.confirmedAt = None,
           NEW next \in Writes(route, j, paid)
    PROVE  next \in Jobs /\ RowIsRight(next, d, m)
<1>1. CASE route = "criteria"
  <2>1. CanPropose(j, paid # None)
    BY <1>1 DEF Writes, When
  <2>2. PICK terms \in SUBSET Criteria \ {{}}, offer \in OrNone(Offers) :
            next = Proposed(j, terms, offer)
    BY <1>1 DEF Writes, When
  <2>3. next \in Jobs
    BY <2>2, ProposedType
  <2>4. j.confirmedAt = None
    BY <2>1 DEF CanPropose, RowIsRight
  <2> QED
    BY <2>2, <2>3, <2>4, ProposedRow, ProposedRedo, ExchangedIsRight
<1>2. CASE route = "criterion"
  <2>1. PICK criterion \in Criteria, party \in Parties :
            CanAcceptCriterion(j, criterion) /\ next = CriterionAccepted(j, criterion, party)
    BY <1>2 DEF Writes
  <2>2. next \in Jobs
    BY <2>1, AcceptedType
  <2>3. j.status = "proposed" /\ j.confirmedAt = None
    BY <2>1 DEF CanAcceptCriterion, RowIsRight
  <2>4. next.status = j.status /\ next.confirmedAt = j.confirmedAt
        /\ next.submittedAt = j.submittedAt /\ next.redoUsed = j.redoUsed
        /\ next.extension = j.extension
    BY <2>1 DEF CriterionAccepted, Jobs
  <2> QED
    BY <2>2, <2>3, <2>4, ExchangedIsRight
<1>3. CASE route = "price"
  <2>1. PICK party \in Parties : CanAcceptPrice(j) /\ next = PriceAccepted(j, party)
    BY <1>3 DEF Writes, When
  <2>2. next \in Jobs
    BY <2>1 DEF PriceAccepted, Jobs
  <2>3. j.status = "proposed" /\ j.confirmedAt = None
    BY <2>1 DEF CanAcceptPrice, RowIsRight
  <2>4. next.status = j.status /\ next.confirmedAt = j.confirmedAt
        /\ next.submittedAt = j.submittedAt /\ next.redoUsed = j.redoUsed
        /\ next.extension = j.extension
    BY <2>1 DEF PriceAccepted, Jobs
  <2> QED
    BY <2>2, <2>3, <2>4, ExchangedIsRight
<1>4. CASE route = "confirm"
  <2>1. paid # None /\ CanConfirm(Filled(j, paid)) /\ next = Confirmed(Filled(j, paid), today)
    BY <1>4 DEF Writes, When, Filled
  <2>2. j.confirmedAt = None
    <3>1. Filled(j, paid).status = "proposed"
      BY <2>1 DEF CanConfirm, CanMove
    <3>2. Filled(j, paid).status = j.status
      BY DEF Filled, Jobs
    <3> QED
      BY <3>1, <3>2 DEF RowIsRight
  <2>3. Filled(j, paid) \in Jobs /\ RowIsRight(Filled(j, paid), d, m)
    BY <2>2, FilledIsRight
  <2>4. d
    BY <1>4, <2>1 DEF AskedLeg
  <2> QED
    BY <2>1, <2>3, <2>4, ConfirmedType, ConfirmedIsRight
<1>5. CASE route = "withdraw"
  <2>1. next = WithStatus(j, "withdrawn") /\ "withdrawn" \in Statuses
    BY <1>5 DEF Writes, When, Statuses
  <2> QED
    BY <2>1, WithStatusType, NewStatusIsRight
<1>6. CASE route = "decline"
  <2>1. CanDecline(j, paid # None) /\ next = WithStatus(j, "declined") /\ "declined" \in Statuses
    BY <1>6 DEF Writes, When, Statuses
  <2>2. j.confirmedAt = None
    BY <1>6, <2>1 DEF CanDecline
  <2> QED
    BY <2>1, <2>2, WithStatusType, NewStatusIsRight
<1>7. CASE route = "stage"
  <2>1. PICK commit \in Commits : next = Staged(j, commit, today)
    BY <1>7 DEF Writes, When
  <2> QED
    BY <2>1, StagedType, StagedIsRight
<1>8. CASE route = "staged-decline"
  <2>1. next = WithStatus(j, "staged_declined") /\ "staged_declined" \in Statuses
    BY <1>8 DEF Writes, When, Statuses
  <2> QED
    BY <2>1, WithStatusType, NewStatusIsRight
<1>9. CASE route = "redo"
  <2>1. CanRequestRedo(j) /\ next = RedoRequested(j)
    BY <1>9 DEF Writes, When
  <2> QED
    BY <2>1, RedoRequestedType, RedoRequestedIsRight
<1>10. CASE route = "redo-refuse"
  <2>1. next = WithStatus(j, "staged") /\ "staged" \in Statuses
    BY <1>10 DEF Writes, When, Statuses
  <2> QED
    BY <2>1, WithStatusType, NewStatusIsRight
<1>11. CASE route = "pull-request"
  <2>1. paid # None /\ next = Submitted(j, today)
    BY <1>11 DEF Writes, When
  <2>2. m
    BY <1>11, <2>1 DEF AskedLeg
  <2> QED
    BY <2>1, <2>2, SubmittedType, SubmittedIsRight
<1>12. CASE route = "cited-close"
  <2>1. paid # None /\ next = WithStatus(j, "cited_closed") /\ "cited_closed" \in Statuses
    BY <1>12 DEF Writes, When, Statuses
  <2>2. m
    BY <1>12, <2>1 DEF AskedLeg
  <2> QED
    BY <2>1, <2>2, WithStatusType, NewStatusIsRight
<1>13. CASE route \in {"pay-deposit", "pay-remainder", "read"}
  BY <1>13 DEF Writes
<1> QED
  BY <1>1, <1>2, <1>3, <1>4, <1>5, <1>6, <1>7, <1>8, <1>9, <1>10, <1>11, <1>12, <1>13 DEF Routes

--------------------------------------------------------------------------------
(* Requests.                                                                    *)

LEMMA FlyingType ==
    ASSUME TypeOK, NEW r \in Requests, request[r].phase # "none"
    PROVE  request[r] \in InFlight
BY DEF TypeOK, NoRequest

\* A step of one request: what it holds afterwards, and that no other one moves.
LEMMA StepMovesOne ==
    ASSUME TypeOK, NEW r \in Requests, request[r] \in InFlight,
           NEW phase \in {"loaded", "lapsing", "timely", "asked"}, NEW copy \in Jobs,
           NEW paid \in OrNone(Settlements), Step(r, phase, copy, paid)
    PROVE  /\ request' \in [Requests -> InFlight \cup {NoRequest}]
           /\ \A q \in Requests : q # r => request'[q] = request[q]
           /\ request'[r].phase = phase /\ request'[r].route = request[r].route
           /\ request'[r].copy = copy /\ request'[r].paid = paid
<1> DEFINE next == [request[r] EXCEPT !.phase = phase, !.copy = copy, !.paid = paid]
<1>1. next \in InFlight /\ next.phase = phase /\ next.route = request[r].route
      /\ next.copy = copy /\ next.paid = paid
  BY DEF InFlight
<1>2. request' = [request EXCEPT ![r] = next]
  BY DEF Step, TypeOK
<1> HIDE DEF next
<1> QED
  BY <1>1, <1>2 DEF TypeOK

LEMMA EndMovesOne ==
    ASSUME TypeOK, NEW r \in Requests, End(r)
    PROVE  /\ request' \in [Requests -> InFlight \cup {NoRequest}]
           /\ \A q \in Requests : q # r => request'[q] = request[q]
           /\ request'[r] = NoRequest
BY DEF TypeOK, End

\* Settlement rows are replaced, never deleted.
LEMMA NothingUnpaid ==
    ASSUME IInv, [Next]_vars
    PROVE  \A leg \in Legs : settled[leg] # None => settled'[leg] # None
<1> TypeOK
  BY DEF IInv
<1> SUFFICES ASSUME NEW r \in Requests, Record(r)
             PROVE  \A leg \in Legs : settled[leg] # None => settled'[leg] # None
  BY DEF Next, vars, Load, RunClocks, WriteLapsed, AskMoney, WriteRow, Drop, Tick
<1>1. request[r] \in InFlight
  BY FlyingType DEF Record, Ready
<1>2. PICK rail \in OpenRails(request[r].route, request[r].copy, request[r].paid) :
          settled' = [settled EXCEPT ![AskedLeg(request[r].route)] =
                         [rail |-> rail, price |-> request[r].copy.price, at |-> today]]
  BY DEF Record
<1>3. [rail |-> rail, price |-> request[r].copy.price, at |-> today] \in Settlements
  BY <1>1, <1>2 DEF OpenRails, When, Settlements, InFlight, Jobs, OrNone, TypeOK
<1> QED
  BY <1>2, <1>3, RowsAssumption DEF TypeOK

\* The requests are right after a step if the one it moves is.
LEMMA OneRightMove ==
    ASSUME IInv, [Next]_vars, NEW r \in Requests,
           \A q \in Requests : q # r => request'[q] = request[q],
           RowIsRight(request'[r].copy, settled'["deposit"] # None, settled'["remainder"] # None),
           request'[r].paid # None =>
               /\ AskedLeg(request'[r].route) \in Legs
               /\ settled'[AskedLeg(request'[r].route)] # None,
           /\ request'[r].phase = "asked"
           /\ request'[r].route = "decline"
           /\ request'[r].paid = None
           => request'[r].copy.confirmedAt = None
    PROVE  CopiesInFlight' /\ AnswersInFlight'
<1>1. ASSUME NEW q \in Requests
      PROVE  /\ RowIsRight(request'[q].copy, settled'["deposit"] # None,
                           settled'["remainder"] # None)
             /\ request'[q].paid # None =>
                    /\ AskedLeg(request'[q].route) \in Legs
                    /\ settled'[AskedLeg(request'[q].route)] # None
             /\ /\ request'[q].phase = "asked"
                /\ request'[q].route = "decline"
                /\ request'[q].paid = None
                => request'[q].copy.confirmedAt = None
  <2>1. CASE q = r
    BY <2>1
  <2>2. CASE q # r
    <3>1. request'[q] = request[q]
      BY <2>2
    <3>2. RowIsRight(request[q].copy, settled["deposit"] # None, settled["remainder"] # None)
      BY DEF IInv, CopiesInFlight, Paid
    <3>3. RowIsRight(request[q].copy, settled'["deposit"] # None, settled'["remainder"] # None)
      BY <3>2, NothingUnpaid, RightStaysRight DEF Legs
    <3> QED
      BY <3>1, <3>3, NothingUnpaid DEF IInv, AnswersInFlight, Paid
  <2> QED
    BY <2>1, <2>2
<1> QED
  BY <1>1 DEF CopiesInFlight, AnswersInFlight, Paid

LEMMA NothingIsRight ==
    ASSUME NEW d \in BOOLEAN, NEW m \in BOOLEAN
    PROVE  RowIsRight(NewJob, d, m) /\ NewJob \in Jobs
BY WindowsAssumption DEF RowIsRight, NewJob, Jobs, OrNone, Statuses

\* A request that ends holds nothing.
LEMMA OneEnds ==
    ASSUME IInv, [Next]_vars, NEW r \in Requests, End(r)
    PROVE  CopiesInFlight' /\ AnswersInFlight'
<1>1. request'[r] = NoRequest /\ \A q \in Requests : q # r => request'[q] = request[q]
  BY EndMovesOne DEF IInv
<1>2. NoRequest.paid = None /\ NoRequest.phase = "none" /\ NoRequest.copy = NewJob
  BY DEF NoRequest
<1> QED
  BY <1>1, <1>2, NothingIsRight, OneRightMove

--------------------------------------------------------------------------------
(* The steps.                                                                   *)

\* A step that leaves the row alone leaves it right.
LEMMA RowRests ==
    ASSUME IInv, [Next]_vars, row' = row
    PROVE  RowStored'
<1>1. RowIsRight(row, settled["deposit"] # None, settled["remainder"] # None)
  BY DEF IInv, RowStored, Paid
<1>2. RowIsRight(row, settled'["deposit"] # None, settled'["remainder"] # None)
  BY <1>1, NothingUnpaid, RightStaysRight DEF Legs
<1> QED
  BY <1>2 DEF RowStored, Paid

\* A step that settles nothing leaves a right row right when it is written.
LEMMA RowWritten ==
    ASSUME IInv, NEW next, row' = next, settled' = settled,
           RowIsRight(next, Paid("deposit"), Paid("remainder"))
    PROVE  RowStored'
BY DEF RowStored, Paid

LEMMA AskedLegs ==
    ASSUME NEW route, AskedLeg(route) # None
    PROVE  AskedLeg(route) \in Legs
BY DEF AskedLeg, Legs

LEMMA CopyInFlight ==
    ASSUME IInv, NEW r \in Requests, request[r] \in InFlight
    PROVE  /\ request[r].copy \in Jobs
           /\ request[r].route \in Routes
           /\ request[r].paid \in OrNone(Settlements)
           /\ RowIsRight(request[r].copy, Paid("deposit"), Paid("remainder"))
           /\ request[r].paid # None =>
                  AskedLeg(request[r].route) \in Legs /\ Paid(AskedLeg(request[r].route))
BY DEF InFlight, IInv, CopiesInFlight, AnswersInFlight

LEMMA LoadStep ==
    ASSUME IInv, [Next]_vars, NEW r \in Requests, NEW route \in Routes, Load(r, route)
    PROVE  IInv'
<1> DEFINE next == [phase |-> IF HasClock(row.status) THEN "loaded" ELSE "timely",
                    route |-> route, copy |-> row, paid |-> None]
<1>1. request' = [request EXCEPT ![r] = next] /\ UNCHANGED <<row, settled, today>>
  BY DEF Load
<1>2. next \in InFlight
  BY DEF InFlight, OrNone, IInv, TypeOK
<1>3. request'[r] = next /\ \A q \in Requests : q # r => request'[q] = request[q]
  BY <1>1 DEF IInv, TypeOK
<1>4. TypeOK'
  BY <1>1, <1>2 DEF IInv, TypeOK
<1>5. RowIsRight(row, settled'["deposit"] # None, settled'["remainder"] # None)
  BY <1>1 DEF IInv, RowStored, Paid
<1>6. next.copy = row /\ next.paid = None /\ next.phase # "asked"
  OBVIOUS
<1>7. CopiesInFlight' /\ AnswersInFlight'
  BY <1>3, <1>5, <1>6, OneRightMove
<1> QED
  BY <1>1, <1>4, <1>7, RowRests DEF IInv

LEMMA RunClocksStep ==
    ASSUME IInv, [Next]_vars, NEW r \in Requests, RunClocks(r)
    PROVE  IInv'
<1> DEFINE copy == request[r].copy
           status == LapsedStatus(copy, today, PaidAt # None, PaidAt)
<1>1. UNCHANGED <<row, settled, today>> /\ request[r].phase = "loaded"
  BY DEF RunClocks
<1>2. request[r] \in InFlight
  BY <1>1, FlyingType DEF IInv
<1>3. /\ copy \in Jobs
      /\ RowIsRight(copy, Paid("deposit"), Paid("remainder"))
  BY <1>2, CopyInFlight
<1>4. CASE status # copy.status /\ Step(r, "lapsing", WithStatus(copy, status), None)
  <2>1. \/ copy.status = "confirmed" /\ status = "expired_unstaged"
        \/ copy.status \in StagedStatuses /\ status = "closed_unpaid"
        \/ copy.status \in StagedStatuses /\ status = "paid_undelivered" /\ PaidAt # None
        \/ copy.status = "submitted" /\ status = "deemed_completed"
    BY <1>4, ClocksMove
  <2>2. status \in Statuses /\ status \notin {"draft", "proposed", "declined"}
    BY <2>1 DEF Statuses
  <2>3. status \in {"cited_closed", "paid_undelivered"} => Paid("remainder")
    BY <2>1 DEF PaidAt, Paid
  <2> HIDE DEF status, copy
  <2>4. WithStatus(copy, status) \in Jobs
        /\ RowIsRight(WithStatus(copy, status), Paid("deposit"), Paid("remainder"))
    <3>1. Paid("deposit") \in BOOLEAN /\ Paid("remainder") \in BOOLEAN
      BY DEF Paid
    <3> QED
      BY <1>3, <2>2, <2>3, <3>1, WithStatusType, NewStatusIsRight
  <2>5. /\ request' \in [Requests -> InFlight \cup {NoRequest}]
        /\ \A q \in Requests : q # r => request'[q] = request[q]
        /\ request'[r].phase = "lapsing" /\ request'[r].copy = WithStatus(copy, status)
        /\ request'[r].paid = None
    BY <1>2, <1>4, <2>4, StepMovesOne DEF IInv, OrNone
  <2>6. CopiesInFlight' /\ AnswersInFlight'
    BY <1>1, <2>4, <2>5, OneRightMove DEF Paid
  <2>7. TypeOK'
    BY <1>1, <2>5 DEF IInv, TypeOK
  <2> QED
    BY <1>1, <2>6, <2>7, RowRests DEF IInv
<1>5. CASE Step(r, "timely", copy, None)
  <2>1. /\ request' \in [Requests -> InFlight \cup {NoRequest}]
        /\ \A q \in Requests : q # r => request'[q] = request[q]
        /\ request'[r].phase = "timely" /\ request'[r].copy = copy /\ request'[r].paid = None
    BY <1>2, <1>3, <1>5, StepMovesOne DEF IInv, OrNone
  <2>2. CopiesInFlight' /\ AnswersInFlight'
    BY <1>1, <1>3, <2>1, OneRightMove DEF Paid
  <2>3. TypeOK'
    BY <1>1, <2>1 DEF IInv, TypeOK
  <2> QED
    BY <1>1, <2>2, <2>3, RowRests DEF IInv
<1>6. CASE End(r)
  <2>1. TypeOK'
    BY <1>1, <1>6, EndMovesOne DEF IInv, TypeOK
  <2> QED
    BY <1>1, <1>6, <2>1, OneEnds, RowRests DEF IInv
<1> QED
  BY <1>4, <1>5, <1>6 DEF RunClocks

LEMMA AskMoneyStep ==
    ASSUME IInv, [Next]_vars, NEW r \in Requests, AskMoney(r)
    PROVE  IInv'
<1> DEFINE route == request[r].route
           copy == request[r].copy
           answer == settled[AskedLeg(route)]
<1>1. UNCHANGED <<row, settled, today>> /\ request[r].phase = "timely" /\ AskedLeg(route) # None
  BY DEF AskMoney, Asks
<1>2. request[r] \in InFlight
  BY <1>1, FlyingType DEF IInv
<1>3. copy \in Jobs /\ RowIsRight(copy, Paid("deposit"), Paid("remainder"))
  BY <1>2, CopyInFlight
<1>4. AskedLeg(route) \in Legs
  BY <1>1, AskedLegs
<1>5. answer \in OrNone(Settlements)
  BY <1>4 DEF IInv, TypeOK
<1>6. CASE Step(r, "asked", copy, answer)
  <2>1. /\ request' \in [Requests -> InFlight \cup {NoRequest}]
        /\ \A q \in Requests : q # r => request'[q] = request[q]
        /\ request'[r].phase = "asked" /\ request'[r].route = route
        /\ request'[r].copy = copy /\ request'[r].paid = answer
    BY <1>2, <1>3, <1>5, <1>6, StepMovesOne DEF IInv
  <2>2. route = "decline" /\ answer = None => copy.confirmedAt = None
    BY <1>3 DEF AskedLeg, Paid, RowIsRight
  <2>3. CopiesInFlight' /\ AnswersInFlight'
    BY <1>1, <1>3, <1>4, <2>1, <2>2, OneRightMove DEF Paid
  <2>4. TypeOK'
    BY <1>1, <2>1 DEF IInv, TypeOK
  <2> QED
    BY <1>1, <2>3, <2>4, RowRests DEF IInv
<1>7. CASE End(r)
  <2>1. TypeOK'
    BY <1>1, <1>7, EndMovesOne DEF IInv, TypeOK
  <2> QED
    BY <1>1, <1>7, <2>1, OneEnds, RowRests DEF IInv
<1> QED
  BY <1>6, <1>7 DEF AskMoney

LEMMA WriteRowStep ==
    ASSUME IInv, [Next]_vars, NEW r \in Requests, WriteRow(r)
    PROVE  IInv'
<1> DEFINE route == request[r].route
           copy == request[r].copy
           paid == request[r].paid
<1>1. /\ Ready(r) /\ End(r) /\ UNCHANGED <<settled, today>>
      /\ row' \in Writes(route, copy, paid)
  BY DEF WriteRow
<1>2. request[r] \in InFlight
  BY <1>1, FlyingType DEF IInv, Ready
<1>3. /\ copy \in Jobs /\ route \in Routes /\ paid \in OrNone(Settlements)
      /\ RowIsRight(copy, Paid("deposit"), Paid("remainder"))
      /\ paid # None => AskedLeg(route) \in Legs /\ Paid(AskedLeg(route))
  BY <1>2, CopyInFlight
<1>4. route = "decline" /\ paid = None => copy.confirmedAt = None
  <2> SUFFICES ASSUME route = "decline", paid = None
               PROVE  copy.confirmedAt = None
    OBVIOUS
  <2>1. Asks(route, copy)
    BY RowsAssumption DEF Asks, AskedLeg, Legs
  <2>2. request[r].phase = "asked"
    BY <1>1, <2>1 DEF Ready
  <2> QED
    BY <2>2 DEF IInv, AnswersInFlight
<1>5. Paid("deposit") \in BOOLEAN /\ Paid("remainder") \in BOOLEAN /\ today \in Nat
  BY DEF Paid, IInv, TypeOK
<1>6. PICK next \in Writes(route, copy, paid) : row' = next
  BY <1>1
<1> HIDE DEF route, copy, paid
<1>7. next \in Jobs /\ RowIsRight(next, Paid("deposit"), Paid("remainder"))
  BY <1>3, <1>4, <1>5, <1>6, WritesAreRight
<1>8. TypeOK'
  BY <1>1, <1>6, <1>7, EndMovesOne DEF IInv, TypeOK
<1>9. RowStored'
  BY <1>1, <1>6, <1>7, RowWritten
<1> QED
  BY <1>1, <1>8, <1>9, OneEnds DEF IInv

LEMMA WriteLapsedStep ==
    ASSUME IInv, [Next]_vars, NEW r \in Requests, WriteLapsed(r)
    PROVE  IInv'
<1>1. End(r) /\ UNCHANGED <<settled, today>> /\ row' \in {row, request[r].copy}
  BY DEF WriteLapsed
<1>2. request[r] \in InFlight
  BY FlyingType DEF IInv, WriteLapsed
<1>3. PICK next \in {row, request[r].copy} : row' = next
  BY <1>1
<1>4. next \in Jobs /\ RowIsRight(next, Paid("deposit"), Paid("remainder"))
  BY <1>2, CopyInFlight DEF IInv, RowStored, TypeOK
<1>5. TypeOK'
  BY <1>1, <1>3, <1>4, EndMovesOne DEF IInv, TypeOK
<1>6. RowStored'
  BY <1>1, <1>3, <1>4, RowWritten
<1> QED
  BY <1>1, <1>5, <1>6, OneEnds DEF IInv

LEMMA RecordStep ==
    ASSUME IInv, [Next]_vars, NEW r \in Requests, Record(r)
    PROVE  IInv'
<1> DEFINE route == request[r].route
           copy == request[r].copy
<1>1. End(r) /\ UNCHANGED <<row, today>> /\ Ready(r)
  BY DEF Record
<1>2. request[r] \in InFlight
  BY <1>1, FlyingType DEF IInv, Ready
<1>3. PICK rail \in OpenRails(route, copy, request[r].paid) :
          settled' = [settled EXCEPT ![AskedLeg(route)] =
                         [rail |-> rail, price |-> copy.price, at |-> today]]
  BY DEF Record
<1>4. [rail |-> rail, price |-> copy.price, at |-> today] \in Settlements
  BY <1>2, <1>3 DEF OpenRails, When, Settlements, InFlight, Jobs, OrNone, IInv, TypeOK
<1>5. settled' \in [Legs -> OrNone(Settlements)]
  BY <1>3, <1>4 DEF IInv, TypeOK, OrNone
<1>6. TypeOK'
  BY <1>1, <1>5, EndMovesOne DEF IInv, TypeOK
<1> QED
  BY <1>1, <1>6, OneEnds, RowRests DEF IInv

LEMMA DropStep ==
    ASSUME IInv, [Next]_vars, NEW r \in Requests, Drop(r)
    PROVE  IInv'
<1>1. End(r) /\ UNCHANGED <<row, settled, today>>
  BY DEF Drop
<1>2. TypeOK'
  BY <1>1, EndMovesOne DEF IInv, TypeOK
<1> QED
  BY <1>1, <1>2, OneEnds, RowRests DEF IInv

\* A day passes, or nothing happens.
LEMMA RestStep ==
    ASSUME IInv, Tick \/ UNCHANGED vars
    PROVE  IInv'
<1>1. UNCHANGED <<row, settled, request>> /\ today' \in Nat
  BY DEF Tick, vars, IInv, TypeOK
<1>2. TypeOK'
  BY <1>1 DEF IInv, TypeOK
<1>3. RowStored' /\ CopiesInFlight' /\ AnswersInFlight'
  BY <1>1 DEF IInv, RowStored, CopiesInFlight, AnswersInFlight, Paid
<1> QED
  BY <1>2, <1>3 DEF IInv

--------------------------------------------------------------------------------
(* The theorems.                                                                *)

\* In every reachable state the stored row and every copy in flight are right
\* about the agreement, the money and the redo allowance (loadForExchange, the
\* settlement gate, jobRepo.update).
THEOREM RoutesInvariant == Spec => []IInv
<1>1. Init => IInv
  <2> SUFFICES ASSUME Init PROVE IInv
    OBVIOUS
  <2>1. NewJob \in Jobs /\ RowIsRight(NewJob, Paid("deposit"), Paid("remainder"))
    BY NothingIsRight DEF Paid
  <2>2. TypeOK
    BY <2>1 DEF Init, TypeOK, OrNone
  <2>3. \A r \in Requests : request[r].copy = NewJob /\ request[r].paid = None
                            /\ request[r].phase = "none"
    BY DEF Init, NoRequest
  <2>4. RowStored /\ CopiesInFlight /\ AnswersInFlight
    BY <2>1, <2>3 DEF Init, RowStored, CopiesInFlight, AnswersInFlight
  <2> QED
    BY <2>2, <2>4 DEF IInv
<1>2. IInv /\ [Next]_vars => IInv'
  <2> SUFFICES ASSUME IInv, [Next]_vars PROVE IInv'
    OBVIOUS
  <2>1. ASSUME NEW r \in Requests, NEW route \in Routes, Load(r, route) PROVE IInv'
    BY <2>1, LoadStep
  <2>2. ASSUME NEW r \in Requests,
               \/ RunClocks(r)
               \/ WriteLapsed(r)
               \/ AskMoney(r)
               \/ WriteRow(r)
               \/ Record(r)
               \/ Drop(r)
        PROVE  IInv'
    BY <2>2, RunClocksStep, WriteLapsedStep, AskMoneyStep, WriteRowStep, RecordStep, DropStep
  <2>3. CASE Tick \/ UNCHANGED vars
    BY <2>3, RestStep
  <2> QED
    BY <2>1, <2>2, <2>3 DEF Next
<1> QED
  BY <1>1, <1>2, PTL DEF Spec

\* Type correctness: a blind write never stores what is no row.
THEOREM RoutesAreTyped == Spec => []TypeOK
<1>1. IInv => TypeOK
  BY DEF IInv
<1> QED
  BY <1>1, RoutesInvariant, PTL

\* However many requests overlap, a hire that is on is the agreement both parties
\* signed, with its deposit settled (confirmSpec and confirm's money question).
THEOREM RoutesAgree == Spec => []OneAgreement
<1>1. IInv => OneAgreement
  BY DEF IInv, RowStored, RowIsRight, Paid, OneAgreement
<1> QED
  BY <1>1, RoutesInvariant, PTL

\* However many requests overlap, work is submitted, closed with a reason or called
\* undelivered only when the remainder settled (pull-request, cited-close,
\* lapseUndelivered).
THEOREM RoutesDeliverPaid == Spec => []DeliveryIsPaid
<1>1. IInv => DeliveryIsPaid
  BY DEF IInv, RowStored, RowIsRight, Paid, DeliveryIsPaid
<1> QED
  BY <1>1, RoutesInvariant, PTL

\* However many redos race, the count, its share of the window and the allowance
\* agree in the row (requestRedo).
THEOREM RoutesKeepRedoBudget == Spec => []RedoBudgetKept
<1>1. IInv => RedoBudgetKept
  BY DEF IInv, RowStored, RowIsRight, RedoBudgetKept
<1> QED
  BY <1>1, RoutesInvariant, PTL

\* A declined hire was never confirmed, whatever overlapped the decline (decline's
\* money question, confirm).
THEOREM RoutesDeclineBeforeHire == Spec => []DeclinedBeforeHire
<1>1. IInv => DeclinedBeforeHire
  BY DEF IInv, RowStored, RowIsRight, DeclinedBeforeHire
<1> QED
  BY <1>1, RoutesInvariant, PTL

--------------------------------------------------------------------------------
(* One brief, one hire (SiblingJobs). A confirm that has looked is right that no *)
(* sibling is confirmed as long as no other has looked since, and what it will   *)
(* sweep are copies of rows that were never confirmed; a request of the exchange *)
(* that holds the copy of a hire has been told, or will be, that its deposit     *)
(* settled. So the invariant says what every request in flight knows.            *)

\* A row's status is one that its confirm instant, or the want of one, can have.
StatusFits(j) ==
    /\ j.status \in {"draft", "proposed"} => j.confirmedAt = None
    /\ j.status = "confirmed" => j.confirmedAt # None

RowsOfBrief ==
    /\ \A a \in Agents : jobs[a] # None => a \in brief.named /\ StatusFits(jobs[a])
    /\ brief.left \subseteq brief.named
    /\ brief.phase = "none" => \A a \in Agents : jobs[a] = None
    /\ brief.phase = "creating" =>
           \A a \in brief.named : (a \in brief.left) = (jobs[a] = None)
    /\ brief.phase = "telling" => \A a \in brief.named : jobs[a] # None
    /\ \A n \in told : n.event = "new_brief" =>
           /\ brief.phase \notin {"none", "creating"}
           /\ \A a \in brief.named : jobs[a] # None

ConfirmsInFlight ==
    \A a \in Agents :
        /\ confirming[a].phase \in {"loaded", "looked"} =>
               /\ Siblings!CanConfirm(Siblings!Filled(confirming[a].copy))
               /\ jobs[a] # None /\ jobs[a].status # "confirmed"
        /\ \A b \in Agents : confirming[a].seen[b] # None =>
               /\ a # b /\ jobs[b] # None
               /\ confirming[a].seen[b].confirmedAt = None

ExchangesInFlight ==
    \A x \in Exchanges : exchange[x].phase # "none" =>
        /\ jobs[exchange[x].about] # None
        /\ StatusFits(exchange[x].copy)
        /\ exchange[x].copy.confirmedAt # None =>
               /\ exchange[x].about \in deposit
               /\ exchange[x].phase = "asked" /\ exchange[x].route = "decline" => exchange[x].paid

RecordOfHire ==
    \A a \in Agents : jobs[a] # None /\ jobs[a].confirmedAt # None =>
        a \in deposit /\ (jobs[a].status = "withdrawn" => a \in walked)

Chosen(a) == jobs[a] # None /\ jobs[a].confirmedAt # None

OneChosen ==
    ~overlapped /\ ~undone =>
        \A a \in Agents :
            /\ confirming[a].phase = "sweeping" => Chosen(a)
            /\ \A b \in Agents \ {a} :
                   /\ ~(Chosen(a) /\ Chosen(b))
                   /\ confirming[a].phase = "looked" =>
                          ~Chosen(b) /\ confirming[b].phase # "looked"

HiresAreKnown ==
    ~overlapped /\ ~undone =>
        \A x \in Exchanges :
            exchange[x].phase # "none" /\ exchange[x].copy.confirmedAt # None =>
                Chosen(exchange[x].about)

BriefInv ==
    /\ Siblings!TypeOK
    /\ RowsOfBrief
    /\ ConfirmsInFlight
    /\ ExchangesInFlight
    /\ RecordOfHire
    /\ OneChosen
    /\ HiresAreKnown

\* The rows of SiblingJobs are the rows of the domain, and its functions those.
LEMMA SameRows ==
    /\ Siblings!Jobs = Jobs
    /\ Siblings!OrNone(Siblings!Jobs) = OrNone(Jobs)
    /\ \A j, terms, offer : Siblings!Proposed(j, terms, offer) = Proposed(j, terms, offer)
    /\ \A j, date : Siblings!Confirmed(j, date) = Confirmed(j, date)
    /\ \A j : Siblings!CanConfirm(j) = CanConfirm(j)
    /\ \A j, status : Siblings!WithStatus(j, status) = WithStatus(j, status)
BY DEF Siblings!Jobs, Jobs, Siblings!OrNone, OrNone, Siblings!Specs, Specs,
   Siblings!Statuses, Statuses, Siblings!Parties, Parties, Siblings!Proposed, Proposed,
   Siblings!Repriced, Repriced, Siblings!Confirmed, Confirmed, Siblings!SpecOf, SpecOf,
   Siblings!CanConfirm, CanConfirm, Siblings!CanMove, CanMove, Siblings!Agreed, Agreed,
   Siblings!WithStatus, WithStatus

LEMMA SameExchange ==
    /\ \A j, paid : Siblings!CanPropose(j, paid) = CanPropose(j, paid)
    /\ \A j, paid : Siblings!CanDecline(j, paid) = CanDecline(j, paid)
    /\ \A j, paid : Siblings!CanWithdraw(j, paid) = CanWithdraw(j, paid)
    /\ \A j, text : Siblings!CanAcceptCriterion(j, text) = CanAcceptCriterion(j, text)
    /\ \A j : Siblings!CanAcceptPrice(j) = CanAcceptPrice(j)
    /\ \A j, text, party : Siblings!CriterionAccepted(j, text, party) = CriterionAccepted(j, text, party)
    /\ \A j, party : Siblings!PriceAccepted(j, party) = PriceAccepted(j, party)
    /\ Siblings!Parties = Parties
BY DEF Siblings!CanPropose, CanPropose, Siblings!CanDecline, CanDecline, Siblings!CanWithdraw,
   CanWithdraw, Siblings!CanMove, CanMove, Siblings!CanAcceptCriterion, CanAcceptCriterion,
   Siblings!CanAcceptPrice, CanAcceptPrice, Siblings!CriterionAccepted, CriterionAccepted,
   Siblings!PriceAccepted, PriceAccepted, Siblings!Parties, Parties

LEMMA RowsAreTyped ==
    ASSUME BriefInv
    PROVE  jobs \in [Agents -> OrNone(Jobs)]
BY SameRows DEF BriefInv, Siblings!TypeOK

\* What a request of the exchange writes from its copy: never the confirm instant, and of a
\* hire nothing but its end.
LEMMA ExchangedRow ==
    ASSUME NEW j \in Jobs, StatusFits(j), NEW route \in Siblings!ExchangeRoutes,
           NEW paid \in BOOLEAN, NEW k \in Siblings!Writes(route, j, paid)
    PROVE  /\ k \in Jobs /\ k.confirmedAt = j.confirmedAt /\ StatusFits(k)
           /\ k.status # "confirmed"
           /\ k.status = "withdrawn" => route = "withdraw"
           /\ j.confirmedAt # None => route = "withdraw" \/ (route = "decline" /\ ~paid)
<1>1. CASE route = "criteria"
  <2>1. PICK price \in Prices :
            /\ Siblings!CanPropose(j, paid)
            /\ k = Siblings!Proposed(j, Criteria, [price |-> price, rail |-> None])
    BY <1>1 DEF Siblings!Writes
  <2> DEFINE offer == [price |-> price, rail |-> None]
  <2>2. offer \in OrNone(Offers)
    BY DEF Offers, OrNone
  <2>3. k = Proposed(j, Criteria, offer) /\ j.status \in {"draft", "proposed"}
    BY <2>1, SameRows, SameExchange DEF CanPropose
  <2> HIDE DEF offer
  <2>4. k \in Jobs
    BY <2>2, <2>3, ProposedType
  <2>5. k.status = "proposed" /\ k.confirmedAt = j.confirmedAt
    BY <2>2, <2>3, ProposedRow
  <2> QED
    BY <2>3, <2>4, <2>5 DEF StatusFits
<1>2. CASE route = "criterion"
  <2>1. PICK text \in Criteria, party \in Parties :
            CanAcceptCriterion(j, text) /\ k = CriterionAccepted(j, text, party)
    BY <1>2, SameExchange DEF Siblings!Writes
  <2>2. k \in Jobs /\ k.confirmedAt = j.confirmedAt /\ k.status = j.status
    BY <2>1 DEF CriterionAccepted, Jobs
  <2> QED
    BY <2>1, <2>2 DEF CanAcceptCriterion, StatusFits
<1>3. CASE route = "price"
  <2>1. PICK party \in Parties : CanAcceptPrice(j) /\ k = PriceAccepted(j, party)
    BY <1>3, SameExchange DEF Siblings!Writes
  <2>2. k \in Jobs /\ k.confirmedAt = j.confirmedAt /\ k.status = j.status
    BY <2>1 DEF PriceAccepted, Jobs
  <2> QED
    BY <2>1, <2>2 DEF CanAcceptPrice, StatusFits
<1>4. \A status \in Statuses : /\ WithStatus(j, status) \in Jobs
                               /\ WithStatus(j, status).status = status
                               /\ WithStatus(j, status).confirmedAt = j.confirmedAt
  BY WithStatusType DEF WithStatus, Jobs
<1>5. "withdrawn" \in Statuses /\ "declined" \in Statuses
  BY DEF Statuses
<1>6. CASE route = "withdraw"
  <2>1. k = WithStatus(j, "withdrawn")
    BY <1>6, SameRows DEF Siblings!Writes
  <2> QED
    BY <1>4, <1>5, <1>6, <2>1 DEF StatusFits
<1>7. CASE route = "decline"
  <2>1. k \in {l \in {Siblings!WithStatus(j, "declined")} : Siblings!CanDecline(j, paid)}
    BY <1>7 DEF Siblings!Writes
  <2>2. k = WithStatus(j, "declined") /\ CanDecline(j, paid)
    BY <2>1, SameRows, SameExchange
  <2>3. ~paid
    BY <2>2 DEF CanDecline
  <2> QED
    BY <1>4, <1>5, <1>7, <2>2, <2>3 DEF StatusFits
<1> QED
  BY <1>1, <1>2, <1>3, <1>6, <1>7 DEF Siblings!ExchangeRoutes

\* A request that is not idle is typed, and an idle one holds nothing.
LEMMA ExchangeAsked ==
    ASSUME BriefInv, NEW x \in Exchanges, exchange[x].phase # "none"
    PROVE  exchange[x] \in [phase : {"loaded", "asked"}, route : Siblings!ExchangeRoutes,
                            about : Agents, copy : Jobs, paid : BOOLEAN]
<1>1. exchange[x] \in Siblings!InExchange \cup {Siblings!NoExchange}
  BY DEF BriefInv, Siblings!TypeOK
<1> QED
  BY <1>1, SameRows DEF Siblings!InExchange, Siblings!NoExchange

\* A request that moves on, or ends, and writes no row.
LEMMA ExchangeMoves ==
    ASSUME BriefInv, ExchangesInFlight', HiresAreKnown',
           exchange' \in [Exchanges -> Siblings!InExchange \cup {Siblings!NoExchange}],
           UNCHANGED <<listed, walkedBefore, brief, jobs, deposit, doors, confirming, told,
                       walked, undone, overlapped>>
    PROVE  BriefInv' /\ Siblings!BuyerWalks
<1>1. Siblings!TypeOK' /\ RowsOfBrief' /\ ConfirmsInFlight' /\ RecordOfHire' /\ OneChosen'
  BY DEF BriefInv, Siblings!TypeOK, RowsOfBrief, ConfirmsInFlight, RecordOfHire, OneChosen, Chosen
<1>2. Siblings!BuyerWalks
  BY <1>1 DEF Siblings!BuyerWalks, Siblings!CountsAsWalk, Siblings!WasConfirmed, RecordOfHire
<1> QED
  BY <1>1, <1>2 DEF BriefInv

\* What one request becomes.
LEMMA ExchangeTyped ==
    ASSUME BriefInv, NEW x \in Exchanges,
           NEW e \in Siblings!InExchange \cup {Siblings!NoExchange},
           exchange' = [exchange EXCEPT ![x] = e]
    PROVE  /\ exchange' \in [Exchanges -> Siblings!InExchange \cup {Siblings!NoExchange}]
           /\ \A y \in Exchanges : exchange'[y] = IF y = x THEN e ELSE exchange[y]
BY DEF BriefInv, Siblings!TypeOK

LEMMA LoadForExchangeStep ==
    ASSUME BriefInv, NEW x \in Exchanges, NEW route \in Siblings!ExchangeRoutes, NEW a \in Agents,
           Siblings!LoadForExchange(x, route, a)
    PROVE  BriefInv' /\ Siblings!BuyerWalks
<1> DEFINE e == [phase |-> "loaded", route |-> route, about |-> a, copy |-> jobs[a], paid |-> FALSE]
<1>1. jobs[a] \in Jobs /\ jobs[a] # None /\ StatusFits(jobs[a])
  BY RowsAreTyped DEF Siblings!LoadForExchange, Siblings!Exists, OrNone, BriefInv, RowsOfBrief
<1>2. e \in Siblings!InExchange /\ exchange' = [exchange EXCEPT ![x] = e]
  BY <1>1, SameRows DEF Siblings!InExchange, Siblings!LoadForExchange
<1>3. e.phase = "loaded" /\ e.about = a /\ e.copy = jobs[a]
  OBVIOUS
<1>4. UNCHANGED <<listed, walkedBefore, brief, jobs, deposit, doors, confirming, told, walked,
                  undone, overlapped>>
  BY DEF Siblings!LoadForExchange, Siblings!switches, Siblings!histories
<1> HIDE DEF e
<1>5. /\ exchange' \in [Exchanges -> Siblings!InExchange \cup {Siblings!NoExchange}]
      /\ \A y \in Exchanges : exchange'[y] = IF y = x THEN e ELSE exchange[y]
  BY <1>2, ExchangeTyped
<1>6. jobs[a].confirmedAt # None => a \in deposit /\ Chosen(a)
  BY <1>1 DEF BriefInv, RecordOfHire, Chosen
<1>7. ExchangesInFlight'
  BY <1>1, <1>3, <1>4, <1>5, <1>6 DEF BriefInv, ExchangesInFlight
<1>8. HiresAreKnown'
  BY <1>3, <1>4, <1>5, <1>6 DEF BriefInv, HiresAreKnown, Chosen
<1> QED
  BY <1>4, <1>5, <1>7, <1>8, ExchangeMoves

\* One that asked is what it was but for how far it has come and what it was told.
LEMMA Answered ==
    ASSUME NEW r \in [phase : {"loaded", "asked"}, route : Siblings!ExchangeRoutes,
                      about : Agents, copy : Jobs, paid : BOOLEAN],
           NEW paid \in BOOLEAN
    PROVE  LET e == [r EXCEPT !.phase = "asked", !.paid = paid]
           IN  /\ e \in [phase : {"loaded", "asked"}, route : Siblings!ExchangeRoutes,
                         about : Agents, copy : Jobs, paid : BOOLEAN]
               /\ e.phase = "asked" /\ e.about = r.about /\ e.copy = r.copy /\ e.paid = paid
OBVIOUS

LEMMA AskDepositStep ==
    ASSUME BriefInv, NEW x \in Exchanges, Siblings!AskDeposit(x)
    PROVE  BriefInv' /\ Siblings!BuyerWalks
<1> DEFINE r == exchange[x]
           paid == r.about \in deposit
           e == [r EXCEPT !.phase = "asked", !.paid = paid]
<1>1. r \in [phase : {"loaded", "asked"}, route : Siblings!ExchangeRoutes, about : Agents,
             copy : Jobs, paid : BOOLEAN]
  BY ExchangeAsked DEF Siblings!AskDeposit
<1>2. exchange' = [exchange EXCEPT ![x] = e]
  <2>1. exchange' = [exchange EXCEPT ![x].phase = "asked", ![x].paid = paid]
    BY DEF Siblings!AskDeposit
  <2> HIDE DEF paid
  <2> QED
    BY <2>1 DEF BriefInv, Siblings!TypeOK
<1>3. /\ e \in [phase : {"loaded", "asked"}, route : Siblings!ExchangeRoutes, about : Agents,
                copy : Jobs, paid : BOOLEAN]
      /\ e.phase = "asked" /\ e.about = r.about /\ e.copy = r.copy /\ e.paid = paid
  <2>1. paid \in BOOLEAN
    OBVIOUS
  <2> HIDE DEF paid, r
  <2> QED
    BY <1>1, <2>1, Answered
<1>4. r.phase # "none"
  BY <1>1
<1>5. UNCHANGED <<listed, walkedBefore, brief, jobs, deposit, doors, confirming, told, walked,
                  undone, overlapped>>
  BY DEF Siblings!AskDeposit, Siblings!switches, Siblings!histories
<1> HIDE DEF e
<1>6. /\ exchange' \in [Exchanges -> Siblings!InExchange \cup {Siblings!NoExchange}]
      /\ \A y \in Exchanges : exchange'[y] = IF y = x THEN e ELSE exchange[y]
  <2>1. e \in Siblings!InExchange
    BY <1>3, SameRows DEF Siblings!InExchange
  <2> QED
    BY <1>2, <2>1, ExchangeTyped
<1>7. ExchangesInFlight'
  BY <1>3, <1>4, <1>5, <1>6 DEF BriefInv, ExchangesInFlight
<1>8. HiresAreKnown'
  BY <1>3, <1>4, <1>5, <1>6 DEF BriefInv, HiresAreKnown, Chosen
<1> QED
  BY <1>5, <1>6, <1>7, <1>8, ExchangeMoves

LEMMA EndExchangeStep ==
    ASSUME BriefInv, NEW x \in Exchanges, Siblings!EndExchange(x)
    PROVE  BriefInv' /\ Siblings!BuyerWalks
<1>1. /\ exchange' \in [Exchanges -> Siblings!InExchange \cup {Siblings!NoExchange}]
      /\ \A y \in Exchanges :
             exchange'[y] = IF y = x THEN Siblings!NoExchange ELSE exchange[y]
  BY ExchangeTyped DEF Siblings!EndExchange
<1>2. Siblings!NoExchange.phase = "none"
  BY DEF Siblings!NoExchange
<1>3. UNCHANGED <<listed, walkedBefore, brief, jobs, deposit, doors, confirming, told, walked,
                  undone, overlapped>>
  BY DEF Siblings!EndExchange, Siblings!switches, Siblings!histories
<1>4. ExchangesInFlight' /\ HiresAreKnown'
  BY <1>1, <1>2, <1>3 DEF BriefInv, ExchangesInFlight, HiresAreKnown, Chosen
<1> QED
  BY <1>1, <1>3, <1>4, ExchangeMoves

\* The blind write. From a copy older than the confirm it undoes it, and says so; from the
\* copy of a hire it is the buyer's withdraw, a decline having been refused.
LEMMA WriteExchangeStep ==
    ASSUME BriefInv, NEW x \in Exchanges, Siblings!WriteExchange(x)
    PROVE  BriefInv' /\ Siblings!BuyerWalks
<1> DEFINE r == exchange[x]
           a == r.about
<1>1. r.phase # "none"
  BY DEF Siblings!WriteExchange
<1>2. r \in [phase : {"loaded", "asked"}, route : Siblings!ExchangeRoutes, about : Agents,
             copy : Jobs, paid : BOOLEAN]
  BY <1>1, ExchangeAsked
<1>3. PICK k \in Siblings!Writes(r.route, r.copy, r.paid) : jobs' = [jobs EXCEPT ![a] = k]
  BY DEF Siblings!WriteExchange
<1>4. StatusFits(r.copy) /\ jobs[a] # None
  BY <1>1 DEF BriefInv, ExchangesInFlight
<1>5. /\ k \in Jobs /\ k.confirmedAt = r.copy.confirmedAt /\ StatusFits(k)
      /\ k.status # "confirmed"
      /\ k.status = "withdrawn" => r.route = "withdraw"
      /\ r.copy.confirmedAt # None => r.route = "withdraw" \/ (r.route = "decline" /\ ~r.paid)
  BY <1>2, <1>3, <1>4, ExchangedRow
<1>6. k # None /\ jobs[a] \in Jobs /\ a \in Agents /\ r.copy # None
  BY <1>2, <1>4, <1>5, SiblingsAssumption, RowsAreTyped DEF OrNone
<1>7. r.copy.confirmedAt # None => a \in deposit /\ r.route = "withdraw"
  <2>1. r.route = "decline" => r.phase = "asked"
    BY DEF Siblings!WriteExchange, Siblings!Asks
  <2> QED
    BY <1>1, <1>5, <2>1 DEF BriefInv, ExchangesInFlight
<1>8. /\ exchange' \in [Exchanges -> Siblings!InExchange \cup {Siblings!NoExchange}]
      /\ \A y \in Exchanges :
             exchange'[y] = IF y = x THEN Siblings!NoExchange ELSE exchange[y]
      /\ Siblings!NoExchange.phase = "none"
  BY ExchangeTyped DEF Siblings!WriteExchange, Siblings!NoExchange
<1>9. /\ UNCHANGED <<listed, walkedBefore, brief, deposit, doors, confirming, told, overlapped>>
      /\ walked' = IF r.route = "withdraw" /\ r.copy.confirmedAt # None THEN walked \cup {a}
                   ELSE walked
      /\ undone' = (undone \/ (jobs[a].confirmedAt # None /\ r.copy.confirmedAt = None))
  BY <1>4, <1>6 DEF Siblings!WriteExchange, Siblings!switches, Siblings!WasConfirmed
<1> HIDE DEF r, a
<1>10. \A b \in Agents : jobs'[b] = IF b = a THEN k ELSE jobs[b]
  BY <1>3, <1>6, RowsAreTyped
<1>11. Siblings!TypeOK'
  <2>1. jobs' \in [Agents -> Siblings!OrNone(Siblings!Jobs)]
    BY <1>3, <1>5, <1>6, RowsAreTyped, SameRows DEF OrNone
  <2> QED
    BY <1>6, <1>8, <1>9, <2>1 DEF BriefInv, Siblings!TypeOK
<1>12. RowsOfBrief'
  <2>1. \A b \in Agents : (jobs'[b] = None) = (jobs[b] = None)
    BY <1>4, <1>6, <1>10
  <2>2. \A b \in Agents : jobs'[b] # None => b \in brief.named /\ StatusFits(jobs'[b])
    BY <1>4, <1>5, <1>10 DEF BriefInv, RowsOfBrief
  <2> QED
    BY <1>9, <2>1, <2>2 DEF BriefInv, Siblings!TypeOK, RowsOfBrief
<1>13. ConfirmsInFlight'
  <2>1. \A b \in Agents : jobs[b] # None => jobs'[b] # None
    BY <1>6, <1>10
  <2>2. \A b \in Agents : jobs[b].status # "confirmed" => jobs'[b].status # "confirmed"
    BY <1>5, <1>10
  <2> QED
    BY <1>9, <2>1, <2>2 DEF BriefInv, ConfirmsInFlight
<1>14. ExchangesInFlight'
  <2>1. \A y \in Exchanges : exchange[y].phase # "none" =>
            exchange[y].about \in Agents /\ jobs'[exchange[y].about] # None
    BY <1>6, <1>10, ExchangeAsked DEF BriefInv, ExchangesInFlight
  <2> QED
    BY <1>8, <1>9, <2>1 DEF BriefInv, ExchangesInFlight
<1>15. RecordOfHire'
  BY <1>5, <1>7, <1>9, <1>10 DEF BriefInv, RecordOfHire
<1>16. ASSUME ~overlapped, ~undone'
       PROVE  ~undone /\ \A b \in Agents : Chosen(b)' = Chosen(b)
  <2>1. ~undone /\ (jobs[a].confirmedAt # None => r.copy.confirmedAt # None)
    BY <1>9, <1>16
  <2>2. r.copy.confirmedAt # None => jobs[a].confirmedAt # None
    BY <1>1, <1>16, <2>1 DEF BriefInv, HiresAreKnown, Chosen, r, a
  <2> QED
    BY <1>4, <1>5, <1>6, <1>10, <2>1, <2>2 DEF Chosen
<1>17. OneChosen'
  BY <1>9, <1>16 DEF BriefInv, OneChosen
<1>18. HiresAreKnown'
  <2>1. \A y \in Exchanges : y # x /\ exchange[y].phase # "none" => exchange[y].about \in Agents
    BY ExchangeAsked
  <2> QED
    BY <1>8, <1>9, <1>16, <2>1 DEF BriefInv, HiresAreKnown
<1>19. Siblings!BuyerWalks
  <2>1. \A b \in Agents : Siblings!CountsAsWalk(jobs'[b]) => b \in walked'
    BY <1>15 DEF RecordOfHire, Siblings!CountsAsWalk, Siblings!WasConfirmed
  <2>2. jobs[a].status = "confirmed" => undone' \/ a \in walked'
    <3>1. jobs[a].status = "confirmed" => jobs[a].confirmedAt # None
      BY <1>4, <1>6 DEF BriefInv, RowsOfBrief, StatusFits
    <3> QED
      BY <1>7, <1>9, <3>1
  <2> QED
    BY <1>10, <2>1, <2>2 DEF Siblings!BuyerWalks, Siblings!Exists
<1> QED
  BY <1>11, <1>12, <1>13, <1>14, <1>15, <1>17, <1>18, <1>19 DEF BriefInv

\* What leaves every row and every hire alone.
LEMMA RowsRest ==
    ASSUME BriefInv, Siblings!TypeOK', RowsOfBrief', jobs' = jobs, confirming' = confirming,
           exchange' = exchange, walked' = walked, undone' = undone, overlapped' = overlapped,
           deposit \subseteq deposit'
    PROVE  BriefInv' /\ Siblings!BuyerWalks
<1>1. ConfirmsInFlight' /\ ExchangesInFlight' /\ RecordOfHire' /\ OneChosen' /\ HiresAreKnown'
  BY DEF BriefInv, ConfirmsInFlight, ExchangesInFlight, RecordOfHire, OneChosen, HiresAreKnown,
     Chosen
<1>2. Siblings!BuyerWalks
  BY <1>1 DEF Siblings!BuyerWalks, Siblings!CountsAsWalk, Siblings!WasConfirmed,
     RecordOfHire
<1> QED
  BY <1>1, <1>2 DEF BriefInv

LEMMA CheckBriefStep ==
    ASSUME BriefInv, NEW named \in Siblings!Named, Siblings!CheckBrief(named)
    PROVE  BriefInv' /\ Siblings!BuyerWalks
<1>1. named \subseteq Agents
  BY DEF Siblings!Named
<1>2. Siblings!TypeOK'
  BY <1>1 DEF BriefInv, Siblings!TypeOK, Siblings!CheckBrief, Siblings!switches, Siblings!histories
<1>3. RowsOfBrief'
  BY <1>1 DEF BriefInv, RowsOfBrief, Siblings!CheckBrief, Siblings!TypeOK
<1> QED
  BY <1>2, <1>3, RowsRest DEF Siblings!CheckBrief, Siblings!histories

LEMMA TellStep ==
    ASSUME BriefInv, Siblings!CreateFails \/ \E a \in Agents : Siblings!TellOfBrief(a)
    PROVE  BriefInv' /\ Siblings!BuyerWalks
<1>1. CASE Siblings!CreateFails
  <2>1. Siblings!TypeOK' /\ RowsOfBrief'
    BY <1>1 DEF BriefInv, Siblings!TypeOK, RowsOfBrief, Siblings!CreateFails, Siblings!switches, Siblings!histories
  <2> QED
    BY <1>1, <2>1, RowsRest DEF Siblings!CreateFails, Siblings!histories
<1>2. ASSUME NEW a \in Agents, Siblings!TellOfBrief(a) PROVE BriefInv' /\ Siblings!BuyerWalks
  <2>1. PICK notices \in Siblings!Notified(a, "new_brief") : told' = told \cup notices
    BY <1>2 DEF Siblings!TellOfBrief
  <2>2. notices \subseteq Siblings!Notices
    BY DEF Siblings!Notified, Siblings!Notices, Siblings!Events
  <2>3. /\ brief.phase = "telling" /\ brief'.named = brief.named
        /\ brief'.phase \in {"telling", "answered"} /\ brief'.left \subseteq brief.left
    BY <1>2 DEF Siblings!TellOfBrief, BriefInv, Siblings!TypeOK
  <2>4. Siblings!TypeOK'
    <3>1. brief' \in [phase : {"none", "checked", "creating", "telling", "answered", "failed"},
                      named : SUBSET Agents, left : SUBSET Agents]
      BY <1>2 DEF BriefInv, Siblings!TypeOK, Siblings!TellOfBrief
    <3> QED
      BY <1>2, <2>1, <2>2, <3>1 DEF BriefInv, Siblings!TypeOK, Siblings!TellOfBrief, Siblings!switches, Siblings!histories
  <2>5. RowsOfBrief'
    BY <1>2, <2>3 DEF BriefInv, RowsOfBrief, Siblings!TellOfBrief
  <2> QED
    BY <1>2, <2>4, <2>5, RowsRest DEF Siblings!TellOfBrief, Siblings!histories
<1> QED
  BY <1>1, <1>2

\* The deposit doors and the listing switches.
LEMMA DoorStep ==
    ASSUME BriefInv, NEW a \in Agents,
           Siblings!StartDeposit(a) \/ Siblings!SettleDeposit(a) \/ Siblings!SetListed(a)
    PROVE  BriefInv' /\ Siblings!BuyerWalks
<1>1. Siblings!TypeOK'
  BY DEF BriefInv, Siblings!TypeOK, Siblings!StartDeposit, Siblings!SettleDeposit,
     Siblings!SetListed, Siblings!switches, Siblings!histories
<1>2. RowsOfBrief'
  BY DEF BriefInv, RowsOfBrief, Siblings!StartDeposit, Siblings!SettleDeposit,
     Siblings!SetListed
<1>3. /\ jobs' = jobs /\ exchange' = exchange /\ confirming' = confirming /\ walked' = walked
      /\ undone' = undone /\ overlapped' = overlapped /\ deposit \subseteq deposit'
  BY DEF Siblings!StartDeposit, Siblings!SettleDeposit, Siblings!SetListed, Siblings!histories
<1> QED
  BY <1>1, <1>2, <1>3, RowsRest

\* A row is created where there was none.
LEMMA CreateStep ==
    ASSUME BriefInv, NEW a \in Agents, Siblings!CreateJob(a)
    PROVE  BriefInv' /\ Siblings!BuyerWalks
<1>1. /\ Siblings!NewJob \in Jobs /\ Siblings!NewJob # None
      /\ Siblings!NewJob.status = "draft" /\ Siblings!NewJob.confirmedAt = None
  <2>1. Siblings!NewJob \in Jobs
    BY DEF Siblings!NewJob, Jobs, OrNone, Statuses
  <2> QED
    BY <2>1, SiblingsAssumption DEF Siblings!NewJob
<1>2. /\ brief.phase = "creating" /\ a \in brief.left /\ a \in brief.named
      /\ jobs[a] = None /\ brief'.named = brief.named
  BY DEF BriefInv, Siblings!TypeOK, RowsOfBrief, Siblings!CreateJob
<1>3. \A b \in Agents : jobs'[b] = IF b = a THEN Siblings!NewJob ELSE jobs[b]
  BY RowsAreTyped DEF Siblings!CreateJob
<1>4. Siblings!TypeOK'
  <2>1. jobs' \in [Agents -> Siblings!OrNone(Siblings!Jobs)]
    BY <1>1, RowsAreTyped, SameRows DEF Siblings!CreateJob, OrNone
  <2>2. brief' \in [phase : {"none", "checked", "creating", "telling", "answered", "failed"},
                    named : SUBSET Agents, left : SUBSET Agents]
    BY DEF BriefInv, Siblings!TypeOK, Siblings!CreateJob
  <2> QED
    BY <2>1, <2>2 DEF BriefInv, Siblings!TypeOK, Siblings!CreateJob, Siblings!switches, Siblings!histories
<1>5. RowsOfBrief'
  <2>1. /\ \A b \in Agents : jobs'[b] # None => b \in brief'.named /\ StatusFits(jobs'[b])
        /\ brief'.left \subseteq brief'.named
        /\ brief'.phase \in {"creating", "telling"}
        /\ told' = told
    BY <1>1, <1>2, <1>3 DEF BriefInv, RowsOfBrief, Siblings!CreateJob, StatusFits
  <2>2. brief'.phase = "creating" => \A b \in brief'.named : (b \in brief'.left) = (jobs'[b] = None)
    BY <1>1, <1>2, <1>3 DEF BriefInv, Siblings!TypeOK, RowsOfBrief, Siblings!CreateJob
  <2>3. brief'.phase = "telling" => \A b \in brief'.named : jobs'[b] # None
    BY <1>1, <1>2, <1>3 DEF BriefInv, Siblings!TypeOK, RowsOfBrief, Siblings!CreateJob
  <2> QED
    BY <1>2, <2>1, <2>2, <2>3 DEF BriefInv, RowsOfBrief
<1>6. /\ exchange' = exchange /\ confirming' = confirming /\ deposit' = deposit
      /\ walked' = walked /\ undone' = undone /\ overlapped' = overlapped
  BY DEF Siblings!CreateJob, Siblings!histories
<1>7. ConfirmsInFlight' /\ RecordOfHire'
  BY <1>1, <1>2, <1>3, <1>6 DEF BriefInv, ConfirmsInFlight, RecordOfHire
<1>8. ExchangesInFlight' /\ OneChosen' /\ HiresAreKnown'
  <2>1. \A b \in Agents : Chosen(b)' = Chosen(b)
    BY <1>1, <1>2, <1>3 DEF Chosen
  <2>2. \A x \in Exchanges : exchange[x].phase # "none" =>
            exchange[x].about \in Agents /\ jobs'[exchange[x].about] # None
    BY <1>1, <1>3, ExchangeAsked DEF BriefInv, ExchangesInFlight
  <2>3. ExchangesInFlight'
    BY <1>6, <2>2 DEF BriefInv, ExchangesInFlight
  <2>4. OneChosen'
    BY <1>6, <2>1 DEF BriefInv, OneChosen
  <2>5. HiresAreKnown'
    BY <1>6, <2>1, <2>2 DEF BriefInv, HiresAreKnown
  <2> QED
    BY <2>3, <2>4, <2>5
<1>9. Siblings!BuyerWalks
  BY <1>1, <1>2, <1>3, <1>7 DEF Siblings!BuyerWalks, Siblings!CountsAsWalk,
     Siblings!WasConfirmed, Siblings!Exists, RecordOfHire
<1> QED
  BY <1>4, <1>5, <1>7, <1>8, <1>9 DEF BriefInv

--------------------------------------------------------------------------------
(* POST /jobs/:jobId/confirm.                                                   *)

\* A confirm that moves on, or ends, and writes no row.
LEMMA ConfirmMoves ==
    ASSUME BriefInv, Siblings!TypeOK', ConfirmsInFlight', OneChosen',
           UNCHANGED <<brief, jobs, deposit, exchange, told, walked, undone>>,
           overlapped => overlapped'
    PROVE  BriefInv' /\ Siblings!BuyerWalks
<1>1. RowsOfBrief' /\ ExchangesInFlight' /\ RecordOfHire' /\ HiresAreKnown'
  BY DEF BriefInv, RowsOfBrief, ExchangesInFlight, RecordOfHire, HiresAreKnown, Chosen
<1>2. Siblings!BuyerWalks
  BY <1>1 DEF Siblings!BuyerWalks, Siblings!CountsAsWalk, Siblings!WasConfirmed, RecordOfHire
<1> QED
  BY <1>1, <1>2 DEF BriefInv

\* What one confirm request becomes.
LEMMA ConfirmTyped ==
    ASSUME BriefInv, NEW a \in Agents, NEW c \in Siblings!Confirms,
           confirming' = [confirming EXCEPT ![a] = c]
    PROVE  /\ confirming' \in [Agents -> Siblings!Confirms]
           /\ \A b \in Agents : confirming'[b] = IF b = a THEN c ELSE confirming[b]
BY DEF BriefInv, Siblings!TypeOK

LEMMA NothingAskedType ==
    /\ Siblings!NoConfirm \in Siblings!Confirms
    /\ Siblings!NoConfirm.phase = "none"
    /\ \A b \in Agents : Siblings!NoConfirm.seen[b] = None
BY DEF Siblings!NoConfirm, Siblings!Confirms

\* A confirm in flight is typed.
LEMMA ConfirmAsked ==
    ASSUME BriefInv, NEW a \in Agents, confirming[a].phase # "none"
    PROVE  confirming[a] \in [phase : {"loaded", "looked", "sweeping"}, copy : Jobs,
                              seen : [Agents -> OrNone(Jobs)]]
<1>1. confirming[a] \in Siblings!Confirms /\ confirming[a] # Siblings!NoConfirm
  BY NothingAskedType DEF BriefInv, Siblings!TypeOK
<1>2. Siblings!Copies = [Agents -> OrNone(Jobs)]
  BY SameRows DEF Siblings!Copies
<1> QED
  BY <1>1, <1>2, SameRows DEF Siblings!Confirms

LEMMA AskingType ==
    ASSUME NEW phase \in {"loaded", "looked", "sweeping"}, NEW copy \in Jobs,
           NEW seen \in [Agents -> OrNone(Jobs)]
    PROVE  [phase |-> phase, copy |-> copy, seen |-> seen] \in Siblings!Confirms
<1>1. Siblings!Copies = [Agents -> OrNone(Jobs)]
  BY SameRows DEF Siblings!Copies
<1> QED
  BY <1>1, SameRows DEF Siblings!Confirms

\* One that moves on is what it was but for how far it has come and what it has seen.
LEMMA Goes ==
    ASSUME NEW r \in [phase : {"loaded", "looked", "sweeping"}, copy : Jobs,
                      seen : [Agents -> OrNone(Jobs)]],
           NEW phase \in {"loaded", "looked", "sweeping"}, NEW seen \in [Agents -> OrNone(Jobs)]
    PROVE  LET c == [r EXCEPT !.phase = phase, !.seen = seen]
           IN  /\ c \in [phase : {"loaded", "looked", "sweeping"}, copy : Jobs,
                         seen : [Agents -> OrNone(Jobs)]]
               /\ c.phase = phase /\ c.copy = r.copy /\ c.seen = seen
OBVIOUS

LEMMA Loads ==
    ASSUME NEW j \in Jobs
    PROVE  LET c == [Siblings!NoConfirm EXCEPT !.phase = "loaded", !.copy = j]
           IN  /\ c \in Siblings!Confirms
               /\ c.phase = "loaded" /\ c.copy = j
               /\ \A b \in Agents : c.seen[b] = None
<1> DEFINE none == [b \in Agents |-> None]
           c == [Siblings!NoConfirm EXCEPT !.phase = "loaded", !.copy = j]
<1>1. Siblings!NoConfirm = [phase |-> "none", copy |-> None, seen |-> none]
  BY DEF Siblings!NoConfirm
<1>2. none \in [Agents -> OrNone(Jobs)] /\ \A b \in Agents : none[b] = None
  BY DEF OrNone
<1> HIDE DEF none
<1>3. c \in [phase : {"loaded", "looked", "sweeping"}, copy : Jobs, seen : [Agents -> OrNone(Jobs)]]
  BY <1>1, <1>2
<1>4. c.phase = "loaded" /\ c.copy = j /\ c.seen = none
  BY <1>1
<1>5. Siblings!Copies = [Agents -> OrNone(Jobs)]
  BY SameRows DEF Siblings!Copies
<1> HIDE DEF c
<1>6. c \in Siblings!Confirms
  BY <1>3, <1>5, SameRows DEF Siblings!Confirms
<1> QED
  BY <1>2, <1>4, <1>6 DEF c

LEMMA LoadForConfirmStep ==
    ASSUME BriefInv, NEW a \in Agents, Siblings!LoadForConfirm(a)
    PROVE  BriefInv' /\ Siblings!BuyerWalks
<1> DEFINE c == [Siblings!NoConfirm EXCEPT !.phase = "loaded", !.copy = jobs[a]]
<1>1. jobs[a] \in Jobs /\ jobs[a] # None /\ Siblings!CanConfirm(Siblings!Filled(jobs[a]))
  BY RowsAreTyped DEF Siblings!LoadForConfirm, Siblings!Exists, OrNone
<1>2. jobs[a].status # "confirmed"
  <2>1. Siblings!Filled(jobs[a]).status = jobs[a].status
    BY <1>1 DEF Siblings!Filled, Jobs
  <2>2. jobs[a].status = "proposed"
    BY <1>1, <2>1 DEF Siblings!CanConfirm, Siblings!CanMove
  <2> QED
    BY <2>2
<1>3. confirming' = [confirming EXCEPT ![a] = c]
  BY DEF Siblings!LoadForConfirm
<1>4. /\ c \in Siblings!Confirms /\ c.phase = "loaded" /\ c.copy = jobs[a]
      /\ \A b \in Agents : c.seen[b] = None
  BY <1>1, Loads
<1> HIDE DEF c
<1>5. /\ confirming' \in [Agents -> Siblings!Confirms]
      /\ \A b \in Agents : confirming'[b] = IF b = a THEN c ELSE confirming[b]
  BY <1>3, <1>4, ConfirmTyped
<1>6. UNCHANGED <<listed, walkedBefore, brief, jobs, deposit, doors, exchange, told, walked,
                  undone, overlapped>>
  BY DEF Siblings!LoadForConfirm, Siblings!switches, Siblings!histories
<1>7. Siblings!TypeOK'
  BY <1>5, <1>6 DEF BriefInv, Siblings!TypeOK
<1>8. ConfirmsInFlight'
  BY <1>1, <1>2, <1>4, <1>5, <1>6 DEF BriefInv, ConfirmsInFlight
<1>9. OneChosen'
  BY <1>4, <1>5, <1>6 DEF BriefInv, OneChosen, Chosen
<1> QED
  BY <1>6, <1>7, <1>8, <1>9, ConfirmMoves

\* A request that looks finds no sibling confirmed, and keeps the copies of those that
\* still negotiate.
LEMMA LookStep ==
    ASSUME BriefInv, NEW a \in Agents, Siblings!LookAtSiblings(a)
    PROVE  BriefInv' /\ Siblings!BuyerWalks
<1> DEFINE seen == Siblings!Sweepable(Siblings!Siblings(a))
           c == [confirming[a] EXCEPT !.phase = "looked", !.seen = seen]
<1>1. confirming[a].phase = "loaded" /\ confirming[a].copy \in Jobs
  BY ConfirmAsked DEF Siblings!LookAtSiblings
<1>2. \A b \in Agents \ {a} : Siblings!Siblings(a)[b] = jobs[b]
  <2>1. jobs[a] # None /\ a \in brief.named
    BY <1>1 DEF BriefInv, ConfirmsInFlight, RowsOfBrief
  <2> QED
    BY <2>1 DEF Siblings!Siblings, BriefInv, RowsOfBrief
<1>3. \A b \in Agents \ {a} : ~Chosen(b)
  BY <1>2 DEF Siblings!LookAtSiblings, Siblings!NoneChosen, Siblings!WasConfirmed, Chosen
<1>4. /\ seen \in [Agents -> OrNone(Jobs)]
      /\ \A b \in Agents : seen[b] # None =>
             a # b /\ jobs[b] # None /\ seen[b].confirmedAt = None
  <2>1. seen = [b \in Agents |->
                   IF /\ Siblings!Siblings(a)[b] # None
                      /\ Siblings!Siblings(a)[b].status \in {"draft", "proposed"}
                   THEN Siblings!Siblings(a)[b] ELSE None]
    BY DEF Siblings!Sweepable
  <2>2. Siblings!Siblings(a) \in [Agents -> OrNone(Jobs)] /\ Siblings!Siblings(a)[a] = None
    BY RowsAreTyped DEF Siblings!Siblings, OrNone
  <2> HIDE DEF seen
  <2> QED
    BY <1>2, <2>1, <2>2 DEF BriefInv, RowsOfBrief, StatusFits, OrNone
<1>5. confirming' = [confirming EXCEPT ![a] = c]
  <2>1. confirming' = [confirming EXCEPT ![a].phase = "looked", ![a].seen = seen]
    BY DEF Siblings!LookAtSiblings
  <2> HIDE DEF seen
  <2> QED
    BY <2>1 DEF BriefInv, Siblings!TypeOK
<1> HIDE DEF seen
<1>6. /\ c \in Siblings!Confirms
      /\ c.phase = "looked" /\ c.copy = confirming[a].copy /\ c.seen = seen
  <2>1. confirming[a] \in [phase : {"loaded", "looked", "sweeping"}, copy : Jobs,
                           seen : [Agents -> OrNone(Jobs)]]
    BY <1>1, ConfirmAsked
  <2>2. Siblings!Copies = [Agents -> OrNone(Jobs)]
    BY SameRows DEF Siblings!Copies
  <2>3. /\ c \in [phase : {"loaded", "looked", "sweeping"}, copy : Jobs,
                  seen : [Agents -> OrNone(Jobs)]]
        /\ c.phase = "looked" /\ c.copy = confirming[a].copy /\ c.seen = seen
    BY <1>4, <2>1, Goes
  <2> HIDE DEF c
  <2> QED
    BY <2>2, <2>3, SameRows DEF Siblings!Confirms
<1> HIDE DEF c
<1>7. /\ confirming' \in [Agents -> Siblings!Confirms]
      /\ \A b \in Agents : confirming'[b] = IF b = a THEN c ELSE confirming[b]
  BY <1>5, <1>6, ConfirmTyped
<1>8. /\ UNCHANGED <<listed, walkedBefore, brief, jobs, deposit, doors, exchange, told, walked,
                     undone>>
      /\ overlapped => overlapped'
      /\ ~overlapped' => ~overlapped /\ \A b \in Agents \ {a} : confirming[b].phase # "looked"
      /\ overlapped' \in BOOLEAN
  BY DEF Siblings!LookAtSiblings, Siblings!switches, Siblings!histories, BriefInv, Siblings!TypeOK
<1>9. Siblings!TypeOK'
  BY <1>7, <1>8 DEF BriefInv, Siblings!TypeOK
<1>10. ConfirmsInFlight'
  BY <1>1, <1>4, <1>6, <1>7, <1>8 DEF BriefInv, ConfirmsInFlight
<1>11. OneChosen'
  BY <1>3, <1>6, <1>7, <1>8 DEF BriefInv, OneChosen, Chosen
<1> QED
  BY <1>8, <1>9, <1>10, <1>11, ConfirmMoves

\* A request that ends, one or all of them.
LEMMA EndStep ==
    ASSUME BriefInv, Siblings!Crash \/ \E a \in Agents : Siblings!EndConfirm(a)
    PROVE  BriefInv' /\ Siblings!BuyerWalks
<1>1. /\ confirming' \in [Agents -> Siblings!Confirms]
      /\ exchange' \in [Exchanges -> Siblings!InExchange \cup {Siblings!NoExchange}]
  BY NothingAskedType DEF BriefInv, Siblings!TypeOK, Siblings!Crash, Siblings!EndConfirm
<1>2. /\ \A b \in Agents : confirming'[b] \in {confirming[b], Siblings!NoConfirm}
      /\ \A x \in Exchanges : exchange'[x] \in {exchange[x], Siblings!NoExchange}
      /\ Siblings!NoExchange.phase = "none"
  BY DEF BriefInv, Siblings!TypeOK, Siblings!Crash, Siblings!EndConfirm, Siblings!NoExchange
<1>3. UNCHANGED <<listed, walkedBefore, jobs, deposit, doors, told, walked, undone, overlapped>>
  BY DEF Siblings!Crash, Siblings!EndConfirm, Siblings!switches, Siblings!histories
<1>4. brief' \in {brief, [brief EXCEPT !.phase = "failed", !.left = {}]}
  BY DEF Siblings!Crash, Siblings!EndConfirm
<1>5. Siblings!TypeOK' /\ RowsOfBrief'
  BY <1>1, <1>3, <1>4 DEF BriefInv, Siblings!TypeOK, RowsOfBrief
<1>6. ConfirmsInFlight'
  BY <1>2, <1>3, NothingAskedType DEF BriefInv, ConfirmsInFlight
<1>7. OneChosen'
  BY <1>2, <1>3, NothingAskedType DEF BriefInv, OneChosen, Chosen
<1>8. ExchangesInFlight' /\ HiresAreKnown'
  BY <1>2, <1>3 DEF BriefInv, ExchangesInFlight, HiresAreKnown, Chosen
<1>9. RecordOfHire' /\ Siblings!BuyerWalks
  BY <1>3 DEF BriefInv, RecordOfHire, Siblings!BuyerWalks, Siblings!CountsAsWalk, Siblings!WasConfirmed
<1> QED
  BY <1>5, <1>6, <1>7, <1>8, <1>9 DEF BriefInv

LEMMA ConfirmStep ==
    ASSUME BriefInv, NEW a \in Agents, Siblings!WriteConfirmed(a)
    PROVE  BriefInv' /\ Siblings!BuyerWalks
<1> DEFINE filled == Siblings!Filled(confirming[a].copy)
           k == Confirmed(filled, 0)
           c == [phase |-> "sweeping", copy |-> confirming[a].copy, seen |-> confirming[a].seen]
<1>1. /\ confirming[a].phase = "looked" /\ a \in deposit
      /\ confirming[a] \in [phase : {"loaded", "looked", "sweeping"}, copy : Jobs,
                            seen : [Agents -> OrNone(Jobs)]]
  BY ConfirmAsked DEF Siblings!WriteConfirmed
<1>2. jobs[a] # None /\ jobs[a].status # "confirmed" /\ CanConfirm(filled)
  BY <1>1, SameRows DEF BriefInv, ConfirmsInFlight
<1>3. filled \in Jobs
  BY <1>1, SiblingsAssumption DEF Siblings!Filled, Jobs, OrNone
<1>4. k \in Jobs /\ k # None /\ k.status = "confirmed" /\ k.confirmedAt # None
  <2> HIDE DEF filled
  <2>1. k \in Jobs
    BY <1>2, <1>3, ConfirmedType
  <2>2. k.status = "confirmed" /\ k.confirmedAt = 0
    BY <1>3 DEF Confirmed, Jobs
  <2> QED
    BY <2>1, <2>2, SiblingsAssumption, NoneAssumption
<1>5. jobs' = [jobs EXCEPT ![a] = k]
  <2>1. jobs' = [jobs EXCEPT ![a] = Siblings!Confirmed(filled, 0)]
    BY DEF Siblings!WriteConfirmed
  <2> QED
    BY <2>1, SameRows
<1>6. confirming' = [confirming EXCEPT ![a] = c]
  <2>1. c = [confirming[a] EXCEPT !.phase = "sweeping"]
    BY <1>1
  <2> HIDE DEF c
  <2> QED
    BY <2>1 DEF Siblings!WriteConfirmed, BriefInv, Siblings!TypeOK
<1>7. c \in Siblings!Confirms
  BY <1>1, AskingType
<1>8. /\ confirming' \in [Agents -> Siblings!Confirms]
      /\ \A b \in Agents : confirming'[b] = IF b = a THEN c ELSE confirming[b]
  BY <1>6, <1>7, ConfirmTyped
<1> HIDE DEF filled, k
<1>9. /\ jobs' \in [Agents -> OrNone(Jobs)]
      /\ \A b \in Agents : jobs'[b] = IF b = a THEN k ELSE jobs[b]
  BY <1>4, <1>5, RowsAreTyped DEF OrNone
<1>10. UNCHANGED <<listed, walkedBefore, brief, deposit, doors, exchange, told, walked, undone,
                   overlapped>>
  BY DEF Siblings!WriteConfirmed, Siblings!switches, Siblings!histories
<1>11. Siblings!TypeOK'
  BY <1>8, <1>9, <1>10, SameRows DEF BriefInv, Siblings!TypeOK
<1>12. RowsOfBrief'
  <2>1. \A b \in Agents : (jobs'[b] = None) = (jobs[b] = None)
    BY <1>2, <1>4, <1>9
  <2>2. \A b \in Agents : jobs'[b] # None => b \in brief.named /\ StatusFits(jobs'[b])
    BY <1>2, <1>4, <1>9 DEF BriefInv, RowsOfBrief, StatusFits
  <2>3. \A n \in told : n.event = "new_brief" =>
            /\ brief.phase \notin {"none", "creating"}
            /\ \A b \in brief.named : jobs[b] # None
    BY DEF BriefInv, RowsOfBrief
  <2> QED
    BY <1>10, <2>1, <2>2, <2>3 DEF BriefInv, Siblings!TypeOK, RowsOfBrief
<1>13. ConfirmsInFlight'
  BY <1>2, <1>4, <1>8, <1>9 DEF BriefInv, ConfirmsInFlight
<1>14. RecordOfHire'
  BY <1>1, <1>4, <1>9, <1>10 DEF BriefInv, RecordOfHire
<1>15. OneChosen'
  BY <1>1, <1>4, <1>8, <1>9, <1>10 DEF BriefInv, OneChosen, Chosen
<1>16. Siblings!BuyerWalks
  BY <1>2, <1>4, <1>9, <1>10, <1>14 DEF BriefInv, RowsOfBrief, StatusFits, Siblings!BuyerWalks,
     Siblings!CountsAsWalk, Siblings!WasConfirmed, RecordOfHire
<1>17. ExchangesInFlight' /\ HiresAreKnown'
  <2>1. \A x \in Exchanges : exchange[x].phase # "none" => exchange[x].about \in Agents
    BY ExchangeAsked
  <2>2. \A b \in Agents : jobs[b] # None => jobs'[b] # None
    BY <1>4, <1>9
  <2>3. \A b \in Agents : Chosen(b) => Chosen(b)'
    BY <1>4, <1>9 DEF Chosen
  <2> QED
    BY <1>10, <2>1, <2>2, <2>3 DEF BriefInv, ExchangesInFlight, HiresAreKnown
<1> QED
  BY <1>11, <1>12, <1>13, <1>14, <1>15, <1>16, <1>17 DEF BriefInv

\* The copies a sweep withdraws are of rows that are not the hire, unless two overlapped.
LEMMA SweepStep ==
    ASSUME BriefInv, NEW a \in Agents, NEW b \in Agents,
           Siblings!SweepSibling(a, b) \/ Siblings!SweepFails(a, b)
    PROVE  BriefInv' /\ Siblings!BuyerWalks
<1> DEFINE seen == [confirming[a].seen EXCEPT ![b] = None]
           c == [phase |-> "sweeping", copy |-> confirming[a].copy, seen |-> seen]
           k == WithStatus(confirming[a].seen[b], "withdrawn")
<1>1. /\ confirming[a].phase = "sweeping" /\ confirming[a].seen[b] # None
      /\ confirming[a] \in [phase : {"loaded", "looked", "sweeping"}, copy : Jobs,
                            seen : [Agents -> OrNone(Jobs)]]
  BY ConfirmAsked DEF Siblings!SweepSibling, Siblings!SweepFails, Siblings!ToSweep
<1>2. a # b /\ jobs[b] # None /\ confirming[a].seen[b].confirmedAt = None
  BY <1>1 DEF BriefInv, ConfirmsInFlight
<1>3. seen \in [Agents -> OrNone(Jobs)] /\ \A d \in Agents : seen[d] \in {None, confirming[a].seen[d]}
  BY <1>1 DEF OrNone
<1>4. confirming' = [confirming EXCEPT ![a] = c]
  <2>1. confirming' = [confirming EXCEPT ![a].seen[b] = None]
    BY DEF Siblings!SweepSibling, Siblings!SweepFails, Siblings!Swept
  <2>2. c = [confirming[a] EXCEPT !.seen = seen]
    BY <1>1
  <2> HIDE DEF c
  <2> QED
    BY <2>1, <2>2 DEF BriefInv, Siblings!TypeOK
<1> HIDE DEF seen
<1>5. c \in Siblings!Confirms
  BY <1>1, <1>3, AskingType
<1>6. /\ confirming' \in [Agents -> Siblings!Confirms]
      /\ \A d \in Agents : confirming'[d] = IF d = a THEN c ELSE confirming[d]
  BY <1>4, <1>5, ConfirmTyped
<1>7. UNCHANGED <<listed, walkedBefore, brief, deposit, doors, exchange, walked, undone, overlapped>>
  BY DEF Siblings!SweepSibling, Siblings!SweepFails, Siblings!switches, Siblings!histories
<1>8. CASE Siblings!SweepFails(a, b)
  <2>1. UNCHANGED <<jobs, told>>
    BY <1>8 DEF Siblings!SweepFails
  <2>2. Siblings!TypeOK'
    BY <1>6, <1>7, <2>1 DEF BriefInv, Siblings!TypeOK
  <2>3. ConfirmsInFlight' /\ OneChosen'
    BY <1>1, <1>3, <1>6, <1>7, <2>1 DEF BriefInv, ConfirmsInFlight, OneChosen, Chosen
  <2> QED
    BY <1>7, <2>1, <2>2, <2>3, ConfirmMoves
<1>9. CASE Siblings!SweepSibling(a, b)
  <2>1. k \in Jobs /\ k # None /\ k.status = "withdrawn" /\ k.confirmedAt = None
    <3>1. confirming[a].seen[b] \in Jobs /\ "withdrawn" \in Statuses
      BY <1>1 DEF OrNone, Statuses
    <3>2. k \in Jobs
      BY <3>1, WithStatusType
    <3>3. k.status = "withdrawn" /\ k.confirmedAt = None
      BY <1>2, <3>1 DEF WithStatus, Jobs
    <3> QED
      BY <3>2, <3>3, SiblingsAssumption
  <2>2. jobs' = [jobs EXCEPT ![b] = k]
    <3>1. jobs' = [jobs EXCEPT ![b] = Siblings!WithStatus(confirming[a].seen[b], "withdrawn")]
      BY <1>9 DEF Siblings!SweepSibling
    <3> QED
      BY <3>1, SameRows
  <2> HIDE DEF k
  <2>3. /\ jobs' \in [Agents -> OrNone(Jobs)]
        /\ \A d \in Agents : jobs'[d] = IF d = b THEN k ELSE jobs[d]
    BY <2>1, <2>2, RowsAreTyped DEF OrNone
  <2>4. PICK notices \in Siblings!Notified(b, "sibling_withdrawn") : told' = told \cup notices
    BY <1>9 DEF Siblings!SweepSibling
  <2>5. /\ notices \subseteq Siblings!Notices
        /\ \A n \in notices : n.event # "new_brief"
    BY DEF Siblings!Notified, Siblings!Notices, Siblings!Events
  <2>6. Siblings!TypeOK'
    BY <1>6, <1>7, <2>3, <2>4, <2>5, SameRows DEF BriefInv, Siblings!TypeOK
  <2>7. RowsOfBrief'
    <3>1. \A d \in Agents : (jobs'[d] = None) = (jobs[d] = None)
      BY <1>2, <2>1, <2>3
    <3>2. \A d \in Agents : jobs'[d] # None => d \in brief.named /\ StatusFits(jobs'[d])
      BY <1>2, <2>1, <2>3 DEF BriefInv, RowsOfBrief, StatusFits
    <3>3. \A n \in told' : n.event = "new_brief" => n \in told
      BY <2>4, <2>5
    <3> QED
      BY <1>7, <3>1, <3>2, <3>3 DEF BriefInv, Siblings!TypeOK, RowsOfBrief
  <2>8. ConfirmsInFlight'
    BY <1>1, <1>2, <1>3, <1>6, <2>1, <2>3 DEF BriefInv, ConfirmsInFlight
  <2>9. RecordOfHire'
    BY <1>7, <2>1, <2>3 DEF BriefInv, RecordOfHire
  <2>10. ~overlapped /\ ~undone => ~Chosen(b)
    BY <1>1, <1>2 DEF BriefInv, OneChosen
  <2>11. OneChosen'
    <3>1. ASSUME ~overlapped, ~undone PROVE \A d \in Agents : Chosen(d)' = Chosen(d)
      BY <2>1, <2>3, <2>10, <3>1 DEF Chosen
    <3>2. \A d \in Agents : confirming'[d].phase = confirming[d].phase
      BY <1>1, <1>6
    <3> QED
      BY <1>7, <3>1, <3>2 DEF BriefInv, OneChosen
  <2>12. Siblings!BuyerWalks
    BY <1>7, <2>1, <2>3, <2>9, <2>10 DEF BriefInv, RowsOfBrief, StatusFits, Chosen,
       Siblings!BuyerWalks, Siblings!CountsAsWalk, Siblings!WasConfirmed, Siblings!Exists,
       RecordOfHire
  <2>13. ExchangesInFlight' /\ HiresAreKnown'
    <3>1. \A x \in Exchanges : exchange[x].phase # "none" => exchange[x].about \in Agents
      BY ExchangeAsked
    <3>2. \A d \in Agents : jobs[d] # None => jobs'[d] # None
      BY <2>1, <2>3
    <3>3. ~overlapped /\ ~undone => \A d \in Agents : Chosen(d) => Chosen(d)'
      BY <2>3, <2>10 DEF Chosen
    <3> QED
      BY <1>7, <3>1, <3>2, <3>3 DEF BriefInv, ExchangesInFlight, HiresAreKnown
  <2> QED
    BY <2>6, <2>7, <2>8, <2>9, <2>11, <2>12, <2>13 DEF BriefInv
<1> QED
  BY <1>8, <1>9

LEMMA BriefBegins ==
    ASSUME Siblings!Init
    PROVE  BriefInv
<1>1. /\ \A a \in Agents : confirming[a] = Siblings!NoConfirm /\ jobs[a] = None
      /\ \A x \in Exchanges : exchange[x].phase = "none"
  BY DEF Siblings!Init, Siblings!NoExchange
<1>2. Siblings!TypeOK
  BY NothingAskedType DEF Siblings!Init, Siblings!TypeOK, Siblings!OrNone
<1>3. RowsOfBrief
  BY <1>1 DEF Siblings!Init, RowsOfBrief
<1>4. ConfirmsInFlight /\ ExchangesInFlight /\ RecordOfHire /\ OneChosen /\ HiresAreKnown
  BY <1>1, NothingAskedType DEF ConfirmsInFlight, ExchangesInFlight, RecordOfHire, OneChosen,
     HiresAreKnown, Chosen
<1> QED
  BY <1>2, <1>3, <1>4 DEF BriefInv

LEMMA BriefGoesOn ==
    ASSUME BriefInv, [Siblings!Next]_(Siblings!vars)
    PROVE  BriefInv' /\ Siblings!BuyerWalks
<1>1. CASE Siblings!Next
  BY <1>1, CheckBriefStep, TellStep, EndStep, CreateStep, LoadForExchangeStep, AskDepositStep,
     WriteExchangeStep, EndExchangeStep, LoadForConfirmStep, DoorStep, LookStep, ConfirmStep,
     SweepStep DEF Siblings!Next
<1>2. CASE UNCHANGED (Siblings!vars)
  <2>1. Siblings!TypeOK' /\ RowsOfBrief' /\ ConfirmsInFlight' /\ OneChosen'
    BY <1>2 DEF BriefInv, Siblings!vars, Siblings!TypeOK, RowsOfBrief, ConfirmsInFlight,
       OneChosen, Chosen
  <2> QED
    BY <1>2, <2>1, ConfirmMoves DEF Siblings!vars
<1> QED
  BY <1>1, <1>2

\* Whatever interleaves, fails or dies, the invariant of a brief holds.
THEOREM BriefInvariant == Siblings!Spec => []BriefInv
BY BriefBegins, BriefGoesOn, PTL DEF Siblings!Spec

\* A step of the scene of the siblings is a step of theirs.
LEMMA SiblingsSceneGoesOn ==
    ASSUME scene = "siblings", [JobsNext]_<<scene, vars, SiblingVars, OwnerVars>>
    PROVE  scene' = "siblings" /\ [Siblings!Next]_(Siblings!vars)
BY DEF JobsNext, OneJob, Brief, Settings, SiblingVars, Siblings!vars, Siblings!Next

BriefScene == scene = "siblings" => BriefInv

LEMMA BriefSceneGoesOn ==
    ASSUME BriefScene, [JobsNext]_<<scene, vars, SiblingVars, OwnerVars>>
    PROVE  BriefScene' /\ (scene = "siblings" => Siblings!BuyerWalks)
<1>1. CASE scene = "siblings"
  BY <1>1, SiblingsSceneGoesOn, BriefGoesOn DEF BriefScene
<1>2. CASE scene # "siblings"
  <2>1. scene' = scene
    BY <1>2 DEF JobsNext, OneJob, Brief, Settings
  <2> QED
    BY <1>2, <2>1 DEF BriefScene
<1> QED
  BY <1>1, <1>2

LEMMA BriefSceneHolds == JobsSpec => []BriefScene
<1>1. JobsInit => BriefScene
  BY BriefBegins DEF JobsInit, BriefScene
<1> QED
  BY <1>1, BriefSceneGoesOn, PTL DEF JobsSpec

\* A brief becomes one hire, for any number of agents and however the requests about them
\* interleave or die, unless two confirms overlapped or one was undone by a write from
\* before it; and nobody hears of a brief that was not opened whole (POST /jobs, POST
\* /jobs/:jobId/confirm).
THEOREM BriefsAreKept == JobsSpec => []BriefIsKept
<1>1. BriefInv => Siblings!OneHirePerBrief /\ Siblings!BriefToldWhole
  BY DEF BriefInv, OneChosen, Chosen, RowsOfBrief, Siblings!OneHirePerBrief,
     Siblings!BriefToldWhole, Siblings!WasConfirmed, Siblings!Exists
<1>2. BriefScene => BriefIsKept
  BY <1>1 DEF BriefScene, BriefIsKept
<1> QED
  BY <1>2, BriefSceneHolds, PTL

\* However the loads, questions and blind writes of any number of requests interleave: a
\* confirmed row is rewritten by the buyer's own withdraw, or by a request that read it before
\* the confirm, or when two confirms overlapped, and by nothing else; and what counts as
\* walking away is always that withdraw (applyAndPersist, buyerConductRecord).
THEOREM BuyersAloneWalk == JobsSpec => OnlyTheBuyerWalks
<1>1. BriefScene /\ [JobsNext]_<<scene, vars, SiblingVars, OwnerVars>>
          => [scene = "siblings" => Siblings!BuyerWalks]_SiblingVars
  BY BriefSceneGoesOn
<1> QED
  BY <1>1, BriefSceneHolds, PTL DEF JobsSpec, OnlyTheBuyerWalks

--------------------------------------------------------------------------------
(* The switches of one agent (AgentSettings): the other scene beside the routes.   *)

\* What the tabs, the requests and the row may hold, shapes apart.
Things == Words \cup Faces \cup BOOLEAN \cup {None, Plain}
Buttons == {"save", "reset"}
PageViews ==
    [page : {"closed", "settings", "roster"},
     shown : [{} -> Things] \cup [{"words", "listed"} -> Things] \cup [{"avatar"} -> Things],
     draft : Things, ready : SUBSET Buttons]
CallRecords ==
    [tab : Tabs \cup {None}, column : Owner!Columns, value : Things,
     step : {"idle", "sent", "let in", "written", "answered", "refused"}]
AskRecords == [what : Owner!Errands, step : {"idle", "asked", "let in"}, leave : Things]

OwnerTyped ==
    /\ agent \in [Owner!Columns -> Things]
    /\ view \in [Tabs -> PageViews]
    /\ call \in [Calls -> CallRecords]
    /\ asker \in [Askers -> AskRecords]

\* A page shows its own columns, and a request of a page is about one of them.
PageShows(page) ==
    IF page = "settings" THEN {"words", "listed"}
    ELSE IF page = "roster" THEN {"avatar"} ELSE {}
PagesShaped ==
    /\ \A t \in Tabs : DOMAIN view[t].shown = PageShows(view[t].page)
    /\ \A c \in Calls : call[c].tab # None => call[c].column \in PageShows(view[call[c].tab].page)

\* The request of the tab that has written the column and of which the tab was not told.
Late(c, t, column) ==
    call[c].tab = t /\ call[c].column = column /\ call[c].step \in {"written", "answered"}

\* A tab that is not left behind shows the row, or will once its one late request is
\* answered.
InStep(t, column) ==
    /\ \A c, d \in Calls : Late(c, t, column) /\ Late(d, t, column) => c = d
    /\ (\A c \in Calls : ~Late(c, t, column)) =>
           view[t].shown[column] = Owner!Reads(column, agent[column])
    /\ \A c \in Calls : Late(c, t, column) /\ call[c].step = "answered" =>
           call[c].value = agent[column]
TabsInStep ==
    \A t \in Tabs, column \in Owner!Columns :
        column \in PageShows(view[t].page) /\ <<t, column>> \notin behind => InStep(t, column)

\* Who was let in had leave, and who asks while the switch is on has it.
Gate(a) == agent[Owner!Gated(asker[a].what)] = TRUE
LeaveKept ==
    /\ \A a \in Askers : asker[a].step = "asked" /\ Gate(a) => asker[a].leave = TRUE
    /\ \A a \in Askers : asker[a].step = "let in" /\ asker[a].what # "operator" =>
           asker[a].leave = TRUE
    /\ landed.what # "operator" => landed.leave = TRUE

OwnerInv == OwnerTyped /\ PagesShaped /\ TabsInStep /\ LeaveKept

\* The gates are one step: whoever may passes, whoever may not is turned away.
Passes(a) ==
    /\ asker[a].step = "asked"
    /\ \/ /\ asker[a].what = "operator" \/ Gate(a)
          /\ asker' = [asker EXCEPT ![a] = [@ EXCEPT !.step = "let in"]]
       \/ asker' = [asker EXCEPT ![a] = Owner!NoAsker]
    /\ UNCHANGED <<agent, view, call, behind, landed, asked>>

OwnerMoves ==
    \/ \E t \in Tabs : Owner!OpenSettings(t) \/ Owner!OpenRoster(t) \/ Owner!Leave(t) \/ Owner!Reconsider(t)
    \/ \E t \in Tabs, words \in Words : Owner!Type(t, words)
    \/ \E t \in Tabs, face \in Faces : Owner!Choose(t, face)
    \/ \E c \in Calls, t \in Tabs : Owner!SubmitWords(c, t) \/ Owner!PressListing(c, t)
    \/ \E c \in Calls, t \in Tabs, button \in Buttons, value \in Things : Owner!PressAvatar(c, t, button, value)
    \/ \E c \in Calls, column \in Owner!Columns, value \in Things : Owner!OwnerCalls(c, column, value)
    \/ \E c \in Calls : Owner!LetIn(c) \/ Owner!Refuse(c) \/ Owner!WriteColumn(c) \/ Owner!ReRead(c) \/ Owner!ReReadFails(c)
    \/ \E c \in Calls : Owner!Answer(c) \/ Owner!Refusal(c) \/ Owner!Lost(c)
    \/ \E a \in Askers, what \in Owner!Errands : Owner!Ask(a, what)
    \/ \E a \in Askers : Passes(a) \/ Owner!CarryOut(a)

LEMMA TabFields ==
    ASSUME OwnerTyped, NEW t \in Tabs
    PROVE  /\ view[t] \in PageViews /\ view[t].page \in {"closed", "settings", "roster"}
           /\ view[t].draft \in Things /\ view[t].ready \in SUBSET Buttons
BY DEF OwnerTyped, PageViews

LEMMA CallFields ==
    ASSUME OwnerTyped, NEW c \in Calls
    PROVE  /\ call[c] \in CallRecords /\ call[c].column \in Owner!Columns /\ call[c].value \in Things
           /\ call[c].tab \in Tabs \cup {None}
           /\ call[c].step \in {"idle", "sent", "let in", "written", "answered", "refused"}
BY DEF OwnerTyped, CallRecords

\* What the page shows of a column it has is something it may show.
LEMMA ShownIsAny ==
    ASSUME OwnerTyped, PagesShaped, NEW t \in Tabs,
       NEW column \in PageShows(view[t].page)
    PROVE  view[t].shown[column] \in Things
<1>1. view[t].shown \in [{} -> Things] \cup [{"words", "listed"} -> Things] \cup [{"avatar"} -> Things]
  BY DEF OwnerTyped, PageViews
<1>2. column \in DOMAIN view[t].shown
  BY DEF PagesShaped
<1> QED
  BY <1>1, <1>2

LEMMA EveryMove ==
    ASSUME OwnerTyped, Owner!Next
    PROVE  OwnerMoves
<1>1. ASSUME NEW a \in Askers,
   Owner!GateNegotiation(a) \/ Owner!GateThread(a) \/ Owner!GateHire(a)
      PROVE  Passes(a)
  <2>1. CASE Owner!GateNegotiation(a)
    BY <2>1 DEF Owner!GateNegotiation, Owner!PassesWhen, Owner!MayNegotiate, Passes,
       Gate, Owner!Gated
  <2>2. CASE Owner!GateThread(a)
    BY <2>2 DEF Owner!GateThread, Owner!PassesWhen, Owner!MayNegotiate, Passes, Gate,
       Owner!Gated
  <2>3. CASE Owner!GateHire(a)
    BY <2>3 DEF Owner!GateHire, Owner!PassesWhen, Passes, Gate, Owner!Gated
  <2> QED
    BY <1>1, <2>1, <2>2, <2>3
<1>2. ASSUME NEW c \in Calls, NEW t \in Tabs, Owner!SaveAvatar(c,
   t) \/ Owner!ResetAvatar(c, t)
      PROVE  \E button \in Buttons, value \in Things : Owner!PressAvatar(c, t, button, value)
  <2>1. None \in Things /\ view[t].draft \in Things
    BY TabFields DEF Things
  <2> QED
    BY <1>2, <2>1 DEF Owner!SaveAvatar, Owner!ResetAvatar, Buttons
<1>3. ASSUME NEW c \in Calls, NEW column \in Owner!Columns,
   NEW value \in Owner!Value(column),
             Owner!OwnerCalls(c, column, value)
      PROVE  value \in Things
  BY <1>3 DEF Owner!Value, Owner!Columns, Things
<1>4. ASSUME NEW c \in Calls,
             Owner!EditListing(c) \/ Owner!SetListed(c) \/ Owner!SetAvatar(c) \/ Owner!SetNegotiates(c)
      PROVE  Owner!WriteColumn(c)
  BY <1>4 DEF Owner!EditListing, Owner!SetListed, Owner!SetAvatar, Owner!SetNegotiates
<1> QED
  BY <1>1, <1>2, <1>3, <1>4 DEF Owner!Next, OwnerMoves

\* A step drew this tab only, and it shows that now.
Redrawn(t, page, shown) ==
    /\ view' \in [Tabs -> PageViews]
    /\ \A u \in Tabs \ {t} : view'[u] = view[u]
    /\ view'[t].page = page /\ view'[t].shown = shown

\* A step left what every tab shows.
SamePages ==
    /\ view' \in [Tabs -> PageViews]
    /\ \A t \in Tabs : view'[t].page = view[t].page /\ view'[t].shown = view[t].shown

\* A step moved this request only.
CallPut(c, t, column, value, step) ==
    /\ call' \in [Calls -> CallRecords]
    /\ \A d \in Calls \ {c} : call'[d] = call[d]
    /\ call'[c].tab = t /\ call'[c].column = column /\ call'[c].value = value
    /\ call'[c].step = step

LEMMA ViewMoves ==
    ASSUME NEW v \in PageViews, NEW draft \in Things, NEW ready \in SUBSET Buttons
    PROVE  /\ [v EXCEPT !.draft = draft] \in PageViews
           /\ [v EXCEPT !.draft = draft].page = v.page
           /\ [v EXCEPT !.draft = draft].shown = v.shown
           /\ [v EXCEPT !.ready = ready] \in PageViews
           /\ [v EXCEPT !.ready = ready].page = v.page
           /\ [v EXCEPT !.ready = ready].shown = v.shown
           /\ [v EXCEPT !.draft = draft, !.ready = ready] \in PageViews
           /\ [v EXCEPT !.draft = draft, !.ready = ready].page = v.page
           /\ [v EXCEPT !.draft = draft, !.ready = ready].shown = v.shown
BY DEF PageViews

LEMMA ViewPut ==
    ASSUME OwnerTyped, NEW t \in Tabs, NEW v \in PageViews,
       view' = [view EXCEPT ![t] = v]
    PROVE  Redrawn(t, v.page, v.shown)
BY DEF OwnerTyped, Redrawn

LEMMA ViewKept ==
    ASSUME OwnerTyped, NEW t \in Tabs, NEW v \in PageViews,
       view' = [view EXCEPT ![t] = v],
           v.page = view[t].page, v.shown = view[t].shown
    PROVE  SamePages
BY DEF OwnerTyped, SamePages

LEMMA ReadsThings ==
    ASSUME NEW column, NEW value \in Things
    PROVE  Owner!Reads(column, value) \in Things
BY DEF Owner!Reads, Owner!Resolve, Things

LEMMA ReadyButtons ==
    ASSUME NEW draft, NEW saved
    PROVE  Owner!Ready(draft, saved) \in SUBSET Buttons
BY DEF Owner!Ready, Buttons

LEMMA OpenSettingsShows ==
    ASSUME OwnerTyped, NEW t \in Tabs, Owner!OpenSettings(t)
    PROVE  Redrawn(t, "settings", [column \in {"words", "listed"} |-> agent[column]])
<1>1. [column \in {"words", "listed"} |-> agent[column]] \in [{"words", "listed"} -> Things]
  BY DEF OwnerTyped, Owner!Columns
<1>2. agent["words"] \in Things
  BY DEF OwnerTyped, Owner!Columns
<1>3. Owner!Settings \in PageViews /\ Owner!Settings.page = "settings"
      /\ Owner!Settings.shown = [column \in {"words", "listed"} |-> agent[column]]
  BY <1>1, <1>2 DEF Owner!Settings, PageViews
<1> QED
  BY <1>3, ViewPut DEF Owner!OpenSettings

LEMMA OpenRosterShows ==
    ASSUME OwnerTyped, NEW t \in Tabs, Owner!OpenRoster(t)
    PROVE  Redrawn(t, "roster", [column \in {"avatar"} |-> Owner!Resolve(agent["avatar"])])
<1>1. Owner!Resolve(agent["avatar"]) \in Things
  BY DEF OwnerTyped, Owner!Columns, Owner!Resolve, Things
<1>2. [column \in {"avatar"} |-> Owner!Resolve(agent["avatar"])] \in [{"avatar"} -> Things]
  BY <1>1
<1>3. Owner!Roster \in PageViews /\ Owner!Roster.page = "roster"
      /\ Owner!Roster.shown = [column \in {"avatar"} |-> Owner!Resolve(agent["avatar"])]
  BY <1>1, <1>2, ReadyButtons DEF Owner!Roster, PageViews
<1> QED
  BY <1>3, ViewPut DEF Owner!OpenRoster

LEMMA LeaveShows ==
    ASSUME OwnerTyped, NEW t \in Tabs, Owner!Leave(t)
    PROVE  Redrawn(t, "closed", [column \in {} |-> None])
<1>1. [column \in {} |-> None] \in [{} -> Things] /\ None \in Things
  BY DEF Things
<1>2. Owner!Closed \in PageViews /\ Owner!Closed.page = "closed" /\ Owner!Closed.shown = [column \in {} |-> None]
  BY <1>1 DEF Owner!Closed, PageViews
<1> QED
  BY <1>2, ViewPut DEF Owner!Leave

\* Typing, choosing, reconsidering and pressing change nothing that is shown.
LEMMA EditsShowNothing ==
    ASSUME OwnerTyped, PagesShaped, NEW t \in Tabs,
           \/ \E words \in Words : Owner!Type(t, words)
           \/ \E face \in Faces : Owner!Choose(t, face)
           \/ Owner!Reconsider(t)
           \/ \E c \in Calls, button \in Buttons, value \in Things : Owner!PressAvatar(c, t, button, value)
    PROVE  SamePages
<1>0. view[t] \in PageViews /\ view[t].ready \in SUBSET Buttons
  BY TabFields
<1>1. ASSUME NEW words \in Words, Owner!Type(t, words) PROVE SamePages
  <2>1. words \in Things
    BY DEF Things
  <2>2. view' = [view EXCEPT ![t] = [view[t] EXCEPT !.draft = words]]
    BY <1>1 DEF Owner!Type
  <2> QED
    BY <1>0, <2>1, <2>2, ViewMoves, ViewKept
<1>2. ASSUME NEW face \in Faces, Owner!Choose(t, face) PROVE SamePages
  <2> DEFINE ready == Owner!Ready(face, view[t].shown["avatar"])
  <2>1. face \in Things /\ ready \in SUBSET Buttons
    BY ReadyButtons DEF Things
  <2>2. view' = [view EXCEPT ![t] = [view[t] EXCEPT !.draft = face, !.ready = ready]]
    BY <1>2 DEF Owner!Choose, OwnerTyped
  <2> HIDE DEF ready
  <2> DEFINE v == [view[t] EXCEPT !.draft = face, !.ready = ready]
  <2>3. v \in PageViews /\ v.page = view[t].page /\ v.shown = view[t].shown
    BY <1>0, <2>1 DEF PageViews
  <2>4. view' = [view EXCEPT ![t] = v]
    BY <2>2
  <2> HIDE DEF v
  <2> QED
    BY <2>3, <2>4, ViewKept
<1>3. CASE Owner!Reconsider(t)
  <2> DEFINE saved == view[t].shown["avatar"]
             ready == Owner!Ready(saved, saved)
  <2>1. saved \in Things
    BY <1>3, ShownIsAny DEF Owner!Reconsider, PageShows
  <2>2. ready \in SUBSET Buttons
    BY ReadyButtons
  <2>3. view' = [view EXCEPT ![t] = [view[t] EXCEPT !.draft = saved, !.ready = ready]]
    BY <1>3 DEF Owner!Reconsider, OwnerTyped
  <2> HIDE DEF saved, ready
  <2> DEFINE v == [view[t] EXCEPT !.draft = saved, !.ready = ready]
  <2>4. v \in PageViews /\ v.page = view[t].page /\ v.shown = view[t].shown
    BY <1>0, <2>1, <2>2 DEF PageViews
  <2>5. view' = [view EXCEPT ![t] = v]
    BY <2>3
  <2> HIDE DEF v
  <2> QED
    BY <2>4, <2>5, ViewKept
<1>4. ASSUME NEW c \in Calls, NEW button \in Buttons, NEW value \in Things,
             Owner!PressAvatar(c, t, button, value)
      PROVE  SamePages
  <2> DEFINE ready == view[t].ready \ {button}
  <2>1. ready \in SUBSET Buttons
    BY <1>0
  <2>2. view' = [view EXCEPT ![t] = [view[t] EXCEPT !.ready = ready]]
    BY <1>4 DEF Owner!PressAvatar
  <2> HIDE DEF ready
  <2> QED
    BY <1>0, <2>1, <2>2, ViewMoves, ViewKept
<1> QED
  BY <1>1, <1>2, <1>3, <1>4

\* A refusal, or a call that is taken for lost, gives the buttons back and no more.
LEMMA UndoneShowsNothing ==
    ASSUME OwnerTyped, NEW c \in Calls, Owner!Refusal(c) \/ Owner!Lost(c)
    PROVE  SamePages
<1>1. CASE call[c].tab = None
  BY <1>1 DEF Owner!Refusal, Owner!Lost, SamePages, OwnerTyped
<1>2. CASE call[c].tab # None
  <2> DEFINE t == call[c].tab
             v == view[t]
             ready == Owner!Ready(v.draft, v.shown["avatar"])
  <2>1. t \in Tabs
    BY <1>2, CallFields
  <2>2. v \in PageViews /\ ready \in SUBSET Buttons /\ v.draft \in Things
    BY <2>1, TabFields, ReadyButtons
  <2>3. Owner!Undone(c) = v \/ Owner!Undone(c) = [v EXCEPT !.ready = ready]
    BY DEF Owner!Undone
  <2>4. view' = [view EXCEPT ![t] = Owner!Undone(c)]
    BY <1>2 DEF Owner!Refusal, Owner!Lost
  <2> HIDE DEF t, v, ready
  <2>5. Owner!Undone(c) \in PageViews /\ Owner!Undone(c).page = v.page /\ Owner!Undone(c).shown = v.shown
    <3>1. CASE Owner!Undone(c) = v
      BY <2>2, <3>1
    <3>2. CASE Owner!Undone(c) = [v EXCEPT !.ready = ready]
      BY <2>2, <3>2 DEF PageViews
    <3> QED
      BY <2>3, <3>1, <3>2
  <2> QED
    BY <2>1, <2>4, <2>5, ViewKept DEF v
<1> QED
  BY <1>1, <1>2

\* An answer puts its value where the page shows the column.
LEMMA AnswerShows ==
    ASSUME OwnerTyped, PagesShaped, NEW c \in Calls, Owner!Answer(c), call[c].tab # None
    PROVE  Redrawn(call[c].tab, view[call[c].tab].page,
                   [view[call[c].tab].shown EXCEPT
                        ![call[c].column] = Owner!Reads(call[c].column, call[c].value)])
<1> DEFINE t == call[c].tab
           v == view[t]
           value == Owner!Reads(call[c].column, call[c].value)
           shown == [v.shown EXCEPT ![call[c].column] = value]
           draft == IF call[c].column = "listed" THEN v.draft ELSE value
           ready == IF call[c].column = "avatar" THEN Owner!Ready(value, value) ELSE v.ready
<1>1. t \in Tabs /\ call[c].value \in Things
  BY CallFields
<1>2. value \in Things
  BY <1>1, ReadsThings
<1>3. v \in PageViews /\ v.draft \in Things /\ v.ready \in SUBSET Buttons
  BY <1>1, TabFields
<1>4. Owner!Shown(c) = [v EXCEPT !.shown = shown, !.draft = draft, !.ready = ready]
  BY DEF Owner!Shown
<1>5. view' = [view EXCEPT ![t] = Owner!Shown(c)]
  BY DEF Owner!Answer
<1> HIDE DEF t, value
<1>6. shown \in [{} -> Things] \cup [{"words", "listed"} -> Things] \cup [{"avatar"} -> Things]
  BY <1>2, <1>3 DEF PageViews
<1>7. draft \in Things /\ ready \in SUBSET Buttons
  BY <1>2, <1>3, ReadyButtons
<1> HIDE DEF shown, draft, ready
<1>8. Owner!Shown(c) \in PageViews /\ Owner!Shown(c).page = v.page /\ Owner!Shown(c).shown = shown
  BY <1>3, <1>4, <1>6, <1>7 DEF PageViews
<1>9. Redrawn(t, v.page, shown)
  BY <1>1, <1>5, <1>8, ViewPut
<1> QED
  BY <1>9 DEF shown, value, t

LEMMA CallMoves ==
    ASSUME OwnerTyped, NEW c \in Calls, NEW k \in CallRecords,
       call' = [call EXCEPT ![c] = k]
    PROVE  CallPut(c, k.tab, k.column, k.value, k.step)
BY DEF OwnerTyped, CallPut

LEMMA SendPuts ==
    ASSUME OwnerTyped, NEW c \in Calls, NEW t \in Tabs \cup {None},
       NEW column \in Owner!Columns,
           NEW value \in Things, Owner!Send(c, t, column, value)
    PROVE  CallPut(c, t, column, value, "sent")
<1> DEFINE k == [tab |-> t, column |-> column, value |-> value, step |-> "sent"]
<1>1. k \in CallRecords
  BY DEF CallRecords
<1>2. call' = [call EXCEPT ![c] = k]
  BY DEF Owner!Send
<1>3. k.tab = t /\ k.column = column /\ k.value = value /\ k.step = "sent"
  OBVIOUS
<1> HIDE DEF k
<1> QED
  BY <1>1, <1>2, <1>3, CallMoves

LEMMA OverPuts ==
    ASSUME OwnerTyped, NEW c \in Calls, Owner!Over(c)
    PROVE  CallPut(c, None, "words", None, "idle")
<1>1. Owner!NoCall \in CallRecords
  BY DEF Owner!NoCall, CallRecords, Owner!Columns, Things
<1>2. /\ Owner!NoCall.tab = None /\ Owner!NoCall.column = "words"
      /\ Owner!NoCall.value = None /\ Owner!NoCall.step = "idle"
  BY DEF Owner!NoCall
<1> QED
  BY <1>1, <1>2, CallMoves DEF Owner!Over

LEMMA StepPuts ==
    ASSUME OwnerTyped, NEW c \in Calls,
           NEW step \in {"idle", "sent", "let in", "written", "answered", "refused"},
           Owner!Step(c, step)
    PROVE  CallPut(c, call[c].tab, call[c].column, call[c].value, step)
<1> DEFINE k == [call[c] EXCEPT !.step = step]
<1>1. /\ k \in CallRecords /\ k.tab = call[c].tab /\ k.column = call[c].column
      /\ k.value = call[c].value /\ k.step = step
  BY CallFields DEF CallRecords
<1>2. call' = [call EXCEPT ![c] = k]
  BY DEF Owner!Step
<1> HIDE DEF k
<1> QED
  BY <1>1, <1>2, CallMoves

LEMMA ReReadPuts ==
    ASSUME OwnerTyped, NEW c \in Calls, Owner!ReRead(c), call[c].tab # None
    PROVE  CallPut(c, call[c].tab, call[c].column, agent[call[c].column], "answered")
<1> DEFINE value == agent[call[c].column]
           k == [call[c] EXCEPT !.step = "answered", !.value = value]
<1>1. value \in Things
  BY CallFields DEF OwnerTyped
<1>2. call' = [call EXCEPT ![c] = k]
  BY DEF Owner!ReRead, OwnerTyped
<1> HIDE DEF value
<1>3. /\ k \in CallRecords /\ k.tab = call[c].tab /\ k.column = call[c].column
      /\ k.value = value /\ k.step = "answered"
  BY <1>1, CallFields DEF CallRecords
<1> HIDE DEF k
<1> QED
  BY <1>2, <1>3, CallMoves DEF value

LEMMA LostPuts ==
    ASSUME OwnerTyped, NEW c \in Calls, Owner!Lost(c)
    PROVE  \/ CallPut(c, None, "words", None, "idle")
           \/ CallPut(c, None, call[c].column, call[c].value, call[c].step)
<1>1. CASE call[c].step \in {"sent", "let in", "written"}
  <2> DEFINE k == [call[c] EXCEPT !.tab = None]
  <2>1. /\ k \in CallRecords /\ k.tab = None /\ k.column = call[c].column
        /\ k.value = call[c].value /\ k.step = call[c].step
    BY CallFields DEF CallRecords
  <2>2. call' = [call EXCEPT ![c] = k]
    BY <1>1 DEF Owner!Lost
  <2> HIDE DEF k
  <2> QED
    BY <2>1, <2>2, CallMoves
<1>2. CASE call[c].step \notin {"sent", "let in", "written"}
  BY <1>2, OverPuts DEF Owner!Lost
<1> QED
  BY <1>1, <1>2

LEMMA LeavePuts ==
    ASSUME OwnerTyped, NEW t \in Tabs, Owner!Leave(t)
    PROVE  /\ call' \in [Calls -> CallRecords]
           /\ \A c \in Calls : /\ call[c].tab # t => call'[c] = call[c]
                               /\ call[c].tab = t => call'[c].tab = None
<1>1. ASSUME NEW c \in Calls
      PROVE  [call[c] EXCEPT !.tab = None] \in CallRecords /\ [call[c] EXCEPT !.tab = None].tab = None
  BY CallFields DEF CallRecords
<1> QED
  BY <1>1, CallFields DEF Owner!Leave

\* A page sends about what it shows.
LEMMA PagesSend ==
    ASSUME OwnerTyped, NEW c \in Calls, NEW t \in Tabs,
           \/ Owner!SubmitWords(c, t) \/ Owner!PressListing(c, t)
           \/ \E button \in Buttons, value \in Things : Owner!PressAvatar(c, t, button, value)
    PROVE  /\ call[c].step = "idle"
           /\ \E column \in PageShows(view[t].page), value \in Things :
                  CallPut(c, t, column, value, "sent")
<1>1. CASE Owner!SubmitWords(c, t)
  <2>1. Owner!Send(c, t, "words", view[t].draft) /\ "words" \in PageShows(view[t].page)
    BY <1>1 DEF Owner!SubmitWords, PageShows
  <2>2. view[t].draft \in Things /\ "words" \in Owner!Columns
    BY TabFields DEF Owner!Columns
  <2> QED
    BY <2>1, <2>2, SendPuts DEF Owner!Send
<1>2. CASE Owner!PressListing(c, t)
  <2> DEFINE value == ~view[t].shown["listed"]
  <2>1. Owner!Send(c, t, "listed", value) /\ "listed" \in PageShows(view[t].page)
    BY <1>2 DEF Owner!PressListing, PageShows
  <2>2. value \in Things /\ "listed" \in Owner!Columns
    BY DEF Things, Owner!Columns
  <2> HIDE DEF value
  <2> QED
    BY <2>1, <2>2, SendPuts DEF Owner!Send
<1>3. ASSUME NEW button \in Buttons, NEW value \in Things, Owner!PressAvatar(c, t,
   button, value)
      PROVE  /\ call[c].step = "idle"
             /\ "avatar" \in PageShows(view[t].page) /\ CallPut(c, t, "avatar", value, "sent")
  <2>1. Owner!Send(c, t, "avatar", value) /\ "avatar" \in PageShows(view[t].page)
    BY <1>3 DEF Owner!PressAvatar, PageShows
  <2> QED
    BY <2>1, SendPuts DEF Owner!Send, Owner!Columns
<1> QED
  BY <1>1, <1>2, <1>3

\* What the write of one column moves.
LEMMA WriteMoves ==
    ASSUME OwnerTyped, NEW c \in Calls, Owner!WriteColumn(c)
    PROVE  /\ agent' \in [Owner!Columns -> Things]
           /\ agent'[call[c].column] = call[c].value
           /\ \A column \in Owner!Columns \ {call[c].column} : agent'[column] = agent[column]
           /\ call[c].tab = None => CallPut(c, None, "words", None, "idle")
           /\ call[c].tab # None =>
                  CallPut(c, call[c].tab, call[c].column, call[c].value, "written")
<1>1. agent' = [agent EXCEPT ![call[c].column] = call[c].value]
  BY DEF Owner!WriteColumn
<1>2. call[c].tab = None => Owner!Over(c)
  BY DEF Owner!WriteColumn
<1>3. call[c].tab # None => Owner!Step(c, "written")
  BY DEF Owner!WriteColumn
<1>4. call[c].column \in Owner!Columns /\ call[c].value \in Things
  BY CallFields
<1>5. agent' \in [Owner!Columns -> Things] /\ agent'[call[c].column] = call[c].value
  BY <1>1, <1>4 DEF OwnerTyped
<1>6. \A column \in Owner!Columns \ {call[c].column} : agent'[column] = agent[column]
  BY <1>1 DEF OwnerTyped
<1>7. call[c].tab = None => CallPut(c, None, "words", None, "idle")
  BY <1>2, OverPuts
<1>8. call[c].tab # None => CallPut(c, call[c].tab, call[c].column, call[c].value, "written")
  BY <1>3, StepPuts
<1> QED
  BY <1>5, <1>6, <1>7, <1>8

LEMMA WriteGivesLeave ==
    ASSUME OwnerTyped, NEW c \in Calls, Owner!WriteColumn(c), NEW a \in Askers
    PROVE  /\ asker' \in [Askers -> AskRecords]
           /\ asker'[a].what = asker[a].what /\ asker'[a].step = asker[a].step
           /\ asker[a].leave = TRUE => asker'[a].leave = TRUE
           /\ Owner!Gated(asker[a].what) = call[c].column /\ call[c].value = TRUE =>
                  asker'[a].leave = TRUE
<1> DEFINE gives(b) == Owner!Gated(asker[b].what) = call[c].column /\ call[c].value = TRUE
           after(b) == [asker[b] EXCEPT !.leave = asker[b].leave \/ gives(b)]
<1>1. asker' = [b \in Askers |-> after(b)]
  BY DEF Owner!WriteColumn
<1>2. ASSUME NEW b \in Askers
      PROVE  /\ after(b) \in AskRecords /\ after(b).what = asker[b].what
             /\ after(b).step = asker[b].step
             /\ after(b).leave = (asker[b].leave \/ gives(b))
  BY DEF OwnerTyped, AskRecords, Things
<1>3. gives(a) <=> (Owner!Gated(asker[a].what) = call[c].column /\ call[c].value = TRUE)
  OBVIOUS
<1> HIDE DEF after, gives
<1>4. asker' \in [Askers -> AskRecords] /\ asker'[a] = after(a)
  BY <1>1, <1>2
<1>5. asker[a].leave = TRUE \/ gives(a) => asker'[a].leave = TRUE
  BY <1>2, <1>4
<1> QED
  BY <1>2, <1>3, <1>4, <1>5

\* Nothing is stored, shown or sent but what it may be.
LEMMA OwnerStaysTyped ==
    ASSUME OwnerInv, OwnerMoves, OwnerMoves
    PROVE  OwnerTyped'
<1>1. ASSUME NEW t \in Tabs, Owner!OpenSettings(t) PROVE OwnerTyped'
  <2>1. agent' = agent /\ asker' = asker /\ call' = call
    BY <1>1 DEF Owner!OpenSettings
  <2> QED
    BY <1>1, <2>1, OpenSettingsShows DEF OwnerInv, OwnerTyped, Redrawn
<1>2. ASSUME NEW t \in Tabs, Owner!OpenRoster(t) PROVE OwnerTyped'
  <2>1. agent' = agent /\ asker' = asker /\ call' = call
    BY <1>2 DEF Owner!OpenRoster
  <2> QED
    BY <1>2, <2>1, OpenRosterShows DEF OwnerInv, OwnerTyped, Redrawn
<1>3. ASSUME NEW t \in Tabs, Owner!Leave(t) PROVE OwnerTyped'
  <2>1. agent' = agent /\ asker' = asker
    BY <1>3 DEF Owner!Leave
  <2>2. view' \in [Tabs -> PageViews] /\ call' \in [Calls -> CallRecords]
    BY <1>3, LeaveShows, LeavePuts DEF OwnerInv, Redrawn
  <2> QED
    BY <2>1, <2>2 DEF OwnerInv, OwnerTyped
<1>4. ASSUME NEW t \in Tabs, Owner!Reconsider(t) PROVE OwnerTyped'
  <2>1. agent' = agent /\ asker' = asker /\ call' = call
    BY <1>4 DEF Owner!Reconsider
  <2>2. SamePages
    BY <1>4, EditsShowNothing DEF OwnerInv
  <2> QED
    BY <2>1, <2>2 DEF OwnerInv, OwnerTyped, SamePages
<1>5. ASSUME NEW t \in Tabs, NEW words \in Words, Owner!Type(t, words) PROVE OwnerTyped'
  <2>1. agent' = agent /\ asker' = asker /\ call' = call
    BY <1>5 DEF Owner!Type
  <2>2. SamePages
    BY <1>5, EditsShowNothing DEF OwnerInv
  <2> QED
    BY <2>1, <2>2 DEF OwnerInv, OwnerTyped, SamePages
<1>6. ASSUME NEW t \in Tabs, NEW face \in Faces, Owner!Choose(t, face) PROVE OwnerTyped'
  <2>1. agent' = agent /\ asker' = asker /\ call' = call
    BY <1>6 DEF Owner!Choose
  <2>2. SamePages
    BY <1>6, EditsShowNothing DEF OwnerInv
  <2> QED
    BY <2>1, <2>2 DEF OwnerInv, OwnerTyped, SamePages
<1>7. ASSUME NEW c \in Calls, NEW t \in Tabs, Owner!SubmitWords(c, t) PROVE OwnerTyped'
  <2>1. agent' = agent /\ asker' = asker /\ view' = view
    BY <1>7 DEF Owner!SubmitWords
  <2>2. call' \in [Calls -> CallRecords]
    BY <1>7, PagesSend DEF OwnerInv, CallPut
  <2> QED
    BY <2>1, <2>2 DEF OwnerInv, OwnerTyped
<1>8. ASSUME NEW c \in Calls, NEW t \in Tabs, Owner!PressListing(c, t) PROVE OwnerTyped'
  <2>1. agent' = agent /\ asker' = asker /\ view' = view
    BY <1>8 DEF Owner!PressListing
  <2>2. call' \in [Calls -> CallRecords]
    BY <1>8, PagesSend DEF OwnerInv, CallPut
  <2> QED
    BY <2>1, <2>2 DEF OwnerInv, OwnerTyped
<1>9. ASSUME NEW c \in Calls, NEW t \in Tabs, NEW button \in Buttons,
   NEW value \in Things, Owner!PressAvatar(c, t, button, value) PROVE OwnerTyped'
  <2>1. agent' = agent /\ asker' = asker
    BY <1>9 DEF Owner!PressAvatar
  <2>2. call' \in [Calls -> CallRecords]
    BY <1>9, PagesSend DEF OwnerInv, CallPut
  <2>3. SamePages
    BY <1>9, EditsShowNothing DEF OwnerInv
  <2> QED
    BY <2>1, <2>2, <2>3 DEF OwnerInv, OwnerTyped, SamePages
<1>10. ASSUME NEW c \in Calls, NEW column \in Owner!Columns, NEW value \in Things,
   Owner!OwnerCalls(c, column, value) PROVE OwnerTyped'
  <2>1. agent' = agent /\ asker' = asker /\ view' = view
    BY <1>10 DEF Owner!OwnerCalls
  <2>2. call' \in [Calls -> CallRecords]
    BY <1>10, SendPuts DEF OwnerInv, Owner!OwnerCalls, CallPut
  <2> QED
    BY <2>1, <2>2 DEF OwnerInv, OwnerTyped
<1>11. ASSUME NEW c \in Calls, Owner!LetIn(c) PROVE OwnerTyped'
  <2>1. agent' = agent /\ asker' = asker /\ view' = view
    BY <1>11 DEF Owner!LetIn
  <2>2. call' \in [Calls -> CallRecords]
    BY <1>11, StepPuts, OverPuts DEF OwnerInv, Owner!LetIn, CallPut
  <2> QED
    BY <2>1, <2>2 DEF OwnerInv, OwnerTyped
<1>12. ASSUME NEW c \in Calls, Owner!Refuse(c) PROVE OwnerTyped'
  <2>1. agent' = agent /\ asker' = asker /\ view' = view
    BY <1>12 DEF Owner!Refuse
  <2>2. call' \in [Calls -> CallRecords]
    BY <1>12, StepPuts, OverPuts DEF OwnerInv, Owner!Refuse, CallPut
  <2> QED
    BY <2>1, <2>2 DEF OwnerInv, OwnerTyped
<1>13. ASSUME NEW c \in Calls, Owner!WriteColumn(c) PROVE OwnerTyped'
  <2>1. view' = view
    BY <1>13 DEF Owner!WriteColumn
  <2>2. agent' \in [Owner!Columns -> Things] /\ call' \in [Calls -> CallRecords]
    BY <1>13, WriteMoves DEF OwnerInv, CallPut
  <2>3. asker' \in [Askers -> AskRecords]
    <3>1. ASSUME NEW a \in Askers PROVE asker' \in [Askers -> AskRecords]
      BY <1>13, WriteGivesLeave DEF OwnerInv
    <3>2. Askers = {} => asker' \in [Askers -> AskRecords]
      BY <1>13 DEF Owner!WriteColumn
    <3> QED
      BY <3>1, <3>2
  <2> QED
    BY <2>1, <2>2, <2>3 DEF OwnerInv, OwnerTyped
<1>14. ASSUME NEW c \in Calls, Owner!ReRead(c) PROVE OwnerTyped'
  <2>1. agent' = agent /\ asker' = asker /\ view' = view
    BY <1>14 DEF Owner!ReRead
  <2>2. call' \in [Calls -> CallRecords]
    <3>1. CASE call[c].tab = None
      BY <1>14, <3>1, OverPuts DEF OwnerInv, Owner!ReRead, CallPut
    <3>2. CASE call[c].tab # None
      BY <1>14, <3>2, ReReadPuts DEF OwnerInv, CallPut
    <3> QED
      BY <3>1, <3>2
  <2> QED
    BY <2>1, <2>2 DEF OwnerInv, OwnerTyped
<1>15. ASSUME NEW c \in Calls, Owner!ReReadFails(c) PROVE OwnerTyped'
  <2>1. agent' = agent /\ asker' = asker /\ view' = view
    BY <1>15 DEF Owner!ReReadFails
  <2>2. call' \in [Calls -> CallRecords]
    BY <1>15, StepPuts, OverPuts DEF OwnerInv, Owner!ReReadFails, CallPut
  <2> QED
    BY <2>1, <2>2 DEF OwnerInv, OwnerTyped
<1>16. ASSUME NEW c \in Calls, Owner!Answer(c) PROVE OwnerTyped'
  <2>1. agent' = agent /\ asker' = asker /\ call' \in [Calls -> CallRecords]
    BY <1>16, OverPuts DEF OwnerInv, Owner!Answer, CallPut
  <2>2. view' \in [Tabs -> PageViews]
    <3>1. CASE call[c].tab = None
      BY <1>16, <3>1 DEF OwnerInv, OwnerTyped, Owner!Answer
    <3>2. CASE call[c].tab # None
      BY <1>16, <3>2, AnswerShows DEF OwnerInv, Redrawn
    <3> QED
      BY <3>1, <3>2
  <2> QED
    BY <2>1, <2>2 DEF OwnerInv, OwnerTyped
<1>17. ASSUME NEW c \in Calls, Owner!Refusal(c) PROVE OwnerTyped'
  <2>1. agent' = agent /\ asker' = asker /\ call' \in [Calls -> CallRecords]
    BY <1>17, OverPuts DEF OwnerInv, Owner!Refusal, CallPut
  <2>2. SamePages
    BY <1>17, UndoneShowsNothing DEF OwnerInv
  <2> QED
    BY <2>1, <2>2 DEF OwnerInv, OwnerTyped, SamePages
<1>18. ASSUME NEW c \in Calls, Owner!Lost(c) PROVE OwnerTyped'
  <2>1. agent' = agent /\ asker' = asker /\ call' \in [Calls -> CallRecords]
    BY <1>18, LostPuts DEF OwnerInv, Owner!Lost, CallPut
  <2>2. SamePages
    BY <1>18, UndoneShowsNothing DEF OwnerInv
  <2> QED
    BY <2>1, <2>2 DEF OwnerInv, OwnerTyped, SamePages
<1>19. ASSUME NEW a \in Askers, NEW what \in Owner!Errands, Owner!Ask(a,
   what) PROVE OwnerTyped'
  <2>1. agent' = agent /\ call' = call /\ view' = view
    BY <1>19 DEF Owner!Ask
  <2>2. agent[Owner!Gated(what)] \in Things
    BY DEF OwnerInv, OwnerTyped, Owner!Gated, Owner!Columns
  <2>3. asker' \in [Askers -> AskRecords]
    BY <1>19, <2>2 DEF OwnerInv, OwnerTyped, Owner!Ask, AskRecords
  <2> QED
    BY <2>1, <2>3 DEF OwnerInv, OwnerTyped
<1>20. ASSUME NEW a \in Askers, Passes(a) PROVE OwnerTyped'
  <2>1. agent' = agent /\ call' = call /\ view' = view
    BY <1>20 DEF Passes
  <2>2. [asker[a] EXCEPT !.step = "let in"] \in AskRecords /\ Owner!NoAsker \in AskRecords
    BY DEF OwnerInv, OwnerTyped, Owner!NoAsker, AskRecords, Owner!Errands, Things
  <2>3. asker' \in [Askers -> AskRecords]
    BY <1>20, <2>2 DEF OwnerInv, OwnerTyped, Passes
  <2> QED
    BY <2>1, <2>3 DEF OwnerInv, OwnerTyped
<1>21. ASSUME NEW a \in Askers, Owner!CarryOut(a) PROVE OwnerTyped'
  <2>1. agent' = agent /\ call' = call /\ view' = view
    BY <1>21 DEF Owner!CarryOut
  <2>2. Owner!NoAsker \in AskRecords
    BY DEF Owner!NoAsker, AskRecords, Owner!Errands, Things
  <2>3. asker' \in [Askers -> AskRecords]
    BY <1>21, <2>2 DEF OwnerInv, OwnerTyped, Owner!CarryOut
  <2> QED
    BY <2>1, <2>3 DEF OwnerInv, OwnerTyped
<1> QED
  BY <1>1, <1>2, <1>3, <1>4, <1>5, <1>6, <1>7, <1>8, <1>9, <1>10, <1>11, <1>12, <1>13,
     <1>14, <1>15, <1>16, <1>17, <1>18, <1>19, <1>20, <1>21 DEF OwnerMoves

\* Pages that show what they showed, and a request that is nobody's or of its page.
LEMMA ShapeIsKept ==
    ASSUME OwnerInv, SamePages, NEW c \in Calls, NEW t \in Tabs \cup {None}, NEW column,
           NEW value, NEW step, CallPut(c, t, column, value, step),
           t # None => column \in PageShows(view[t].page)
    PROVE  PagesShaped'
<1>1. \A u \in Tabs : DOMAIN view'[u].shown = PageShows(view'[u].page)
  BY DEF OwnerInv, PagesShaped, SamePages
<1>2. ASSUME NEW d \in Calls, call'[d].tab # None
      PROVE  call'[d].column \in PageShows(view'[call'[d].tab].page)
  <2>1. CASE d = c
    BY <1>2, <2>1 DEF CallPut, SamePages
  <2>2. CASE d # c
    <3>1. call'[d] = call[d] /\ call[d].tab # None
      BY <1>2, <2>2 DEF CallPut
    <3>2. call[d].tab \in Tabs
      BY <3>1, CallFields DEF OwnerInv
    <3>3. call[d].column \in PageShows(view[call[d].tab].page)
      BY <3>1 DEF OwnerInv, PagesShaped
    <3> QED
      BY <3>1, <3>2, <3>3 DEF SamePages
  <2> QED
    BY <2>1, <2>2
<1> QED
  BY <1>1, <1>2 DEF PagesShaped

LEMMA SamePagesUnmoved ==
    ASSUME OwnerTyped, view' = view
    PROVE  SamePages
BY DEF OwnerTyped, SamePages

\* The pages keep their shape when a tab is drawn with the columns of its page, and
\* whatever requests it has are of that page.
LEMMA DrawnShape ==
    ASSUME OwnerInv, NEW t \in Tabs, NEW page, NEW shown, Redrawn(t, page, shown),
           DOMAIN shown = PageShows(page),
           \A d \in Calls : call'[d].tab # None =>
               /\ call'[d].tab = call[d].tab /\ call'[d].column = call[d].column
               /\ call[d].tab = t => page = view[t].page
    PROVE  PagesShaped'
<1>1. \A u \in Tabs : DOMAIN view'[u].shown = PageShows(view'[u].page)
  BY DEF OwnerInv, PagesShaped, Redrawn
<1>2. ASSUME NEW d \in Calls, call'[d].tab # None
      PROVE  call'[d].column \in PageShows(view'[call'[d].tab].page)
  BY <1>2, CallFields DEF OwnerInv, PagesShaped, Redrawn
<1> QED
  BY <1>1, <1>2 DEF PagesShaped

\* A page shows its own columns, and sends about no others.
LEMMA PagesStayShaped ==
    ASSUME OwnerInv, OwnerMoves, OwnerMoves
    PROVE  PagesShaped'
<1>1. ASSUME NEW t \in Tabs, Owner!OpenSettings(t) PROVE PagesShaped'
  <2> DEFINE shown == [column \in {"words", "listed"} |-> agent[column]]
  <2>1. call' = call /\ view[t].page = "closed"
    BY <1>1 DEF Owner!OpenSettings
  <2>2. Redrawn(t, "settings", shown) /\ DOMAIN shown = PageShows("settings")
    BY <1>1, OpenSettingsShows DEF OwnerInv, PageShows
  <2>3. \A d \in Calls : call[d].tab # None => call[d].tab # t
    BY <2>1 DEF OwnerInv, PagesShaped, PageShows
  <2> HIDE DEF shown
  <2> QED
    BY <2>1, <2>2, <2>3, DrawnShape
<1>2. ASSUME NEW t \in Tabs, Owner!OpenRoster(t) PROVE PagesShaped'
  <2> DEFINE shown == [column \in {"avatar"} |-> Owner!Resolve(agent["avatar"])]
  <2>1. call' = call /\ view[t].page = "closed"
    BY <1>2 DEF Owner!OpenRoster
  <2>2. Redrawn(t, "roster", shown) /\ DOMAIN shown = PageShows("roster")
    BY <1>2, OpenRosterShows DEF OwnerInv, PageShows
  <2>3. \A d \in Calls : call[d].tab # None => call[d].tab # t
    BY <2>1 DEF OwnerInv, PagesShaped, PageShows
  <2> HIDE DEF shown
  <2> QED
    BY <2>1, <2>2, <2>3, DrawnShape
<1>3. ASSUME NEW t \in Tabs, Owner!Leave(t) PROVE PagesShaped'
  <2> DEFINE shown == [column \in {} |-> None]
  <2>1. Redrawn(t, "closed", shown) /\ DOMAIN shown = PageShows("closed")
    BY <1>3, LeaveShows DEF OwnerInv, PageShows
  <2>2. \A d \in Calls : call'[d].tab # None => call'[d] = call[d] /\ call[d].tab # t
    BY <1>3, LeavePuts DEF OwnerInv
  <2> HIDE DEF shown
  <2> QED
    BY <2>1, <2>2, DrawnShape
<1>4. ASSUME NEW t \in Tabs, Owner!Reconsider(t) PROVE PagesShaped'
  <2>1. call' = call
    BY <1>4 DEF Owner!Reconsider
  <2>2. SamePages
    BY <1>4, EditsShowNothing DEF OwnerInv
  <2> QED
    BY <2>1, <2>2, CallFields DEF OwnerInv, PagesShaped, SamePages
<1>5. ASSUME NEW t \in Tabs, NEW words \in Words, Owner!Type(t,
   words) PROVE PagesShaped'
  <2>1. call' = call
    BY <1>5 DEF Owner!Type
  <2>2. SamePages
    BY <1>5, EditsShowNothing DEF OwnerInv
  <2> QED
    BY <2>1, <2>2, CallFields DEF OwnerInv, PagesShaped, SamePages
<1>6. ASSUME NEW t \in Tabs, NEW face \in Faces, Owner!Choose(t,
   face) PROVE PagesShaped'
  <2>1. call' = call
    BY <1>6 DEF Owner!Choose
  <2>2. SamePages
    BY <1>6, EditsShowNothing DEF OwnerInv
  <2> QED
    BY <2>1, <2>2, CallFields DEF OwnerInv, PagesShaped, SamePages
<1>7. ASSUME NEW c \in Calls, NEW t \in Tabs, Owner!SubmitWords(c, t) PROVE PagesShaped'
  <2>1. SamePages
    BY <1>7, SamePagesUnmoved DEF OwnerInv, Owner!SubmitWords
  <2>2. PICK column \in PageShows(view[t].page), value \in Things :
            CallPut(c, t, column, value, "sent")
    BY <1>7, PagesSend DEF OwnerInv
  <2> QED
    BY <2>1, <2>2, ShapeIsKept
<1>8. ASSUME NEW c \in Calls, NEW t \in Tabs, Owner!PressListing(c,
   t) PROVE PagesShaped'
  <2>1. SamePages
    BY <1>8, SamePagesUnmoved DEF OwnerInv, Owner!PressListing
  <2>2. PICK column \in PageShows(view[t].page), value \in Things :
            CallPut(c, t, column, value, "sent")
    BY <1>8, PagesSend DEF OwnerInv
  <2> QED
    BY <2>1, <2>2, ShapeIsKept
<1>9. ASSUME NEW c \in Calls, NEW t \in Tabs, NEW button \in Buttons,
   NEW value \in Things, Owner!PressAvatar(c, t, button, value) PROVE PagesShaped'
  <2>1. SamePages
    BY <1>9, EditsShowNothing DEF OwnerInv
  <2>2. PICK column \in PageShows(view[t].page), sentValue \in Things :
            CallPut(c, t, column, sentValue, "sent")
    BY <1>9, PagesSend DEF OwnerInv
  <2> QED
    BY <2>1, <2>2, ShapeIsKept
<1>10. ASSUME NEW c \in Calls, NEW column \in Owner!Columns, NEW value \in Things,
   Owner!OwnerCalls(c, column, value) PROVE PagesShaped'
  <2>1. SamePages
    BY <1>10, SamePagesUnmoved DEF OwnerInv, Owner!OwnerCalls
  <2>2. CallPut(c, None, column, value, "sent")
    BY <1>10, SendPuts DEF OwnerInv, Owner!OwnerCalls
  <2> QED
    BY <2>1, <2>2, ShapeIsKept
<1>11. ASSUME NEW c \in Calls, Owner!LetIn(c) PROVE PagesShaped'
  <2>1. SamePages
    BY <1>11, SamePagesUnmoved DEF OwnerInv, Owner!LetIn
  <2>2. CallPut(c, call[c].tab, call[c].column, call[c].value, "let in")
    BY <1>11, StepPuts DEF OwnerInv, Owner!LetIn
  <2>3. call[c].tab \in Tabs \cup {None}
    BY CallFields DEF OwnerInv
  <2> QED
    BY <2>1, <2>2, <2>3, ShapeIsKept DEF OwnerInv, PagesShaped
<1>12. ASSUME NEW c \in Calls, Owner!Refuse(c) PROVE PagesShaped'
  <2>1. SamePages
    BY <1>12, SamePagesUnmoved DEF OwnerInv, Owner!Refuse
  <2>2. \/ CallPut(c, None, "words", None, "idle")
        \/ CallPut(c, call[c].tab, call[c].column, call[c].value, "refused")
    BY <1>12, StepPuts, OverPuts DEF OwnerInv, Owner!Refuse
  <2>3. call[c].tab \in Tabs \cup {None}
    BY CallFields DEF OwnerInv
  <2> QED
    BY <2>1, <2>2, <2>3, ShapeIsKept DEF OwnerInv, PagesShaped
<1>13. ASSUME NEW c \in Calls, Owner!WriteColumn(c) PROVE PagesShaped'
  <2>1. SamePages
    BY <1>13, SamePagesUnmoved DEF OwnerInv, Owner!WriteColumn
  <2>2. \/ CallPut(c, None, "words", None, "idle")
        \/ CallPut(c, call[c].tab, call[c].column, call[c].value, "written")
    BY <1>13, WriteMoves DEF OwnerInv
  <2>3. call[c].tab \in Tabs \cup {None}
    BY CallFields DEF OwnerInv
  <2> QED
    BY <2>1, <2>2, <2>3, ShapeIsKept DEF OwnerInv, PagesShaped
<1>14. ASSUME NEW c \in Calls, Owner!ReRead(c) PROVE PagesShaped'
  <2>1. SamePages
    BY <1>14, SamePagesUnmoved DEF OwnerInv, Owner!ReRead
  <2>2. \/ CallPut(c, None, "words", None, "idle")
        \/ CallPut(c, call[c].tab, call[c].column, agent[call[c].column], "answered")
    <3>1. CASE call[c].tab = None
      BY <1>14, <3>1, OverPuts DEF OwnerInv, Owner!ReRead
    <3>2. CASE call[c].tab # None
      BY <1>14, <3>2, ReReadPuts DEF OwnerInv
    <3> QED
      BY <3>1, <3>2
  <2>3. call[c].tab \in Tabs \cup {None}
    BY CallFields DEF OwnerInv
  <2> QED
    BY <2>1, <2>2, <2>3, ShapeIsKept DEF OwnerInv, PagesShaped
<1>15. ASSUME NEW c \in Calls, Owner!ReReadFails(c) PROVE PagesShaped'
  <2>1. SamePages
    BY <1>15, SamePagesUnmoved DEF OwnerInv, Owner!ReReadFails
  <2>2. \/ CallPut(c, None, "words", None, "idle")
        \/ CallPut(c, call[c].tab, call[c].column, call[c].value, "refused")
    BY <1>15, StepPuts, OverPuts DEF OwnerInv, Owner!ReReadFails
  <2>3. call[c].tab \in Tabs \cup {None}
    BY CallFields DEF OwnerInv
  <2> QED
    BY <2>1, <2>2, <2>3, ShapeIsKept DEF OwnerInv, PagesShaped
<1>16. ASSUME NEW c \in Calls, Owner!Answer(c) PROVE PagesShaped'
  <2>1. CallPut(c, None, "words", None, "idle")
    BY <1>16, OverPuts DEF OwnerInv, Owner!Answer
  <2>2. CASE call[c].tab = None
    BY <1>16, <2>1, <2>2, SamePagesUnmoved, ShapeIsKept DEF OwnerInv, Owner!Answer
  <2>3. CASE call[c].tab # None
    <3> DEFINE t == call[c].tab
               shown == [view[t].shown EXCEPT ![call[c].column] =
                             Owner!Reads(call[c].column, call[c].value)]
    <3>1. Redrawn(t, view[t].page, shown) /\ t \in Tabs
      BY <1>16, <2>3, AnswerShows, CallFields DEF OwnerInv
    <3>2. DOMAIN shown = PageShows(view[t].page)
      BY <3>1 DEF OwnerInv, PagesShaped
    <3>3. \A d \in Calls : call'[d].tab # None => call'[d] = call[d]
      BY <2>1 DEF CallPut
    <3> HIDE DEF t, shown
    <3> QED
      BY <3>1, <3>2, <3>3, DrawnShape
  <2> QED
    BY <2>2, <2>3
<1>17. ASSUME NEW c \in Calls, Owner!Refusal(c) PROVE PagesShaped'
  <2>1. SamePages /\ CallPut(c, None, "words", None, "idle")
    BY <1>17, UndoneShowsNothing, OverPuts DEF OwnerInv, Owner!Refusal
  <2> QED
    BY <2>1, ShapeIsKept
<1>18. ASSUME NEW c \in Calls, Owner!Lost(c) PROVE PagesShaped'
  <2>1. SamePages
    BY <1>18, UndoneShowsNothing DEF OwnerInv
  <2>2. \/ CallPut(c, None, "words", None, "idle")
        \/ CallPut(c, None, call[c].column, call[c].value, call[c].step)
    BY <1>18, LostPuts DEF OwnerInv
  <2> QED
    BY <2>1, <2>2, ShapeIsKept
<1>19. ASSUME NEW a \in Askers, NEW what \in Owner!Errands, Owner!Ask(a,
   what) PROVE PagesShaped'
  <2>1. call' = call /\ view' = view
    BY <1>19 DEF Owner!Ask
  <2> QED
    BY <2>1 DEF OwnerInv, PagesShaped
<1>20. ASSUME NEW a \in Askers, Passes(a) PROVE PagesShaped'
  <2>1. call' = call /\ view' = view
    BY <1>20 DEF Passes
  <2> QED
    BY <2>1 DEF OwnerInv, PagesShaped
<1>21. ASSUME NEW a \in Askers, Owner!CarryOut(a) PROVE PagesShaped'
  <2>1. call' = call /\ view' = view
    BY <1>21 DEF Owner!CarryOut
  <2> QED
    BY <2>1 DEF OwnerInv, PagesShaped
<1> QED
  BY <1>1, <1>2, <1>3, <1>4, <1>5, <1>6, <1>7, <1>8, <1>9, <1>10, <1>11, <1>12, <1>13,
     <1>14, <1>15, <1>16, <1>17, <1>18, <1>19, <1>20, <1>21 DEF OwnerMoves

\* A tab of which nothing was moved is in step if it was.
LEMMA Undisturbed ==
    ASSUME NEW t \in Tabs, NEW column, InStep(t, column),
       agent'[column] = agent[column],
           view'[t].shown[column] = view[t].shown[column],
           \A d \in Calls : call[d].tab = t \/ call'[d].tab = t => call'[d] = call[d]
    PROVE  InStep(t, column)'
<1>1. \A d \in Calls : Late(d, t, column)' =>
          Late(d, t, column) /\ call'[d].step = call[d].step /\ call'[d].value = call[d].value
  BY DEF Late
<1>2. \A d \in Calls : Late(d, t, column) => Late(d, t, column)'
  BY DEF Late
<1>3. Owner!Reads(column, agent'[column]) = Owner!Reads(column, agent[column])
  OBVIOUS
<1> QED
  BY <1>1, <1>2, <1>3 DEF InStep, Owner!Reads, Owner!Resolve

\* The same when one request moved that is late neither before nor after.
LEMMA CallIsNotLate ==
    ASSUME OwnerInv, SamePages, agent' = agent, behind \subseteq behind',
           NEW c \in Calls, \A d \in Calls \ {c} : call'[d] = call[d],
           call'[c].tab = None \/ call'[c].step \notin {"written", "answered"},
           \/ call[c].tab = None \/ call[c].step \notin {"written", "answered"}
           \/ <<call[c].tab, call[c].column>> \in behind'
    PROVE  TabsInStep'
<1>1. SUFFICES ASSUME NEW u \in Tabs, NEW seenColumn \in Owner!Columns,
                      seenColumn \in PageShows(view'[u].page), <<u, seenColumn>> \notin behind'
               PROVE  InStep(u, seenColumn)'
  BY DEF TabsInStep
<1>2. InStep(u, seenColumn) /\ view'[u].shown = view[u].shown
  BY <1>1 DEF OwnerInv, TabsInStep, SamePages
<1>3. ~Late(c, u, seenColumn) /\ ~Late(c, u, seenColumn)'
  BY <1>1, OwnerAssumption DEF Late
<1>4. \A d \in Calls : Late(d, u, seenColumn)' =>
          Late(d, u, seenColumn) /\ call'[d].step = call[d].step /\ call'[d].value = call[d].value
  BY <1>3 DEF Late
<1>5. \A d \in Calls : Late(d, u, seenColumn) => Late(d, u, seenColumn)'
  BY <1>3 DEF Late
<1> QED
  BY <1>2, <1>4, <1>5 DEF InStep, Owner!Reads, Owner!Resolve

\* The same when no request moved and one tab was drawn, or none.
LEMMA PagesOnly ==
    ASSUME OwnerInv, SamePages, agent' = agent, behind' = behind, call' = call
    PROVE  TabsInStep'
<1>1. SUFFICES ASSUME NEW t \in Tabs, NEW column \in Owner!Columns,
                      column \in PageShows(view'[t].page), <<t, column>> \notin behind'
               PROVE  InStep(t, column)'
  BY DEF TabsInStep
<1>2. InStep(t, column) /\ view'[t].shown = view[t].shown
  BY <1>1 DEF OwnerInv, TabsInStep, SamePages
<1> QED
  BY <1>2, Undisturbed

\* A tab that has just been opened shows the row, and has sent nothing.
LEMMA OpenedInStep ==
    ASSUME OwnerInv, NEW t \in Tabs, NEW page, NEW shown, Redrawn(t, page, shown),
           view[t].page = "closed", agent' = agent, behind' = behind, call' = call,
           \A column \in PageShows(page) : shown[column] = Owner!Reads(column, agent[column])
    PROVE  TabsInStep'
<1>1. SUFFICES ASSUME NEW u \in Tabs, NEW column \in Owner!Columns,
                      column \in PageShows(view'[u].page), <<u, column>> \notin behind'
               PROVE  InStep(u, column)'
  BY DEF TabsInStep
<1>2. CASE u = t
  <2>1. \A d \in Calls : ~Late(d, t, column)'
    BY OwnerAssumption DEF OwnerInv, PagesShaped, PageShows, Late
  <2>2. view'[t].shown[column] = Owner!Reads(column, agent'[column])
    BY <1>1, <1>2 DEF Redrawn
  <2> QED
    BY <1>2, <2>1, <2>2 DEF InStep, Owner!Reads, Owner!Resolve
<1>3. CASE u # t
  <2>1. view'[u] = view[u]
    BY <1>3 DEF Redrawn
  <2>2. InStep(u, column)
    BY <1>1, <2>1 DEF OwnerInv, TabsInStep
  <2> QED
    BY <2>1, <2>2, Undisturbed
<1> QED
  BY <1>2, <1>3

\* The tabs after one column of the row was written.
LEMMA WrittenInStep ==
    ASSUME OwnerInv, NEW c \in Calls, Owner!WriteColumn(c)
    PROVE  TabsInStep'
<1> DEFINE w == call[c].column
<1>0. view' = view /\ behind' = (behind \ {<<call[c].tab, w>>}) \cup (Owner!NotTold(c) \X {w})
      /\ call[c].step = "let in" /\ w \in Owner!Columns
  BY CallFields DEF OwnerInv, Owner!WriteColumn
<1>1. SUFFICES ASSUME NEW t \in Tabs, NEW column \in Owner!Columns,
                      column \in PageShows(view'[t].page), <<t, column>> \notin behind'
               PROVE  InStep(t, column)'
  BY DEF TabsInStep
<1>2. /\ \A d \in Calls \ {c} : call'[d] = call[d]
      /\ call[c].tab = None => call'[c].tab = None
      /\ call[c].tab # None => /\ call'[c].tab = call[c].tab /\ call'[c].column = w
                               /\ call'[c].step = "written"
      /\ agent'[w] = call[c].value /\ \A other \in Owner!Columns \ {w} : agent'[other] = agent[other]
  BY WriteMoves DEF OwnerInv, CallPut
<1>3. CASE column # w
  <2>1. <<t, column>> \notin behind
    BY <1>0, <1>1, <1>3
  <2>2. InStep(t, column) /\ agent'[column] = agent[column]
    BY <1>0, <1>1, <1>2, <1>3, <2>1 DEF OwnerInv, TabsInStep
  <2>3. ~Late(c, t, column) /\ ~Late(c, t, column)'
    BY <1>0, <1>2, <1>3, OwnerAssumption DEF Late
  <2>4. \A d \in Calls : Late(d, t, column)' =>
            Late(d, t, column) /\ call'[d].step = call[d].step /\ call'[d].value = call[d].value
    BY <1>2, <2>3 DEF Late
  <2>5. \A d \in Calls : Late(d, t, column) => Late(d, t, column)'
    BY <1>2, <2>3 DEF Late
  <2> QED
    BY <1>0, <2>2, <2>4, <2>5 DEF InStep, Owner!Reads, Owner!Resolve
<1>4. CASE column = w
  <2>1. t \notin Owner!NotTold(c)
    BY <1>0, <1>1, <1>4
  <2>2. Owner!Shows(t, w)
    BY <1>0, <1>1, <1>4 DEF Owner!Shows, OwnerInv, PagesShaped
  <2>3. t = call[c].tab /\ \A d \in Calls \ {c} : ~(call[d].tab = t /\ call[d].column = w)
    BY <2>1, <2>2 DEF Owner!NotTold
  <2>4. \A d \in Calls \ {c} : ~Late(d, t, column)'
    BY <1>2, <1>4, <2>3 DEF Late
  <2>5. Late(c, t, column)' /\ call'[c].step = "written"
    BY <1>2, <1>4, <2>3, OwnerAssumption DEF Late
  <2> QED
    BY <2>4, <2>5 DEF InStep
<1> QED
  BY <1>3, <1>4

\* The tabs after the row was read again for an answer.
LEMMA ReReadInStep ==
    ASSUME OwnerInv, NEW c \in Calls, Owner!ReRead(c)
    PROVE  TabsInStep'
<1>0. SamePages /\ agent' = agent /\ behind' = behind /\ call[c].step = "written"
  BY SamePagesUnmoved DEF OwnerInv, Owner!ReRead
<1>1. CASE call[c].tab = None
  BY <1>0, <1>1, OverPuts, CallIsNotLate DEF OwnerInv, Owner!ReRead, CallPut
<1>2. CASE call[c].tab # None
  <2>1. CallPut(c, call[c].tab, call[c].column, agent[call[c].column], "answered")
    BY <1>2, ReReadPuts DEF OwnerInv
  <2>2. SUFFICES ASSUME NEW t \in Tabs, NEW column \in Owner!Columns,
                        column \in PageShows(view'[t].page), <<t, column>> \notin behind'
                 PROVE  InStep(t, column)'
    BY DEF TabsInStep
  <2>3. InStep(t, column) /\ view'[t].shown = view[t].shown
    BY <1>0, <2>2 DEF OwnerInv, TabsInStep, SamePages
  <2>4. \A d \in Calls : Late(d, t, column)' <=> Late(d, t, column)
    BY <1>0, <2>1 DEF Late, CallPut
  <2>5. \A d \in Calls : Late(d, t, column)' /\ call'[d].step = "answered" =>
            call'[d].value = agent[column]
    BY <1>0, <2>1, <2>3, <2>4 DEF Late, CallPut, InStep
  <2> QED
    BY <1>0, <2>3, <2>4, <2>5 DEF InStep, Owner!Reads, Owner!Resolve
<1> QED
  BY <1>1, <1>2

\* The tabs after one was given its answer.
LEMMA AnsweredInStep ==
    ASSUME OwnerInv, NEW c \in Calls, Owner!Answer(c)
    PROVE  TabsInStep'
<1>0. agent' = agent /\ behind' = behind /\ call[c].step = "answered"
      /\ CallPut(c, None, "words", None, "idle")
  BY OverPuts DEF OwnerInv, Owner!Answer
<1>1. CASE call[c].tab = None
  <2>1. SamePages
    BY <1>1, SamePagesUnmoved DEF OwnerInv, Owner!Answer
  <2> QED
    BY <1>0, <1>1, <2>1, CallIsNotLate DEF CallPut
<1>2. CASE call[c].tab # None
  <2> DEFINE u == call[c].tab
             w == call[c].column
             shown == [view[u].shown EXCEPT ![w] = Owner!Reads(w, call[c].value)]
  <2>1. Redrawn(u, view[u].page, shown) /\ u \in Tabs /\ w \in DOMAIN view[u].shown
    BY <1>2, AnswerShows, CallFields DEF OwnerInv, PagesShaped
  <2>2. SUFFICES ASSUME NEW t \in Tabs, NEW column \in Owner!Columns,
                        column \in PageShows(view'[t].page), <<t, column>> \notin behind'
                 PROVE  InStep(t, column)'
    BY DEF TabsInStep
  <2>3. InStep(t, column)
    BY <1>0, <2>1, <2>2 DEF OwnerInv, TabsInStep, Redrawn
  <2>4. \A d \in Calls \ {c} : call'[d] = call[d]
    BY <1>0 DEF CallPut
  <2>5. ~Late(c, t, column)'
    BY <1>0, OwnerAssumption DEF Late, CallPut
  <2>6. CASE t = u /\ column = w
    <3>1. Late(c, t, column)
      BY <1>0, <2>6 DEF Late
    <3>2. \A d \in Calls : ~Late(d, t, column)'
      BY <2>3, <2>4, <2>5, <3>1 DEF InStep, Late
    <3>3. call[c].value = agent[column]
      BY <1>0, <2>3, <3>1 DEF InStep
    <3>4. shown[w] = Owner!Reads(w, call[c].value)
      BY <2>1
    <3>5. view'[t].shown[column] = Owner!Reads(column, agent[column])
      BY <2>1, <2>6, <3>3, <3>4 DEF Redrawn
    <3> QED
      BY <1>0, <3>2, <3>5 DEF InStep, Owner!Reads, Owner!Resolve
  <2>7. CASE ~(t = u /\ column = w)
    <3>1. ~Late(c, t, column)
      BY <2>7 DEF Late
    <3>2. view'[t].shown[column] = view[t].shown[column]
      <4>1. CASE t = u
        <5>1. column \in DOMAIN view[u].shown
          BY <2>1, <2>2, <4>1 DEF OwnerInv, PagesShaped, Redrawn
        <5> QED
          BY <2>1, <2>7, <4>1, <5>1 DEF Redrawn
      <4>2. CASE t # u
        BY <2>1, <4>2 DEF Redrawn
      <4> QED
        BY <4>1, <4>2
    <3>3. \A d \in Calls : Late(d, t, column)' <=> Late(d, t, column)
      BY <2>4, <2>5, <3>1 DEF Late
    <3>4. \A d \in Calls : Late(d, t, column) =>
              call'[d].step = call[d].step /\ call'[d].value = call[d].value
      BY <2>4, <3>1
    <3> QED
      BY <1>0, <2>3, <3>2, <3>3, <3>4 DEF InStep, Owner!Reads, Owner!Resolve
  <2> QED
    BY <2>6, <2>7
<1> QED
  BY <1>1, <1>2

\* A tab that is not left behind shows the row, or will when its answer comes.
LEMMA TabsStayInStep ==
    ASSUME OwnerInv, OwnerMoves, OwnerMoves
    PROVE  TabsInStep'
<1>1. ASSUME NEW t \in Tabs, Owner!OpenSettings(t) PROVE TabsInStep'
  <2> DEFINE shown == [column \in {"words", "listed"} |-> agent[column]]
  <2>1. call' = call /\ agent' = agent /\ behind' = behind /\ view[t].page = "closed"
    BY <1>1 DEF Owner!OpenSettings
  <2>2. Redrawn(t, "settings", shown)
    BY <1>1, OpenSettingsShows DEF OwnerInv
  <2>3. \A column \in PageShows("settings") : shown[column] = Owner!Reads(column, agent[column])
    BY DEF PageShows, Owner!Reads
  <2> HIDE DEF shown
  <2> QED
    BY <2>1, <2>2, <2>3, OpenedInStep
<1>2. ASSUME NEW t \in Tabs, Owner!OpenRoster(t) PROVE TabsInStep'
  <2> DEFINE shown == [column \in {"avatar"} |-> Owner!Resolve(agent["avatar"])]
  <2>1. call' = call /\ agent' = agent /\ behind' = behind /\ view[t].page = "closed"
    BY <1>2 DEF Owner!OpenRoster
  <2>2. Redrawn(t, "roster", shown)
    BY <1>2, OpenRosterShows DEF OwnerInv
  <2>3. \A column \in PageShows("roster") : shown[column] = Owner!Reads(column, agent[column])
    BY DEF PageShows, Owner!Reads
  <2> HIDE DEF shown
  <2> QED
    BY <2>1, <2>2, <2>3, OpenedInStep
<1>3. ASSUME NEW t \in Tabs, Owner!Leave(t) PROVE TabsInStep'
  <2>1. agent' = agent /\ behind' = behind \ ({t} \X Owner!Columns)
    BY <1>3 DEF Owner!Leave
  <2>2. SUFFICES ASSUME NEW u \in Tabs, NEW column \in Owner!Columns,
                        column \in PageShows(view'[u].page), <<u, column>> \notin behind'
                 PROVE  InStep(u, column)'
    BY DEF TabsInStep
  <2>3. u # t /\ view'[u] = view[u]
    BY <1>3, <2>2, LeaveShows DEF OwnerInv, Redrawn, PageShows
  <2>4. InStep(u, column)
    BY <2>1, <2>2, <2>3 DEF OwnerInv, TabsInStep
  <2>5. \A d \in Calls : call[d].tab = u \/ call'[d].tab = u => call'[d] = call[d]
    BY <1>3, <2>3, LeavePuts, OwnerAssumption DEF OwnerInv
  <2> QED
    BY <2>1, <2>3, <2>4, <2>5, Undisturbed
<1>4. ASSUME NEW t \in Tabs, Owner!Reconsider(t) PROVE TabsInStep'
  <2>1. call' = call /\ agent' = agent /\ behind' = behind
    BY <1>4 DEF Owner!Reconsider
  <2>2. SamePages
    BY <1>4, EditsShowNothing DEF OwnerInv
  <2> QED
    BY <2>1, <2>2, PagesOnly
<1>5. ASSUME NEW t \in Tabs, NEW words \in Words, Owner!Type(t, words) PROVE TabsInStep'
  <2>1. call' = call /\ agent' = agent /\ behind' = behind
    BY <1>5 DEF Owner!Type
  <2>2. SamePages
    BY <1>5, EditsShowNothing DEF OwnerInv
  <2> QED
    BY <2>1, <2>2, PagesOnly
<1>6. ASSUME NEW t \in Tabs, NEW face \in Faces, Owner!Choose(t, face) PROVE TabsInStep'
  <2>1. call' = call /\ agent' = agent /\ behind' = behind
    BY <1>6 DEF Owner!Choose
  <2>2. SamePages
    BY <1>6, EditsShowNothing DEF OwnerInv
  <2> QED
    BY <2>1, <2>2, PagesOnly
<1>7. ASSUME NEW c \in Calls, NEW t \in Tabs, Owner!SubmitWords(c, t) PROVE TabsInStep'
  <2>1. SamePages /\ agent' = agent /\ behind' = behind
    BY <1>7, SamePagesUnmoved DEF OwnerInv, Owner!SubmitWords
  <2>2. call[c].step = "idle"
    BY <1>7, PagesSend DEF OwnerInv
  <2>3. PICK column \in PageShows(view[t].page), value \in Things :
            CallPut(c, t, column, value, "sent")
    BY <1>7, PagesSend DEF OwnerInv
  <2> QED
    BY <2>1, <2>2, <2>3, CallIsNotLate DEF CallPut
<1>8. ASSUME NEW c \in Calls, NEW t \in Tabs, Owner!PressListing(c, t) PROVE TabsInStep'
  <2>1. SamePages /\ agent' = agent /\ behind' = behind
    BY <1>8, SamePagesUnmoved DEF OwnerInv, Owner!PressListing
  <2>2. call[c].step = "idle"
    BY <1>8, PagesSend DEF OwnerInv
  <2>3. PICK column \in PageShows(view[t].page), value \in Things :
            CallPut(c, t, column, value, "sent")
    BY <1>8, PagesSend DEF OwnerInv
  <2> QED
    BY <2>1, <2>2, <2>3, CallIsNotLate DEF CallPut
<1>9. ASSUME NEW c \in Calls, NEW t \in Tabs, NEW button \in Buttons,
   NEW value \in Things, Owner!PressAvatar(c, t, button, value) PROVE TabsInStep'
  <2>1. agent' = agent /\ behind' = behind
    BY <1>9 DEF Owner!PressAvatar
  <2>2. SamePages
    BY <1>9, EditsShowNothing DEF OwnerInv
  <2>3. call[c].step = "idle"
    BY <1>9, PagesSend DEF OwnerInv
  <2>4. PICK column \in PageShows(view[t].page), sentValue \in Things :
            CallPut(c, t, column, sentValue, "sent")
    BY <1>9, PagesSend DEF OwnerInv
  <2> QED
    BY <2>1, <2>2, <2>3, <2>4, CallIsNotLate DEF CallPut
<1>10. ASSUME NEW c \in Calls, NEW column \in Owner!Columns, NEW value \in Things,
   Owner!OwnerCalls(c, column, value) PROVE TabsInStep'
  <2>1. SamePages /\ agent' = agent /\ behind' = behind
    BY <1>10, SamePagesUnmoved DEF OwnerInv, Owner!OwnerCalls
  <2>2. CallPut(c, None, column, value, "sent") /\ call[c].step = "idle"
    BY <1>10, SendPuts DEF OwnerInv, Owner!OwnerCalls, Owner!Send
  <2> QED
    BY <2>1, <2>2, CallIsNotLate DEF CallPut
<1>11. ASSUME NEW c \in Calls, Owner!LetIn(c) PROVE TabsInStep'
  <2>1. SamePages /\ agent' = agent /\ behind' = behind /\ call[c].step = "sent"
    BY <1>11, SamePagesUnmoved DEF OwnerInv, Owner!LetIn
  <2>2. CallPut(c, call[c].tab, call[c].column, call[c].value, "let in")
    BY <1>11, StepPuts DEF OwnerInv, Owner!LetIn
  <2> QED
    BY <2>1, <2>2, CallIsNotLate DEF CallPut
<1>12. ASSUME NEW c \in Calls, Owner!Refuse(c) PROVE TabsInStep'
  <2>1. SamePages /\ agent' = agent /\ behind' = behind /\ call[c].step \in {"sent", "let in"}
    BY <1>12, SamePagesUnmoved DEF OwnerInv, Owner!Refuse
  <2>2. \/ CallPut(c, None, "words", None, "idle")
        \/ CallPut(c, call[c].tab, call[c].column, call[c].value, "refused")
    BY <1>12, StepPuts, OverPuts DEF OwnerInv, Owner!Refuse
  <2> QED
    BY <2>1, <2>2, CallIsNotLate DEF CallPut
<1>13. ASSUME NEW c \in Calls, Owner!WriteColumn(c) PROVE TabsInStep'
  BY <1>13, WrittenInStep
<1>14. ASSUME NEW c \in Calls, Owner!ReRead(c) PROVE TabsInStep'
  BY <1>14, ReReadInStep
<1>15. ASSUME NEW c \in Calls, Owner!ReReadFails(c) PROVE TabsInStep'
  <2>1. SamePages /\ agent' = agent /\ behind' = behind \cup {<<call[c].tab, call[c].column>>}
    BY <1>15, SamePagesUnmoved DEF OwnerInv, Owner!ReReadFails
  <2>2. CallPut(c, call[c].tab, call[c].column, call[c].value, "refused")
    BY <1>15, StepPuts DEF OwnerInv, Owner!ReReadFails
  <2> QED
    BY <2>1, <2>2, CallIsNotLate DEF CallPut
<1>16. ASSUME NEW c \in Calls, Owner!Answer(c) PROVE TabsInStep'
  BY <1>16, AnsweredInStep
<1>17. ASSUME NEW c \in Calls, Owner!Refusal(c) PROVE TabsInStep'
  <2>1. SamePages /\ CallPut(c, None, "words", None, "idle")
    BY <1>17, UndoneShowsNothing, OverPuts DEF OwnerInv, Owner!Refusal
  <2>2. agent' = agent /\ behind' = behind /\ call[c].step = "refused"
    BY <1>17 DEF Owner!Refusal
  <2> QED
    BY <2>1, <2>2, CallIsNotLate DEF CallPut
<1>18. ASSUME NEW c \in Calls, Owner!Lost(c) PROVE TabsInStep'
  <2>1. SamePages
    BY <1>18, UndoneShowsNothing DEF OwnerInv
  <2>2. \/ CallPut(c, None, "words", None, "idle")
        \/ CallPut(c, None, call[c].column, call[c].value, call[c].step)
    BY <1>18, LostPuts DEF OwnerInv
  <2>3. agent' = agent /\ behind \subseteq behind'
    BY <1>18 DEF Owner!Lost
  <2>4. call[c].step \in {"written", "answered"} => <<call[c].tab, call[c].column>> \in behind'
    BY <1>18 DEF Owner!Lost
  <2> QED
    BY <2>1, <2>2, <2>3, <2>4, CallIsNotLate DEF CallPut
<1>19. ASSUME NEW a \in Askers, NEW what \in Owner!Errands, Owner!Ask(a,
   what) PROVE TabsInStep'
  <2>1. call' = call /\ view' = view /\ agent' = agent /\ behind' = behind
    BY <1>19 DEF Owner!Ask
  <2> QED
    BY <2>1, PagesOnly, SamePagesUnmoved DEF OwnerInv
<1>20. ASSUME NEW a \in Askers, Passes(a) PROVE TabsInStep'
  <2>1. call' = call /\ view' = view /\ agent' = agent /\ behind' = behind
    BY <1>20 DEF Passes
  <2> QED
    BY <2>1, PagesOnly, SamePagesUnmoved DEF OwnerInv
<1>21. ASSUME NEW a \in Askers, Owner!CarryOut(a) PROVE TabsInStep'
  <2>1. call' = call /\ view' = view /\ agent' = agent /\ behind' = behind
    BY <1>21 DEF Owner!CarryOut
  <2> QED
    BY <2>1, PagesOnly, SamePagesUnmoved DEF OwnerInv
<1> QED
  BY <1>1, <1>2, <1>3, <1>4, <1>5, <1>6, <1>7, <1>8, <1>9, <1>10, <1>11, <1>12, <1>13,
     <1>14, <1>15, <1>16, <1>17, <1>18, <1>19, <1>20, <1>21 DEF OwnerMoves

\* One of the others moved, and what it may do is in order.
LEMMA OthersKeptLeave ==
    ASSUME OwnerInv, agent' = agent, NEW a \in Askers,
           \A b \in Askers \ {a} : asker'[b] = asker[b],
           asker'[a].step = "asked" /\ agent[Owner!Gated(asker'[a].what)] = TRUE =>
               asker'[a].leave = TRUE,
           asker'[a].step = "let in" /\ asker'[a].what # "operator" => asker'[a].leave = TRUE,
           landed'.what # "operator" => landed'.leave = TRUE
    PROVE  LeaveKept'
<1>1. ASSUME NEW b \in Askers, asker'[b].step = "asked", Gate(b)'
      PROVE  asker'[b].leave = TRUE
  <2>1. agent[Owner!Gated(asker'[b].what)] = TRUE
    BY <1>1 DEF Gate
  <2> QED
    BY <1>1, <2>1 DEF OwnerInv, LeaveKept, Gate
<1>2. ASSUME NEW b \in Askers, asker'[b].step = "let in", asker'[b].what # "operator"
      PROVE  asker'[b].leave = TRUE
  BY <1>2 DEF OwnerInv, LeaveKept
<1> QED
  BY <1>1, <1>2 DEF LeaveKept

\* Nobody is let in, or carries anything out, without the owner's leave.
LEMMA LeaveStaysKept ==
    ASSUME OwnerInv, OwnerMoves, OwnerMoves
    PROVE  LeaveKept'
<1>1. ASSUME NEW t \in Tabs, Owner!OpenSettings(t) PROVE LeaveKept'
  <2>1. agent' = agent /\ asker' = asker /\ landed' = landed
    BY <1>1 DEF Owner!OpenSettings, Owner!Send
  <2> QED
    BY <2>1 DEF OwnerInv, LeaveKept, Gate
<1>2. ASSUME NEW t \in Tabs, Owner!OpenRoster(t) PROVE LeaveKept'
  <2>1. agent' = agent /\ asker' = asker /\ landed' = landed
    BY <1>2 DEF Owner!OpenRoster, Owner!Send
  <2> QED
    BY <2>1 DEF OwnerInv, LeaveKept, Gate
<1>3. ASSUME NEW t \in Tabs, Owner!Leave(t) PROVE LeaveKept'
  <2>1. agent' = agent /\ asker' = asker /\ landed' = landed
    BY <1>3 DEF Owner!Leave, Owner!Send
  <2> QED
    BY <2>1 DEF OwnerInv, LeaveKept, Gate
<1>4. ASSUME NEW t \in Tabs, Owner!Reconsider(t) PROVE LeaveKept'
  <2>1. agent' = agent /\ asker' = asker /\ landed' = landed
    BY <1>4 DEF Owner!Reconsider, Owner!Send
  <2> QED
    BY <2>1 DEF OwnerInv, LeaveKept, Gate
<1>5. ASSUME NEW t \in Tabs, NEW words \in Words, Owner!Type(t, words) PROVE LeaveKept'
  <2>1. agent' = agent /\ asker' = asker /\ landed' = landed
    BY <1>5 DEF Owner!Type, Owner!Send
  <2> QED
    BY <2>1 DEF OwnerInv, LeaveKept, Gate
<1>6. ASSUME NEW t \in Tabs, NEW face \in Faces, Owner!Choose(t, face) PROVE LeaveKept'
  <2>1. agent' = agent /\ asker' = asker /\ landed' = landed
    BY <1>6 DEF Owner!Choose, Owner!Send
  <2> QED
    BY <2>1 DEF OwnerInv, LeaveKept, Gate
<1>7. ASSUME NEW c \in Calls, NEW t \in Tabs, Owner!SubmitWords(c, t) PROVE LeaveKept'
  <2>1. agent' = agent /\ asker' = asker /\ landed' = landed
    BY <1>7 DEF Owner!SubmitWords, Owner!Send
  <2> QED
    BY <2>1 DEF OwnerInv, LeaveKept, Gate
<1>8. ASSUME NEW c \in Calls, NEW t \in Tabs, Owner!PressListing(c, t) PROVE LeaveKept'
  <2>1. agent' = agent /\ asker' = asker /\ landed' = landed
    BY <1>8 DEF Owner!PressListing, Owner!Send
  <2> QED
    BY <2>1 DEF OwnerInv, LeaveKept, Gate
<1>9. ASSUME NEW c \in Calls, NEW t \in Tabs, NEW button \in Buttons,
   NEW value \in Things, Owner!PressAvatar(c, t, button, value) PROVE LeaveKept'
  <2>1. agent' = agent /\ asker' = asker /\ landed' = landed
    BY <1>9 DEF Owner!PressAvatar, Owner!Send
  <2> QED
    BY <2>1 DEF OwnerInv, LeaveKept, Gate
<1>10. ASSUME NEW c \in Calls, NEW column \in Owner!Columns, NEW value \in Things,
   Owner!OwnerCalls(c, column, value) PROVE LeaveKept'
  <2>1. agent' = agent /\ asker' = asker /\ landed' = landed
    BY <1>10 DEF Owner!OwnerCalls, Owner!Send
  <2> QED
    BY <2>1 DEF OwnerInv, LeaveKept, Gate
<1>11. ASSUME NEW c \in Calls, Owner!LetIn(c) PROVE LeaveKept'
  <2>1. agent' = agent /\ asker' = asker /\ landed' = landed
    BY <1>11 DEF Owner!LetIn, Owner!Send
  <2> QED
    BY <2>1 DEF OwnerInv, LeaveKept, Gate
<1>12. ASSUME NEW c \in Calls, Owner!Refuse(c) PROVE LeaveKept'
  <2>1. agent' = agent /\ asker' = asker /\ landed' = landed
    BY <1>12 DEF Owner!Refuse, Owner!Send
  <2> QED
    BY <2>1 DEF OwnerInv, LeaveKept, Gate
<1>13. ASSUME NEW c \in Calls, Owner!WriteColumn(c) PROVE LeaveKept'
  <2>1. landed' = landed
    BY <1>13 DEF Owner!WriteColumn
  <2>2. ASSUME NEW a \in Askers
        PROVE  /\ asker'[a].what = asker[a].what /\ asker'[a].step = asker[a].step
               /\ asker[a].leave = TRUE => asker'[a].leave = TRUE
               /\ Gate(a)' /\ asker[a].step = "asked" => asker'[a].leave = TRUE
    <3>1. /\ asker'[a].what = asker[a].what /\ asker'[a].step = asker[a].step
          /\ asker[a].leave = TRUE => asker'[a].leave = TRUE
          /\ Owner!Gated(asker[a].what) = call[c].column /\ call[c].value = TRUE =>
                 asker'[a].leave = TRUE
      BY <1>13, WriteGivesLeave DEF OwnerInv
    <3>2. Owner!Gated(asker'[a].what) = Owner!Gated(asker[a].what) /\ Owner!Gated(asker[a].what) \in Owner!Columns
      BY <3>1 DEF Owner!Gated, Owner!Columns
    <3>3. CASE Owner!Gated(asker[a].what) = call[c].column
      <4>1. agent'[Owner!Gated(asker[a].what)] = call[c].value
        BY <1>13, <3>3, WriteMoves DEF OwnerInv
      <4> QED
        BY <3>1, <3>2, <3>3, <4>1 DEF Gate
    <3>4. CASE Owner!Gated(asker[a].what) # call[c].column
      <4>1. agent'[Owner!Gated(asker[a].what)] = agent[Owner!Gated(asker[a].what)]
        BY <1>13, <3>2, <3>4, WriteMoves DEF OwnerInv
      <4> QED
        BY <3>1, <3>2, <4>1 DEF OwnerInv, LeaveKept, Gate
    <3> QED
      BY <3>3, <3>4
  <2> QED
    BY <2>1, <2>2 DEF OwnerInv, LeaveKept
<1>14. ASSUME NEW c \in Calls, Owner!ReRead(c) PROVE LeaveKept'
  <2>1. agent' = agent /\ asker' = asker /\ landed' = landed
    BY <1>14 DEF Owner!ReRead, Owner!Send
  <2> QED
    BY <2>1 DEF OwnerInv, LeaveKept, Gate
<1>15. ASSUME NEW c \in Calls, Owner!ReReadFails(c) PROVE LeaveKept'
  <2>1. agent' = agent /\ asker' = asker /\ landed' = landed
    BY <1>15 DEF Owner!ReReadFails, Owner!Send
  <2> QED
    BY <2>1 DEF OwnerInv, LeaveKept, Gate
<1>16. ASSUME NEW c \in Calls, Owner!Answer(c) PROVE LeaveKept'
  <2>1. agent' = agent /\ asker' = asker /\ landed' = landed
    BY <1>16 DEF Owner!Answer, Owner!Send
  <2> QED
    BY <2>1 DEF OwnerInv, LeaveKept, Gate
<1>17. ASSUME NEW c \in Calls, Owner!Refusal(c) PROVE LeaveKept'
  <2>1. agent' = agent /\ asker' = asker /\ landed' = landed
    BY <1>17 DEF Owner!Refusal, Owner!Send
  <2> QED
    BY <2>1 DEF OwnerInv, LeaveKept, Gate
<1>18. ASSUME NEW c \in Calls, Owner!Lost(c) PROVE LeaveKept'
  <2>1. agent' = agent /\ asker' = asker /\ landed' = landed
    BY <1>18 DEF Owner!Lost, Owner!Send
  <2> QED
    BY <2>1 DEF OwnerInv, LeaveKept, Gate
<1>19. ASSUME NEW a \in Askers, NEW what \in Owner!Errands, Owner!Ask(a,
   what) PROVE LeaveKept'
  <2>1. agent' = agent /\ landed' = landed
    BY <1>19 DEF Owner!Ask
  <2>2. \A b \in Askers \ {a} : asker'[b] = asker[b]
    BY <1>19 DEF OwnerInv, OwnerTyped, Owner!Ask
  <2>3. asker'[a] = [what |-> what, step |-> "asked", leave |-> agent[Owner!Gated(what)]]
    BY <1>19 DEF OwnerInv, OwnerTyped, Owner!Ask
  <2>4. asker'[a].step = "asked" /\ asker'[a].what = what
        /\ asker'[a].leave = agent[Owner!Gated(what)]
    BY <2>3
  <2> QED
    BY <2>1, <2>2, <2>4, OthersKeptLeave DEF OwnerInv, LeaveKept, Gate
<1>20. ASSUME NEW a \in Askers, Passes(a) PROVE LeaveKept'
  <2>1. agent' = agent /\ landed' = landed /\ asker[a].step = "asked"
    BY <1>20 DEF Passes
  <2>2. \A b \in Askers \ {a} : asker'[b] = asker[b]
    BY <1>20 DEF OwnerInv, OwnerTyped, Passes
  <2>3. \/ /\ asker[a].what = "operator" \/ Gate(a)
           /\ asker'[a].what = asker[a].what /\ asker'[a].step = "let in"
           /\ asker'[a].leave = asker[a].leave
        \/ asker'[a] = Owner!NoAsker
    BY <1>20 DEF OwnerInv, OwnerTyped, AskRecords, Passes
  <2>4. asker'[a].step # "asked"
        /\ (asker'[a].step = "let in" /\ asker'[a].what # "operator" => asker'[a].leave = TRUE)
    <3>1. CASE asker'[a] = Owner!NoAsker
      BY <3>1 DEF Owner!NoAsker
    <3>2. CASE asker'[a] # Owner!NoAsker
      BY <2>1, <2>3, <3>2 DEF OwnerInv, LeaveKept
    <3> QED
      BY <3>1, <3>2
  <2> QED
    BY <2>1, <2>2, <2>4, OthersKeptLeave DEF OwnerInv, LeaveKept
<1>21. ASSUME NEW a \in Askers, Owner!CarryOut(a) PROVE LeaveKept'
  <2>1. agent' = agent /\ asker[a].step = "let in"
        /\ landed'.what = asker[a].what /\ landed'.leave = asker[a].leave
    BY <1>21 DEF Owner!CarryOut
  <2>2. \A b \in Askers \ {a} : asker'[b] = asker[b]
    BY <1>21 DEF OwnerInv, OwnerTyped, Owner!CarryOut
  <2>3. asker'[a].step = "idle"
    BY <1>21 DEF OwnerInv, OwnerTyped, Owner!CarryOut, Owner!NoAsker
  <2>4. landed'.what # "operator" => landed'.leave = TRUE
    BY <2>1 DEF OwnerInv, LeaveKept
  <2> QED
    BY <2>1, <2>2, <2>3, <2>4, OthersKeptLeave
<1> QED
  BY <1>1, <1>2, <1>3, <1>4, <1>5, <1>6, <1>7, <1>8, <1>9, <1>10, <1>11, <1>12, <1>13,
     <1>14, <1>15, <1>16, <1>17, <1>18, <1>19, <1>20, <1>21 DEF OwnerMoves

LEMMA OwnerBegins == Owner!Init => OwnerInv
<1> SUFFICES ASSUME Owner!Init PROVE OwnerInv
  OBVIOUS
<1>1. OwnerTyped
  <2>1. agent \in [Owner!Columns -> Things]
    <3>1. PICK words \in Words :
              agent = [words |-> words, listed |-> TRUE, avatar |-> None, negotiates |-> FALSE]
      BY DEF Owner!Init
    <3>2. DOMAIN agent = {"words", "listed", "avatar", "negotiates"}
      BY <3>1, Zenon
    <3>3. agent["words"] = words
      BY <3>1, Zenon
    <3>4. agent["listed"] = TRUE
      BY <3>1, Zenon
    <3>5. agent["avatar"] = None
      BY <3>1, Zenon
    <3>6. agent["negotiates"] = FALSE
      BY <3>1, Zenon
    <3>7. agent = [column \in {"words", "listed", "avatar", "negotiates"} |-> agent[column]]
      BY <3>1, <3>2, Zenon
    <3> QED
      BY <3>3, <3>4, <3>5, <3>6, <3>7 DEF Owner!Columns, Things
  <2>2. Owner!Closed \in PageViews
    BY DEF Owner!Closed, PageViews, Things
  <2>3. Owner!NoCall \in CallRecords
    BY DEF Owner!NoCall, CallRecords, Owner!Columns, Things
  <2>4. Owner!NoAsker \in AskRecords
    BY DEF Owner!NoAsker, AskRecords, Owner!Errands, Things
  <2> QED
    BY <2>1, <2>2, <2>3, <2>4 DEF Owner!Init, OwnerTyped
<1>2. PagesShaped /\ TabsInStep
  BY DEF Owner!Init, PagesShaped, TabsInStep, PageShows, Owner!Closed, Owner!NoCall
<1>3. LeaveKept
  BY DEF Owner!Init, LeaveKept, Owner!NoAsker, Owner!Nothing
<1> QED
  BY <1>1, <1>2, <1>3 DEF OwnerInv

LEMMA OwnerGoesOn ==
    ASSUME OwnerInv, [Owner!Next]_(Owner!vars)
    PROVE  OwnerInv'
<1>1. CASE Owner!Next
  BY <1>1, EveryMove, OwnerStaysTyped, PagesStayShaped, TabsStayInStep, LeaveStaysKept
     DEF OwnerInv
<1>2. CASE UNCHANGED (Owner!vars)
  <2>1. /\ agent' = agent /\ view' = view /\ call' = call /\ asker' = asker
        /\ behind' = behind /\ landed' = landed
    BY <1>2 DEF Owner!vars
  <2>2. OwnerTyped' /\ PagesShaped' /\ LeaveKept'
    BY <2>1 DEF OwnerInv, OwnerTyped, PagesShaped, LeaveKept, Gate
  <2> QED
    BY <2>1, <2>2, PagesOnly, SamePagesUnmoved DEF OwnerInv
<1> QED
  BY <1>1, <1>2

LEMMA OwnersWord ==
    ASSUME OwnerInv
    PROVE  Owner!OwnersWordHolds
<1>1. ASSUME NEW t \in Tabs, NEW column \in DOMAIN view[t].shown,
             ~Owner!Sending(t, column), <<t, column>> \notin behind
      PROVE  view[t].shown[column] = Owner!Reads(column, agent[column])
  <2>1. column \in PageShows(view[t].page) /\ column \in Owner!Columns
    BY <1>1 DEF OwnerInv, PagesShaped, PageShows, Owner!Columns
  <2>2. \A c \in Calls : ~Late(c, t, column)
    BY <1>1 DEF Owner!Sending, Late
  <2> QED
    BY <1>1, <2>1, <2>2 DEF OwnerInv, TabsInStep, InStep
<1>2. Owner!OthersActWithLeave
  BY DEF OwnerInv, LeaveKept, Owner!OthersActWithLeave
<1> QED
  BY <1>1, <1>2 DEF Owner!OwnersWordHolds, Owner!PagesShowTheRow

\* Whatever interleaves, fails or is lost, the invariant of the owner's switches holds.
THEOREM OwnerInvariant == Owner!Spec => []OwnerInv
BY OwnerBegins, OwnerGoesOn, PTL DEF Owner!Spec

\* A step of the scene of the settings is a step of theirs.
LEMMA SettingsSceneGoesOn ==
    ASSUME scene = "settings", [JobsNext]_<<scene, vars, SiblingVars, OwnerVars>>
    PROVE  scene' = "settings" /\ [Owner!Next]_(Owner!vars)
<1>1. CASE UNCHANGED <<scene, vars, SiblingVars, OwnerVars>>
  BY <1>1 DEF OwnerVars, Owner!vars
<1>2. CASE JobsNext
  BY <1>2 DEF JobsNext, OneJob, Brief, Settings, Owner!Next
<1> QED
  BY <1>1, <1>2

SettingsScene == scene = "settings" => OwnerInv

LEMMA SettingsSceneHolds == JobsSpec => []SettingsScene
<1>1. JobsInit => SettingsScene
  BY OwnerBegins DEF JobsInit, SettingsScene
<1>2. SettingsScene /\ [JobsNext]_<<scene, vars, SiblingVars, OwnerVars>> => SettingsScene'
  <2>1. CASE scene = "settings"
    BY <2>1, SettingsSceneGoesOn, OwnerGoesOn DEF SettingsScene
  <2>2. CASE scene # "settings"
    <3>1. [JobsNext]_<<scene, vars, SiblingVars, OwnerVars>> => scene' = scene
      BY <2>2 DEF JobsNext, OneJob, Brief, Settings
    <3> QED
      BY <2>2, <3>1 DEF SettingsScene
  <2> QED
    BY <2>1, <2>2
<1> QED
  BY <1>1, <1>2, PTL DEF JobsSpec

\* For any number of tabs, requests and callers, a page of the owner's that is at rest
\* shows the row unless it was not told, and the agent's own key and the buyers act only
\* with leave the owner's switches gave them (the owner's pages and routes,
\* requireNegotiationAllowed, requireThreadAccess, POST /jobs).
THEOREM OwnersAreHeard == JobsSpec => []OwnersWordHolds
<1>1. SettingsScene => OwnersWordHolds
  BY OwnersWord DEF SettingsScene, OwnersWordHolds
<1> QED
  BY <1>1, SettingsSceneHolds, PTL
================================================================================
