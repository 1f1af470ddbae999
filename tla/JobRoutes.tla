------------------------------ MODULE JobRoutes --------------------------------
(* The routes of one hire when requests overlap. Each await of a handler in     *)
(* src/src/api/app.ts lets another request run, and jobRepo.update writes the   *)
(* whole row from the handler's copy, whatever the stored row has become. A     *)
(* request here is a copy of the row and how far its handler has come: loaded,  *)
(* past the clocks, past the money question. Up to the pull request's           *)
(* submission; half-paid legs and the outcomes GitHub decides are HireLoop's.   *)
EXTENDS JobDomain

CONSTANTS Requests,            \* requests that can be in flight at once
          MaxDay               \* bound: the calendar stops here

ASSUME MaxDayAssumption == MaxDay \in Nat

VARIABLES row,        \* the stored row
          settled,    \* the settlement rows: leg -> the price it settled at
          today,
          request     \* what each request in flight holds

vars == <<row, settled, today, request>>

Routes ==
    {"criteria", "criterion", "price", "confirm", "withdraw", "decline", "stage",
     "staged-decline", "redo", "redo-refuse", "pull-request", "cited-close",
     "pay-deposit", "pay-remainder", "read"}

\* The leg a route's money question is about; the others ask none.
AskedLegAlwaysDeposit(route) == "deposit"
AskedLeg(route) ==
    IF route \in {"criteria", "confirm", "withdraw", "decline", "pay-deposit"} THEN "deposit"
    ELSE IF route \in {"staged-decline", "redo", "pull-request", "cited-close", "pay-remainder"}
         THEN "remainder"
    ELSE None

Settlements == [rail : Rails, price : Prices, at : Nat]

\* A row is never null, nor is the name of a leg.
ASSUME RowsAssumption == None \notin Settlements /\ None \notin Legs

\* `paid` is the settlement row the money question found, None when it found none
\* or was not asked.
NoRequest == [phase |-> "none", route |-> None, copy |-> NewJob, paid |-> None]

InFlight ==
    [phase : {"loaded", "lapsing", "timely", "asked"}, route : Routes, copy : Jobs,
     paid : OrNone(Settlements)]

TypeOK ==
    /\ row \in Jobs
    /\ settled \in [Legs -> OrNone(Settlements)]
    /\ today \in Nat
    /\ request \in [Requests -> InFlight \cup {NoRequest}]

Init ==
    /\ row = NewJob
    /\ settled = [leg \in Legs |-> None]
    /\ today = 0
    /\ request = [r \in Requests |-> NoRequest]

--------------------------------------------------------------------------------
(* What a route may do with its copy of the row.                                *)

\* The rows a route may write, given what the money question found: none when the
\* route refuses. `paid` is None for a route that asked nothing.
When(allowed, rows) == IF allowed THEN rows ELSE {}

Writes(route, j, paid) ==
    CASE route = "criteria" ->
           When(CanPropose(j, paid # None),
                {Proposed(j, terms, offer) :
                    terms \in SUBSET Criteria \ {{}}, offer \in OrNone(Offers)})
      [] route = "criterion" ->
           {CriterionAccepted(j, criterion, party) :
               criterion \in {c \in Criteria : CanAcceptCriterion(j, c)}, party \in Parties}
      [] route = "price" -> When(CanAcceptPrice(j), {PriceAccepted(j, party) : party \in Parties})
      [] route = "confirm" ->
           LET filled == [j EXCEPT !.rail = IF @ = None /\ paid # None THEN paid.rail ELSE @]
           IN  When(paid # None /\ CanConfirm(filled), {Confirmed(filled, today)})
      [] route = "withdraw" -> When(CanWithdraw(j, paid # None), {WithStatus(j, "withdrawn")})
      [] route = "decline" -> When(CanDecline(j, paid # None), {WithStatus(j, "declined")})
      [] route = "stage" ->
           When(CanMove(j.status, "staged"), {Staged(j, commit, today) : commit \in Commits})
      [] route = "staged-decline" ->
           When(CanMove(j.status, "staged_declined") /\ paid = None,
                {WithStatus(j, "staged_declined")})
      [] route = "redo" -> When(CanRequestRedo(j) /\ paid = None, {RedoRequested(j)})
      [] route = "redo-refuse" -> When(CanRefuseRedo(j), {WithStatus(j, "staged")})
      [] route = "pull-request" ->
           When(CanMove(j.status, "submitted") /\ paid # None, {Submitted(j, today)})
      [] route = "cited-close" ->
           When(CanMove(j.status, "cited_closed") /\ paid # None, {WithStatus(j, "cited_closed")})
      [] OTHER -> {}

\* The rails a payment report may settle its leg on.
Pays(route) == route \in {"pay-deposit", "pay-remainder"}

OpenRails(route, j, paid) ==
    When(/\ Pays(route)
         /\ LegStatusEligible(AskedLeg(route), j.status)
         /\ j.price # None
         /\ paid = None,
         {rail \in Rails : j.rail \in {None, rail}})

Acts(route, j, paid) == Writes(route, j, paid) # {} \/ OpenRails(route, j, paid) # {}

\* The statuses a clock runs in. GET /jobs/:jobId does nothing but run them.
HasClock(status) == status \in {"confirmed", "submitted"} \cup StagedStatuses

--------------------------------------------------------------------------------
(* The steps of a handler. A request that will be refused whatever the money     *)
(* question answers writes nothing, and is not followed.                         *)

Step(r, phase, copy, paid) ==
    request' = [request EXCEPT ![r] = [@ EXCEPT !.phase = phase, !.copy = copy, !.paid = paid]]

End(r) == request' = [request EXCEPT ![r] = NoRequest]

\* jobRepo.findById: the copy every later step works on.
Load(r, route) ==
    /\ request[r] = NoRequest
    /\ \/ route = "read" /\ HasClock(row.status)
       \/ \E paid \in OrNone([rail : Rails, price : Prices, at : {today}]) :
              Acts(route, row, paid)
    /\ request' = [request EXCEPT ![r] =
           [phase |-> IF HasClock(row.status) THEN "loaded" ELSE "timely",
            route |-> route, copy |-> row, paid |-> None]]
    /\ UNCHANGED <<row, settled, today>>

PaidAt == IF settled["remainder"] = None THEN None ELSE settled["remainder"].at

\* applyLiveLapses: the clocks judge the copy by what is settled now.
RunClocks(r) ==
    LET copy == request[r].copy
        status == LapsedStatus(copy, today, PaidAt # None, PaidAt)
    IN  /\ request[r].phase = "loaded"
        /\ \/ status # copy.status /\ Step(r, "lapsing", WithStatus(copy, status), None)
           \/ status = copy.status /\ request[r].route # "read" /\ Step(r, "timely", copy, None)
           \/ status = copy.status /\ request[r].route = "read" /\ End(r)
        /\ UNCHANGED <<row, settled, today>>

\* The lapsed copy is written back, or its write fails; the route then refuses it.
WriteLapsed(r) ==
    /\ request[r].phase = "lapsing"
    /\ row' \in {row, request[r].copy}
    /\ End(r)
    /\ UNCHANGED <<settled, today>>

\* Criteria and withdraw ask about a proposed job only.
Asks(route, copy) ==
    /\ AskedLeg(route) # None
    /\ route \in {"criteria", "withdraw"} => copy.status = "proposed"

\* The money question, and the refusals that depend on its answer.
AskMoney(r) ==
    LET route == request[r].route
        copy == request[r].copy
        answer == settled[AskedLeg(route)]
    IN  /\ request[r].phase = "timely" /\ Asks(route, copy)
        /\ \/ Acts(route, copy, answer) /\ Step(r, "asked", copy, answer)
           \/ ~Acts(route, copy, answer) /\ End(r)
        /\ UNCHANGED <<row, settled, today>>

\* Nothing is left but the write.
Ready(r) ==
    \/ request[r].phase = "asked"
    \/ request[r].phase = "timely" /\ ~Asks(request[r].route, request[r].copy)

\* jobRepo.update: the whole row, blindly.
WriteRow(r) ==
    /\ Ready(r)
    /\ row' \in Writes(request[r].route, request[r].copy, request[r].paid)
    /\ End(r)
    /\ UNCHANGED <<settled, today>>

\* settlementRepo.record: the chain confirmed the payment the door let through.
\* The row is kept by (job, leg), so a second record replaces the first.
Record(r) ==
    LET j == request[r].copy
        route == request[r].route
    IN  /\ Ready(r)
        /\ \E rail \in OpenRails(route, j, request[r].paid) :
               settled' = [settled EXCEPT ![AskedLeg(route)] =
                              [rail |-> rail, price |-> j.price, at |-> today]]
        /\ End(r)
        /\ UNCHANGED <<row, today>>

\* A report the chain does not confirm, or any request lost before its write.
Drop(r) ==
    /\ request[r].phase = "asked"
    /\ End(r)
    /\ UNCHANGED <<row, settled, today>>

Tick ==
    /\ today < MaxDay
    /\ today' = today + 1
    /\ UNCHANGED <<row, settled, request>>

Next ==
    \/ \E r \in Requests :
           \/ \E route \in Routes : Load(r, route)
           \/ RunClocks(r)
           \/ WriteLapsed(r)
           \/ AskMoney(r)
           \/ WriteRow(r)
           \/ Record(r)
           \/ Drop(r)
    \/ Tick

Spec == Init /\ [][Next]_vars

--------------------------------------------------------------------------------
(* What the blind writes cannot break.                                          *)

\* However requests overlap, a hire that is on is one agreement: the pinned terms
\* are the row's, both parties signed all of them, and its deposit settled
\* (confirmSpec and confirm's own money question). Not: settled at that price.
OneAgreement ==
    row.confirmedAt # None =>
        /\ Agreed(row)
        /\ row.spec = SpecOf(row)
        /\ settled["deposit"] # None

\* Work is submitted, closed with a reason or called undelivered only on a hire
\* whose remainder settled (pull-request, cited-close, lapseUndelivered).
DeliveryIsPaid ==
    row.submittedAt # None \/ row.status \in {"cited_closed", "paid_undelivered"} =>
        settled["remainder"] # None

\* Two redos racing for one allowance are counted as one: the count, its share of
\* the review window and the allowance agree in every row written (requestRedo).
RedoBudgetKept ==
    /\ row.redoUsed <= RedoAllowance
    /\ row.extension = row.redoUsed * RedoLapseExtension

\* A declined hire was never confirmed: confirm needs a settled deposit and decline
\* asks about it after loading, so a decline of a confirmed copy is refused.
DeclinedBeforeHire == row.status = "declined" => row.confirmedAt = None
================================================================================
