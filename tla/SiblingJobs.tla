----------------------------- MODULE SiblingJobs -------------------------------
(* The jobs one brief opens. POST /jobs names one to three agents and creates a  *)
(* row for each; the buyer negotiates with all of them, may pay the deposit of   *)
(* several, and confirms one, after which the confirm request withdraws the      *)
(* others one by one, best effort and from the copies it read before it wrote.   *)
(*                                                                              *)
(* A job is named by its agent. The rows are JobDomain's. A request of the       *)
(* exchange (criteria, the accepts, withdraw, decline) loads its row, asks about *)
(* the deposit and writes the whole row back from what it loaded, and others run *)
(* in between; confirm also reads and writes the sibling rows. A deposit is       *)
(* started and reported in one step each; half-made deposits and the clocks are  *)
(* left out: JobRoutes and HireLoop have them.                                   *)
EXTENDS JobDomain, FiniteSets

CONSTANTS Agents,     \* "a brief may go to at most 3 agents"
          Strict,     \* those whose owners set maxWalkedAfterConfirm to 0
          Exchanges   \* requests of the exchange in flight at once, on any of the jobs

VARIABLES listed,       \* the owners' listing switches
          walkedBefore, \* the buyer's earlier hires show a withdraw after confirm
          brief,        \* the POST /jobs request: its phase, whom it names, what is left
          jobs,         \* the stored rows, None where there is none
          deposit,      \* the jobs whose deposit settled
          doors,        \* the jobs with a deposit start that passed its checks
          exchange,     \* what each request of the exchange holds
          confirming,   \* per job, its confirm request
          told,         \* the notification rows written to the operators
          walked,       \* history: the jobs the buyer withdrew after a confirm
          undone,       \* history: a request that read its row before a confirm wrote it after
          overlapped    \* history: two siblings were being confirmed at once

vars == <<listed, walkedBefore, brief, jobs, deposit, doors, exchange, confirming, told,
          walked, undone, overlapped>>

switches == <<listed, walkedBefore>>
histories == <<walked, undone, overlapped>>

\* What an operator is told of that this module asks about: no agent's side ever does it.
Events == {"new_brief", "sibling_withdrawn"}
Notices == [about : Agents, event : Events]

\* `paid` is what the deposit question answered, and FALSE where it is not asked.
ExchangeRoutes == {"criteria", "criterion", "price", "withdraw", "decline"}
NoExchange == [phase |-> "none", route |-> None, about |-> None, copy |-> None, paid |-> FALSE]
InExchange ==
    [phase : {"loaded", "asked"}, route : ExchangeRoutes, about : Agents, copy : Jobs,
     paid : BOOLEAN]

NoConfirm == [phase |-> "none", copy |-> None, seen |-> [a \in Agents |-> None]]
Copies == [Agents -> OrNone(Jobs)]
Confirms ==
    [phase : {"loaded", "looked", "sweeping"}, copy : Jobs, seen : Copies] \cup {NoConfirm}

TypeOK ==
    /\ listed \in [Agents -> BOOLEAN]
    /\ walkedBefore \in BOOLEAN
    /\ brief \in [phase : {"none", "checked", "creating", "telling", "answered", "failed"},
                  named : SUBSET Agents, left : SUBSET Agents]
    /\ jobs \in [Agents -> OrNone(Jobs)]
    /\ deposit \subseteq Agents
    /\ doors \subseteq Agents
    /\ exchange \in [Exchanges -> InExchange \cup {NoExchange}]
    /\ confirming \in [Agents -> Confirms]
    /\ told \subseteq Notices
    /\ walked \subseteq Agents
    /\ undone \in BOOLEAN
    /\ overlapped \in BOOLEAN

Init ==
    /\ listed \in [Agents -> BOOLEAN]
    /\ walkedBefore \in BOOLEAN
    /\ brief = [phase |-> "none", named |-> {}, left |-> {}]
    /\ jobs = [a \in Agents |-> None]
    /\ deposit = {}
    /\ doors = {}
    /\ exchange = [x \in Exchanges |-> NoExchange]
    /\ confirming = [a \in Agents |-> NoConfirm]
    /\ told = {}
    /\ walked = {}
    /\ undone = FALSE
    /\ overlapped = FALSE

--------------------------------------------------------------------------------
(* Notifications, siblings, conduct.                                            *)

\* notifyJobParties of a change the buyer made: an agent row that cannot be read, or a
\* write that fails, costs the operator its notice.
Notified(a, event) == {{}, {[about |-> a, event |-> event]}}

Exists(a) == jobs[a] # None
WasConfirmed(j) == j # None /\ j.confirmedAt # None

\* findByRequestId, without the job itself. Only a brief that names several agents
\* gives its jobs a requestId.
Siblings(a) ==
    [b \in Agents |-> IF b # a /\ brief.named # {a} THEN jobs[b] ELSE None]

NoneChosen(copies) == \A b \in Agents : ~WasConfirmed(copies[b])

\* buyerConductRecord's walkedAfterConfirm, of one row.
CountsAsWalk(j) == j # None /\ j.status = "withdrawn" /\ WasConfirmed(j)

\* buyerConductThresholdFailure, for the one threshold that is modelled.
RefusesBuyer(a) ==
    a \in Strict /\ (walkedBefore \/ \E b \in Agents : CountsAsWalk(jobs[b]))

--------------------------------------------------------------------------------
(* POST /jobs.                                                                  *)

\* The body: one to three agents, none twice.
Named == {named \in SUBSET Agents : Cardinality(named) \in 1..3}

\* Every agent is looked at before a row is written: one that is not listed, or whose
\* owner refuses the buyer, refuses the whole brief.
CheckBrief(named) ==
    /\ brief.phase = "none"
    /\ \A a \in named : listed[a] /\ ~RefusesBuyer(a)
    /\ brief' = [phase |-> "creating", named |-> named, left |-> named]
    /\ UNCHANGED <<switches, jobs, deposit, doors, exchange, confirming, told, histories>>

CreateJobTellingFirst(a) ==
    /\ brief.phase = "creating" /\ a \in brief.left
    /\ jobs' = [jobs EXCEPT ![a] = NewJob]
    /\ brief' = [brief EXCEPT !.left = @ \ {a}, !.phase = IF brief.left = {a} THEN "answered" ELSE @]
    /\ \E notices \in Notified(a, "new_brief") : told' = told \cup notices
    /\ UNCHANGED <<switches, deposit, doors, exchange, confirming, histories>>

\* The rows are created one after the other ...
CreateJob(a) ==
    /\ brief.phase = "creating" /\ a \in brief.left
    /\ jobs' = [jobs EXCEPT ![a] = NewJob]
    /\ brief' = IF brief.left = {a} THEN [brief EXCEPT !.phase = "telling", !.left = brief.named]
                ELSE [brief EXCEPT !.left = @ \ {a}]
    /\ UNCHANGED <<switches, deposit, doors, exchange, confirming, told, histories>>

\* ... and one that fails ends the request with a 503; the rows before it stay.
CreateFails ==
    /\ brief.phase = "creating"
    /\ brief' = [brief EXCEPT !.phase = "failed", !.left = {}]
    /\ UNCHANGED <<switches, jobs, deposit, doors, exchange, confirming, told, histories>>

\* Only when every row exists is anybody told.
TellOfBrief(a) ==
    /\ brief.phase = "telling" /\ a \in brief.left
    /\ brief' = [brief EXCEPT !.left = @ \ {a},
                              !.phase = IF brief.left = {a} THEN "answered" ELSE @]
    /\ \E notices \in Notified(a, "new_brief") : told' = told \cup notices
    /\ UNCHANGED <<switches, jobs, deposit, doors, exchange, confirming, histories>>

--------------------------------------------------------------------------------
(* The exchange.                                                                *)

\* The rows a route may write from the copy it loaded; none when it refuses.
Writes(route, j, paid) ==
    CASE route = "criteria" ->
           {Proposed(j, Criteria, [price |-> price, rail |-> None]) :
               price \in {p \in Prices : CanPropose(j, paid)}}
      [] route = "criterion" ->
           {CriterionAccepted(j, criterion, party) :
               criterion \in {c \in Criteria : CanAcceptCriterion(j, c)}, party \in Parties}
      [] route = "price" ->
           {PriceAccepted(j, party) : party \in {p \in Parties : CanAcceptPrice(j)}}
      [] route = "withdraw" -> {k \in {WithStatus(j, "withdrawn")} : CanWithdraw(j, paid)}
      [] route = "decline" -> {k \in {WithStatus(j, "declined")} : CanDecline(j, paid)}

\* Criteria and withdraw ask about the deposit of a proposed job only, decline always.
AsksOfProposals(route, copy) ==
    route \in {"criteria", "withdraw", "decline"} /\ copy.status = "proposed"
Asks(route, copy) ==
    \/ route \in {"criteria", "withdraw"} /\ copy.status = "proposed"
    \/ route = "decline"

\* loadForExchange, requireSignedParty. A request that will be refused whatever it is
\* answered is not followed.
LoadForExchange(x, route, a) ==
    /\ exchange[x] = NoExchange /\ Exists(a)
    /\ \E paid \in BOOLEAN : Writes(route, jobs[a], paid) # {}
    /\ exchange' = [exchange EXCEPT ![x] =
           [phase |-> "loaded", route |-> route, about |-> a, copy |-> jobs[a], paid |-> FALSE]]
    /\ UNCHANGED <<switches, brief, jobs, deposit, doors, confirming, told, histories>>

\* settlementGate.depositSettled.
AskDeposit(x) ==
    /\ exchange[x].phase = "loaded" /\ Asks(exchange[x].route, exchange[x].copy)
    /\ exchange' = [exchange EXCEPT ![x].phase = "asked",
                                    ![x].paid = exchange[x].about \in deposit]
    /\ UNCHANGED <<switches, brief, jobs, deposit, doors, confirming, told, histories>>

\* jobRepo.update of applyAndPersist: the whole row, blindly.
WriteExchange(x) ==
    LET r == exchange[x]
    IN  /\ \/ r.phase = "asked"
           \/ r.phase = "loaded" /\ ~Asks(r.route, r.copy)
        /\ \E k \in Writes(r.route, r.copy, r.paid) : jobs' = [jobs EXCEPT ![r.about] = k]
        /\ exchange' = [exchange EXCEPT ![x] = NoExchange]
        /\ walked' = IF r.route = "withdraw" /\ WasConfirmed(r.copy) THEN walked \cup {r.about}
                     ELSE walked
        /\ undone' = (undone \/ (WasConfirmed(jobs[r.about]) /\ ~WasConfirmed(r.copy)))
        /\ UNCHANGED <<switches, brief, deposit, doors, confirming, told, overlapped>>

\* A refusal, or a failure before the write.
EndExchange(x) ==
    /\ exchange[x] # NoExchange
    /\ exchange' = [exchange EXCEPT ![x] = NoExchange]
    /\ UNCHANGED <<switches, brief, jobs, deposit, doors, confirming, told, histories>>

--------------------------------------------------------------------------------
(* The deposit, and the owner's switch.                                         *)

\* checkDepositReadiness at a start door, and the answer of an ERC-20 wallet later: that
\* one is judged by the row's status, and the siblings are not asked about again.
StartDeposit(a) ==
    /\ Exists(a) /\ a \notin deposit
    /\ LegStatusEligible("deposit", jobs[a].status)
    /\ NoneChosen(Siblings(a))
    /\ Agreed(jobs[a])
    /\ doors' = doors \cup {a}
    /\ UNCHANGED <<switches, brief, jobs, deposit, exchange, confirming, told, histories>>

SettleDeposit(a) ==
    /\ a \in doors /\ Exists(a)
    /\ LegStatusEligible("deposit", jobs[a].status)
    /\ deposit' = deposit \cup {a}
    /\ doors' = doors \ {a}
    /\ UNCHANGED <<switches, brief, jobs, exchange, confirming, told, histories>>

\* Nothing below reads the switch once the brief is checked; it rests from there.
SetListed(a) ==
    /\ brief.phase = "none"
    /\ listed' = [listed EXCEPT ![a] = ~@]
    /\ UNCHANGED <<walkedBefore, brief, jobs, deposit, doors, exchange, confirming, told,
                   histories>>

--------------------------------------------------------------------------------
(* POST /jobs/:jobId/confirm, one step per await that another request can fall   *)
(* between. `phase` says how far it has come.                                   *)

\* confirmSpec's own checks are made after the look, on the copy read here; a copy they
\* refuse changes nothing, and is refused at once.
Filled(copy) == [copy EXCEPT !.rail = IF @ = None THEN "usdc" ELSE @]

\* loadForExchange.
LoadForConfirm(a) ==
    /\ Exists(a) /\ confirming[a] = NoConfirm
    /\ CanConfirm(Filled(jobs[a]))
    /\ confirming' = [confirming EXCEPT ![a] = [NoConfirm EXCEPT !.phase = "loaded",
                                                               !.copy = jobs[a]]]
    /\ UNCHANGED <<switches, brief, jobs, deposit, doors, exchange, told, histories>>

\* The siblings that are withdrawn after the confirm, as they were read before it.
Sweepable(copies) ==
    [b \in Agents |-> IF copies[b] # None /\ copies[b].status \in {"draft", "proposed"}
                      THEN copies[b] ELSE None]

LookAtNobody(a) ==
    /\ confirming[a].phase = "loaded"
    /\ confirming' = [confirming EXCEPT ![a].phase = "looked", ![a].seen = Sweepable(Siblings(a))]
    /\ overlapped' = (overlapped \/ \E b \in Agents \ {a} : confirming[b].phase = "looked")
    /\ UNCHANGED <<switches, brief, jobs, deposit, doors, exchange, told, walked, undone>>

\* findByRequestId: a sibling already confirmed refuses.
LookAtSiblings(a) ==
    /\ confirming[a].phase = "loaded"
    /\ NoneChosen(Siblings(a))
    /\ confirming' = [confirming EXCEPT ![a].phase = "looked", ![a].seen = Sweepable(Siblings(a))]
    /\ overlapped' = (overlapped \/ \E b \in Agents \ {a} : confirming[b].phase = "looked")
    /\ UNCHANGED <<switches, brief, jobs, deposit, doors, exchange, told, walked, undone>>

\* Money, agreement, the agent's GitHub login and GitHub itself; then the row. A deposit
\* never unsettles, so asking about it and writing are one step.
WriteConfirmed(a) ==
    /\ confirming[a].phase = "looked"
    /\ a \in deposit
    /\ jobs' = [jobs EXCEPT ![a] = Confirmed(Filled(confirming[a].copy), 0)]
    /\ confirming' = [confirming EXCEPT ![a].phase = "sweeping"]
    /\ UNCHANGED <<switches, brief, deposit, doors, exchange, told, histories>>

\* The copies still to be withdrawn.
ToSweep(a) == {b \in Agents : confirming[a].seen[b] # None}

Swept(a, b) == [confirming EXCEPT ![a].seen[b] = None]

\* jobRepo.update(recordWithdrawn(sibling)), of the copy read before the confirm.
SweepSibling(a, b) ==
    /\ confirming[a].phase = "sweeping" /\ b \in ToSweep(a)
    /\ jobs' = [jobs EXCEPT ![b] = WithStatus(confirming[a].seen[b], "withdrawn")]
    /\ confirming' = Swept(a, b)
    /\ \E notices \in Notified(b, "sibling_withdrawn") : told' = told \cup notices
    /\ UNCHANGED <<switches, brief, deposit, doors, exchange, histories>>

\* A write that fails is logged and skipped.
SweepFails(a, b) ==
    /\ confirming[a].phase = "sweeping" /\ b \in ToSweep(a)
    /\ confirming' = Swept(a, b)
    /\ UNCHANGED <<switches, brief, jobs, deposit, doors, exchange, told, histories>>

\* A refusal, a failure before the write, or the answer once nothing is left to sweep.
EndConfirm(a) ==
    /\ \/ confirming[a].phase \in {"loaded", "looked"}
       \/ confirming[a].phase = "sweeping" /\ ToSweep(a) = {}
    /\ confirming' = [confirming EXCEPT ![a] = NoConfirm]
    /\ UNCHANGED <<switches, brief, jobs, deposit, doors, exchange, told, histories>>

\* The process dies: every request in flight with it. Nothing resumes the sweep.
Crash ==
    /\ exchange' = [x \in Exchanges |-> NoExchange]
    /\ confirming' = [a \in Agents |-> NoConfirm]
    /\ brief' = IF brief.phase \in {"creating", "telling"}
                THEN [brief EXCEPT !.phase = "failed", !.left = {}] ELSE brief
    /\ UNCHANGED <<switches, jobs, deposit, doors, told, histories>>

Next ==
    \/ \E named \in Named : CheckBrief(named)
    \/ CreateFails
    \/ Crash
    \/ \E a \in Agents :
           \/ CreateJob(a)
           \/ TellOfBrief(a)
           \/ \E x \in Exchanges, route \in ExchangeRoutes : LoadForExchange(x, route, a)
           \/ LoadForConfirm(a)
           \/ StartDeposit(a)
           \/ SettleDeposit(a)
           \/ SetListed(a)
           \/ LookAtSiblings(a)
           \/ WriteConfirmed(a)
           \/ \E b \in Agents : SweepSibling(a, b) \/ SweepFails(a, b)
           \/ EndConfirm(a)
    \/ \E x \in Exchanges : AskDeposit(x) \/ WriteExchange(x) \/ EndExchange(x)

Spec == Init /\ [][Next]_vars

--------------------------------------------------------------------------------
(* Properties.                                                                  *)

\* One brief hires one agent, however its requests interleave, whatever fails and
\* wherever the process dies, as long as no two siblings were being confirmed between
\* each other's look and write and no confirmed job was written back to what it was
\* before (POST /jobs/:jobId/confirm's 409).
OneHirePerBrief ==
    ~overlapped /\ ~undone =>
        \A a, b \in Agents : WasConfirmed(jobs[a]) /\ WasConfirmed(jobs[b]) => a = b

\* Nobody hears of a brief that was not opened whole: a row that could not be created
\* leaves its siblings stored and silent, never announced (POST /jobs).
BriefToldWhole ==
    \A n \in told : n.event = "new_brief" => \A a \in brief.named : Exists(a)

\* Only the buyer walks. A request of the exchange that read its row before the confirm
\* and writes it after puts the hire back to what it was (`undone`: nothing stops it);
\* nothing else but the buyer's own withdraw takes a confirmed job back: no sweep, no
\* decline, no request that read the hire, no failure and no crash, unless two confirms
\* overlapped. And what a buyer's record counts as walking away is such a withdraw, in
\* whatever order the requests write, never the sweep of a sibling that went unchosen
\* (applyAndPersist, buyerConductRecord, DATA-CONTRACT).
BuyerWalks ==
    \A a \in Agents :
        /\ CountsAsWalk(jobs'[a]) => a \in walked'
        /\ Exists(a) /\ jobs[a].status = "confirmed" /\ jobs'[a] # jobs[a] =>
               overlapped' \/ undone' \/ a \in walked'
OnlyTheBuyerWalks == [][BuyerWalks]_vars

--------------------------------------------------------------------------------
(* What a comment of the source says, and siblings break.                       *)

\* job.ts:285, "A proposed job whose deposit has settled takes no decline, no
\* criteria/price proposal and no withdraw": not from a request of another job either.
PaidProposalStands ==
    [][\A a \in deposit :
           Exists(a) /\ jobs[a].status = "proposed" /\ UNCHANGED exchange =>
               jobs'[a].status \notin {"declined", "withdrawn"}]_vars
================================================================================
