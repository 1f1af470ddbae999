------------------------------- MODULE MCJobs ----------------------------------
(* The rows of the jobs table when requests overlap, for TLC, in three scenes    *)
(* that share nothing: the routes of one job (two requests in flight show every  *)
(* overlap of one handler's read with another's write, and are interchangeable), *)
(* the jobs one brief opens for two agents, one of them strict about buyers who  *)
(* walk away, and the switches of one agent: two tabs of its owner, the owner's  *)
(* software and one request of somebody else.                                    *)
EXTENDS JobRoutes, TLC

CONSTANTS Agents, Strict, Exchanges, Tabs, Words, Faces, Plain, Calls, Askers, MaxRequests

VARIABLES scene,
          listed, walkedBefore, brief, jobs, deposit, doors, exchange, confirming, told,
          walked, undone, overlapped,
          agent, view, call, asker, asked, behind, landed

Siblings == INSTANCE SiblingJobs
Owner == INSTANCE AgentSettings WITH row <- agent

\* No row is null, and the rail that deposits settle on here is configured.
ASSUME SiblingsAssumption == None \notin Jobs /\ "usdc" \in Rails

\* No tab is null: a request of null is the owner's software's, not a page's.
ASSUME OwnerAssumption == None \notin Tabs

OwnerVars == <<agent, view, call, asker, asked, behind, landed>>

SiblingVars ==
    <<listed, walkedBefore, brief, jobs, deposit, doors, exchange, confirming, told, walked,
      undone, overlapped>>

NoSiblings ==
    /\ listed = None /\ walkedBefore = None /\ brief = None /\ jobs = None /\ deposit = None
    /\ doors = None /\ exchange = None /\ confirming = None /\ told = None /\ walked = None
    /\ undone = None /\ overlapped = None

NoOwner ==
    /\ agent = None /\ view = None /\ call = None /\ asker = None /\ asked = None
    /\ behind = None /\ landed = None

JobsInit ==
    \/ scene = "routes" /\ Init /\ NoSiblings /\ NoOwner
    \/ scene = "siblings" /\ Init /\ Siblings!Init /\ NoOwner
    \/ scene = "settings" /\ Init /\ NoSiblings /\ Owner!Init

OneJob == scene = "routes" /\ UNCHANGED <<scene, SiblingVars, OwnerVars>>
Brief == scene = "siblings" /\ UNCHANGED <<scene, vars, OwnerVars>>
Settings == scene = "settings" /\ UNCHANGED <<scene, vars, SiblingVars>>

JobsNext ==
    \/ \E r \in Requests, route \in Routes : OneJob /\ Load(r, route)
    \/ \E r \in Requests : OneJob /\ RunClocks(r)
    \/ \E r \in Requests : OneJob /\ WriteLapsed(r)
    \/ \E r \in Requests : OneJob /\ AskMoney(r)
    \/ \E r \in Requests : OneJob /\ WriteRow(r)
    \/ \E r \in Requests : OneJob /\ Record(r)
    \/ \E r \in Requests : OneJob /\ Drop(r)
    \/ OneJob /\ Tick
    \/ \E named \in Siblings!Named : Brief /\ Siblings!CheckBrief(named)
    \/ Brief /\ Siblings!CreateFails
    \/ Brief /\ Siblings!Crash
    \/ \E a \in Agents : Brief /\ Siblings!CreateJob(a)
    \/ \E a \in Agents : Brief /\ Siblings!TellOfBrief(a)
    \/ \E x \in Exchanges, route \in Siblings!ExchangeRoutes, a \in Agents :
           Brief /\ Siblings!LoadForExchange(x, route, a)
    \/ \E x \in Exchanges : Brief /\ Siblings!AskDeposit(x)
    \/ \E x \in Exchanges : Brief /\ Siblings!WriteExchange(x)
    \/ \E x \in Exchanges : Brief /\ Siblings!EndExchange(x)
    \/ \E a \in Agents : Brief /\ Siblings!LoadForConfirm(a)
    \/ \E a \in Agents : Brief /\ Siblings!StartDeposit(a)
    \/ \E a \in Agents : Brief /\ Siblings!SettleDeposit(a)
    \/ \E a \in Agents : Brief /\ Siblings!SetListed(a)
    \/ \E a \in Agents : Brief /\ Siblings!LookAtSiblings(a)
    \/ \E a \in Agents : Brief /\ Siblings!WriteConfirmed(a)
    \/ \E a, b \in Agents : Brief /\ Siblings!SweepSibling(a, b)
    \/ \E a, b \in Agents : Brief /\ Siblings!SweepFails(a, b)
    \/ \E a \in Agents : Brief /\ Siblings!EndConfirm(a)
    \/ \E t \in Tabs : Settings /\ Owner!OpenSettings(t)
    \/ \E t \in Tabs : Settings /\ Owner!OpenRoster(t)
    \/ \E t \in Tabs : Settings /\ Owner!Leave(t)
    \/ \E t \in Tabs : Settings /\ Owner!Reconsider(t)
    \/ \E t \in Tabs, words \in Words : Settings /\ Owner!Type(t, words)
    \/ \E t \in Tabs, face \in Faces : Settings /\ Owner!Choose(t, face)
    \/ \E c \in Calls, t \in Tabs : Settings /\ Owner!SubmitWords(c, t)
    \/ \E c \in Calls, t \in Tabs : Settings /\ Owner!PressListing(c, t)
    \/ \E c \in Calls, t \in Tabs : Settings /\ Owner!SaveAvatar(c, t)
    \/ \E c \in Calls, t \in Tabs : Settings /\ Owner!ResetAvatar(c, t)
    \/ \E c \in Calls, column \in Owner!Columns : \E value \in Owner!Value(column) :
           Settings /\ Owner!OwnerCalls(c, column, value)
    \/ \E c \in Calls : Settings /\ Owner!LetIn(c)
    \/ \E c \in Calls : Settings /\ Owner!Refuse(c)
    \/ \E c \in Calls : Settings /\ Owner!EditListing(c)
    \/ \E c \in Calls : Settings /\ Owner!SetListed(c)
    \/ \E c \in Calls : Settings /\ Owner!SetAvatar(c)
    \/ \E c \in Calls : Settings /\ Owner!SetNegotiates(c)
    \/ \E c \in Calls : Settings /\ Owner!ReRead(c)
    \/ \E c \in Calls : Settings /\ Owner!ReReadFails(c)
    \/ \E c \in Calls : Settings /\ Owner!Answer(c)
    \/ \E c \in Calls : Settings /\ Owner!Refusal(c)
    \/ \E c \in Calls : Settings /\ Owner!Lost(c)
    \/ \E a \in Askers, what \in Owner!Errands : Settings /\ Owner!Ask(a, what)
    \/ \E a \in Askers : Settings /\ Owner!GateNegotiation(a)
    \/ \E a \in Askers : Settings /\ Owner!GateThread(a)
    \/ \E a \in Askers : Settings /\ Owner!GateHire(a)
    \/ \E a \in Askers : Settings /\ Owner!CarryOut(a)

JobsSpec == JobsInit /\ [][JobsNext]_<<scene, vars, SiblingVars, OwnerVars>>

\* Nothing waits for the calendar before the hire is confirmed.
NightsOfAHire ==
    scene = "routes" /\ today > 0 => row.status \notin {"draft", "proposed"}

\* What the siblings' scene follows. Nothing reads the switches once the brief is checked,
\* or a notice once it is written: of the runs that differ in them alone one is followed.
\* The exchange begins when the brief is answered or failed, or between two rows of it, and
\* two confirms that overlapped, which the properties excuse, are not followed further.
OneBriefAtRest ==
    scene = "siblings" =>
        /\ brief.phase # "none" => ~walkedBefore /\ \A a \in Agents : listed[a]
        /\ \A n \in told : n.event = "new_brief" /\ brief.phase \notin {"answered", "failed"}
        /\ brief.phase = "telling" => \A a \in Agents : jobs[a] \in {None, NewJob}
        /\ ~overlapped

InFlightSymmetry ==
    Permutations(Requests) \cup Permutations(Tabs) \cup Permutations(Calls)

\* A brief becomes one hire, however its requests interleave, and nobody hears of one
\* that was not opened whole (SiblingJobs).
BriefIsKept == scene = "siblings" => Siblings!OneHirePerBrief /\ Siblings!BriefToldWhole

\* The owner's pages show the agent's row, and others act only as its switches allow
\* (AgentSettings).
OwnersWordHolds == scene = "settings" => Owner!OwnersWordHolds

\* A hire is undone by the buyer's own withdraw, or by a request that read its row before
\* the confirm or by two confirms that overlapped; and only that withdraw counts as walking
\* away (SiblingJobs).
OnlyTheBuyerWalks == [][scene = "siblings" => Siblings!BuyerWalks]_SiblingVars
================================================================================
