------------------------------- MODULE JobLists --------------------------------
(* The lists a hire is found in: the buyer's jobs and pending lists, the owner's *)
(* incoming list, the sections of the dashboard and the line pinned above the    *)
(* conversation. They keep nothing of their own. Each is a function of the row   *)
(* of HireLoop, and each tells its reader whose turn it is.                      *)
EXTENDS HirePages

\* Nor is null any of the words below.
ASSUME WordsAssumption ==
    None \notin {"written", "draft the agreement", "accept-short", "pay-deposit", "review",
                 "pull-request"}

\* jobListBucketOf
Bucket(status) ==
    CASE status \in {"draft", "proposed"} -> "notReal"
      [] status \in {"staged", "submitted"} -> "waitingOnYou"
      [] status \in {"confirmed", "redo_requested"} -> "inProgress"
      [] status \in {"completed", "deemed_completed"} -> "shipped"
      [] OTHER -> "notShipped"

\* waitingOnOf: the lines alone are read, never the price.
WaitingOnAnySigned(j) ==
    IF j.terms = {} THEN "noReply"
    ELSE IF \E line \in j.terms : <<line, "agent">> \in j.signed THEN "waitingOnBuyer"
    ELSE "waitingOnOperator"
WaitingOn(j) ==
    IF j.terms = {} THEN "noReply"
    ELSE IF j.terms \X {"agent"} \subseteq j.signed THEN "waitingOnBuyer"
    ELSE "waitingOnOperator"

\* jobListDateOf. The instants of a redo, a deemed completion and a cited close
\* are written with the status they date.
ListDate(j) ==
    CASE j.status = "staged" -> j.stagedAt
      [] j.status = "submitted" -> j.submittedAt
      [] j.status = "confirmed" -> j.confirmedAt
      [] j.status = "completed" -> j.mergedAt
      [] j.status \in {"redo_requested", "deemed_completed", "cited_closed"} -> "written"
      [] OTHER -> None

\* GET /accounts/:did/pending and /incoming: the hires nobody has confirmed, as
\* they are stored. GET /accounts/:did/jobs: the others, after their clocks.
IsPending(j) == Bucket(j.status) = "notReal"
Clocked(j) == IF IsPending(j) THEN j ELSE WithStatus(j, OnLoad)

\* The buyer's sections: a pending row by who is waited for, a job by its bucket.
BuyerSection(j) ==
    IF IsPending(j)
    THEN IF WaitingOn(j) = "waitingOnBuyer" THEN "waiting" ELSE "progress"
    ELSE CASE Bucket(j.status) = "waitingOnYou" -> "waiting"
           [] Bucket(j.status) = "inProgress" -> "progress"
           [] OTHER -> "over"

\* buildRecentlyCompleted: what is over and has a date.
IsRecent(j) == BuyerSection(j) = "over" /\ ListDate(j) # None

\* GET /accounts/:did/incoming is the owner's half of the pending list.
IsOffered(j) == IsPending(j)

\* What the owner's incoming list and dashboard say of an offer.
OfferState(j) ==
    IF ~IsOffered(j) THEN None
    ELSE CASE WaitingOn(j) = "noReply" -> "draft the agreement"
           [] WaitingOn(j) = "waitingOnBuyer" -> "see what you sent"
           [] WaitingOn(j) = "waitingOnOperator" -> "review the change"

\* nextStep: where the pinned line sends the party of a conversation.
NextStep(shot) ==
    IF \E leg \in Legs : ShortShown(shot, leg)
    THEN IF shot.seat = "owner" THEN "accept-short" ELSE None
    ELSE CASE shot.status = "proposed" ->
                IF shot.seat = "buyer" /\ shot.agreed THEN "pay-deposit" ELSE "agreement"
           [] shot.status = "staged" /\ shot.seat = "buyer" -> "review"
           [] shot.status = "submitted" -> "pull-request"
           [] OTHER -> None

--------------------------------------------------------------------------------

TakesOne(controls, shot) == \E control \in controls : Takes(control, shot)

\* The row once the buyer has signed all that it carries.
BuyerSigns(j) == [j EXCEPT !.signed = @ \cup (j.terms \X {"buyer"}), !.priceBy = @ \cup {"buyer"}]

\* The buyer's part of a staged hire is done, or the payment waits on the owner.
BalanceIsElsewhere == IsSettled("remainder") \/ AwaitsOwner("remainder")

BuyerMoves ==
    CASE IsPending(job) -> "agent" \in job.priceBy => Agreed(BuyerSigns(job))
      [] job.status = "staged" -> TakesOne(StagedPage(ShotNow("buyer")), ShotNow("buyer"))
      [] job.status = "submitted" -> TakesOne(PullRequestPage(ShotNow("buyer")), ShotNow("buyer"))

AgentMoves ==
    IF IsPending(job)
    THEN \/ CanPropose(job, IsSettled("deposit"))
         \/ \E line \in job.terms : CanAcceptCriterion(job, line) /\ <<line, "agent">> \notin job.signed
    ELSE TakesOne({"stage"}, ShotNow("owner"))

\* The lists tell each side the truth about whose turn it is. A list that is read
\* without its clocks has none to run; a hire that is said to wait for the buyer is
\* one the buyer can move, and a signature of theirs is all that an offer whose price
\* the agent has signed still needs; a hire in progress is one the agent can move; a
\* hire that is over takes no control of anybody's page, and one that shipped is found
\* among the recent ones. A hire whose balance is paid
\* stays among those that wait for the buyer until the agent has opened its pull
\* request. The pinned line never sends its reader to a page that has nothing to offer.
ListsTellTheTurn ==
    /\ IsPending(job) => Fresh
    /\ Fresh =>
        /\ BuyerSection(job) = "waiting" => BuyerMoves \/ BalanceIsElsewhere
        /\ BuyerSection(job) = "progress" => AgentMoves
        /\ BuyerSection(job) = "over" =>
               \A seat \in Seats : ~TakesOne(Offered(ShotNow(seat)) \ {"accept-short"}, ShotNow(seat))
        /\ BuyerSection(job) # "over" /\ ~IsPending(job) => ListDate(Clocked(job)) # None
        /\ Bucket(job.status) = "shipped" => IsRecent(Clocked(job))
        /\ OfferState(job) = "draft the agreement" => CanPropose(job, IsSettled("deposit"))
        /\ \A seat \in Seats :
               LET shot == ShotNow(seat)
                   step == NextStep(shot)
               IN  /\ step \in {"accept-short", "pay-deposit"} => step \in Offered(shot) /\ Takes(step, shot)
                   /\ step = "review" => StagedPage(shot) # {} \/ IsSettled("remainder")
                   /\ step = "pull-request" /\ seat = "buyer" => PullRequestPage(shot) # {}
================================================================================
