------------------------------- MODULE Receipts --------------------------------
(* What is left of a hire once its pull request is open: the outcome written on   *)
(* the job row, the one credential issued for it, the buyer's review, and the     *)
(* reports that dispute work signed with a compromised key. Requests overlap,     *)
(* every await can fail, the process can die between two writes, and GitHub and   *)
(* the calendar move on meanwhile.                                                *)
EXTENDS Naturals, FiniteSets

CONSTANTS Calls,          \* requests in flight at once
          MaxDay,         \* bound: the calendar stops here
          MaxCalls,       \* bound: requests made
          MaxReports,     \* bound: compromise reports filed
          WindowDays,     \* DEEM_COMPLETED_AFTER_DAYS, counted from the submission
          None

VARIABLES row,        \* status of the jobs row, submitted on day 0
          receipt,    \* the row of the credentials table, keyed by the job
          review,     \* the row of the reviews table, keyed by the job
          reports,    \* the compromise reports about the agent
          pull,       \* the pull request as GitHub reports it
          keys,       \* where the agent's own key can be read from
          platform,   \* what this deployment is: its seed, its agent, its process
          day,
          call,       \* the requests in flight
          made,       \* how many were made
          torn        \* history: an outcome was written apart from its receipt

vars == <<row, receipt, review, reports, pull, keys, platform, day, call, made, torn>>

Days == 0..MaxDay
Endings == {"completed", "deemed_completed", "cited_closed"}
Ops == {"read", "merge", "cite", "review"}
Steps == {"clocks", "ask", "name", "complete", "save", "lookup", "issue", "persist", "act"}
InFlight == [op : Ops, at : Steps, copy : {"submitted"} \cup Endings,
             merged : Days \cup {None}, clean : BOOLEAN]

TypeOK ==
    /\ row \in {"submitted"} \cup Endings
    /\ receipt \in [kind : {"hire", "deemed"}, mergedAt : Days \cup {None}, signer : Nat] \cup {None}
    /\ review \in {"review", None}
    /\ reports \subseteq [since : Days, reportedAt : Days]
    /\ pull \in [state : {"open", "closed", "merged"}, attested : BOOLEAN, mergedAt : Days \cup {None}]
    /\ keys \subseteq {"in process", "durable"}
    /\ platform \in [seeded : BOOLEAN, holdsKey : BOOLEAN, boot : Nat]
    /\ day \in Days
    /\ call \in [Calls -> InFlight \cup {None}]
    /\ made \in 0..MaxCalls
    /\ torn \in BOOLEAN

Init ==
    /\ row = "submitted" /\ receipt = None /\ review = None /\ reports = {}
    /\ pull = [state |-> "open", attested |-> TRUE, mergedAt |-> None]
    /\ keys = {}
    \* Without a seed no key is derived, whoever made the agent.
    /\ \E seeded \in BOOLEAN, holdsKey \in BOOLEAN :
           /\ holdsKey => seeded
           /\ platform = [seeded |-> seeded, holdsKey |-> holdsKey, boot |-> 0]
    /\ day = 0
    /\ call = [c \in Calls |-> None]
    /\ made = 0
    /\ torn = FALSE

world == <<pull, keys, platform, day, made>>
rows == <<row, receipt, review, reports>>

--------------------------------------------------------------------------------
(* The world.                                                                   *)

theirWorld == <<rows, keys, platform, call, made, torn>>

Tick == day < MaxDay /\ day' = day + 1 /\ UNCHANGED <<theirWorld, pull>>

\* The buyer merges; GitHub may leave the date out of its answer.
BuyerMerges ==
    /\ pull.state = "open"
    /\ \E at \in {day, None} : pull' = [pull EXCEPT !.state = "merged", !.mergedAt = at]
    /\ UNCHANGED <<theirWorld, day>>

PullCloses ==
    /\ pull.state = "open"
    /\ pull' = [pull EXCEPT !.state = "closed"]
    /\ UNCHANGED <<theirWorld, day>>

\* The agent pushes to its branch, or resets it to the attested commit.
HeadMoves ==
    /\ pull.state = "open"
    /\ pull' = [pull EXCEPT !.attested = ~@]
    /\ UNCHANGED <<theirWorld, day>>

\* onVerified: a signature of the agent's checked out. The durable write may fail.
AgentSigns ==
    /\ \E kept \in {{"in process"}, {"in process", "durable"}} : keys' = keys \cup kept
    /\ UNCHANGED <<rows, pull, platform, day, call, made, torn>>

\* The agent's operator reports its key compromised since a past instant. A report about
\* a key of somebody else disputes nothing of this hire.
Report ==
    /\ Cardinality(reports) < MaxReports
    /\ \E since \in 0..day :
           reports' = reports \cup {[since |-> since, reportedAt |-> day]}
    /\ UNCHANGED <<row, receipt, review, world, call, torn>>

--------------------------------------------------------------------------------
(* The steps of a request.                                                      *)

To(c, step) == call' = [call EXCEPT ![c].at = step]
End(c) == call' = [call EXCEPT ![c] = None]

\* Loads the row.
Begin(c) ==
    /\ call[c] = None /\ made < MaxCalls
    /\ made' = made + 1
    /\ \E op \in Ops : call' = [call EXCEPT ![c] =
           [op |-> op, at |-> IF op = "review" THEN "act" ELSE "clocks",
            copy |-> row, merged |-> None, clean |-> TRUE]]
    /\ UNCHANGED <<rows, pull, keys, platform, day, torn>>

Resting == UNCHANGED <<rows, world, torn>>

WindowHasPassed(c) == call[c].copy = "submitted" /\ day > WindowDays
InsideWindow(at) == at <= WindowDays

\* The review window ended: GitHub is asked before the job is deemed. A deemed job is
\* looked up for its credential again. A merge request on a submitted job asks GitHub.
RunClocksOnce(c) ==
    /\ call[c] # None /\ call[c].at = "clocks"
    /\ To(c, IF WindowHasPassed(c) THEN "ask" ELSE "act")
    /\ Resting

RunClocks(c) ==
    /\ call[c] # None /\ call[c].at = "clocks"
    /\ CASE WindowHasPassed(c) -> To(c, "ask")
         [] call[c].copy = "deemed_completed" -> To(c, "lookup")
         [] OTHER -> To(c, "act")
    /\ Resting

MergeInstant == IF pull.mergedAt = None THEN day ELSE pull.mergedAt
Mergeable == pull.state = "merged" /\ pull.attested

\* askGithubBeforeDeeming. An answer that fails ends the request with 503.
DeemWhenUnanswered(c) ==
    /\ call[c] # None /\ call[c].at = "ask"
    /\ \/ To(c, "lookup")
       \/ /\ Mergeable /\ InsideWindow(MergeInstant)
          /\ call' = [call EXCEPT ![c].at = "name", ![c].merged = MergeInstant]
    /\ Resting

AskBeforeDeeming(c) ==
    /\ call[c] # None /\ call[c].at = "ask"
    /\ \/ End(c)
       \/ /\ Mergeable /\ InsideWindow(MergeInstant)
          /\ call' = [call EXCEPT ![c].at = "name", ![c].merged = MergeInstant]
       \/ /\ ~(Mergeable /\ InsideWindow(MergeInstant))
          /\ To(c, "lookup")
    /\ Resting

\* What the request came for, once its load has run the clocks. A read is done. A merge
\* asks GitHub about a submitted job and completes it when it is merged. A cited close
\* asks the gate and writes the row whole.
Merge(c) ==
    /\ call[c] # None /\ call[c].at = "act" /\ call[c].op = "merge"
    /\ \/ End(c)
       \/ /\ call[c].copy = "submitted" /\ Mergeable
          /\ call' = [call EXCEPT ![c].at = "name", ![c].merged = MergeInstant]
    /\ Resting

Read(c) ==
    /\ call[c] # None /\ call[c].at = "act" /\ call[c].op = "read"
    /\ End(c)
    /\ Resting

\* A row that ended since the request read it is ended again.
Write(c, status) ==
    /\ row' = status
    /\ torn' = (torn \/ row # call[c].copy)

CitedClose(c) ==
    /\ call[c] # None /\ call[c].at = "act" /\ call[c].op = "cite"
    /\ \/ Resting
       \/ /\ call[c].copy = "submitted"
          /\ Write(c, "cited_closed")
          /\ UNCHANGED <<receipt, review, reports, world>>
    /\ End(c)

\* agentKeyForCredential: the key seen on the agent's own requests, else the one the
\* platform derives for an agent it made. A key nobody can name ends in 503.
KeyCanBeNamed == keys # {} \/ platform.holdsKey

NameKey(c) ==
    /\ call[c] # None /\ call[c].at = "name"
    /\ \/ End(c)
       \/ KeyCanBeNamed /\ To(c, "complete")
    /\ Resting

Complete(c) ==
    /\ call[c] # None /\ call[c].at = "complete"
    /\ \/ End(c) /\ Resting
       \/ /\ Write(c, "completed")
          /\ To(c, "save")
          /\ UNCHANGED <<receipt, review, reports, world>>

\* platformIssuerFromEnv: without a seed every process signs with a key of its own.
Signer == IF platform.seeded THEN 0 ELSE platform.boot + 1

SavedHire(c) == [kind |-> "hire", mergedAt |-> call[c].merged, signer |-> Signer]
SavedDeemed == [kind |-> "deemed", mergedAt |-> None, signer |-> Signer]

\* The credential of a completed job: refused when the job has one.
SaveHireOver(c) ==
    /\ call[c] # None /\ call[c].at = "save"
    /\ receipt' = SavedHire(c)
    /\ End(c)
    /\ UNCHANGED <<row, review, reports, world, torn>>

SaveHire(c) ==
    /\ call[c] # None /\ call[c].at = "save"
    /\ \/ /\ receipt = None
          /\ receipt' = SavedHire(c)
          /\ UNCHANGED torn
       \/ torn' = TRUE /\ UNCHANGED receipt
    /\ End(c)
    /\ UNCHANGED <<row, review, reports, world>>

\* issueDeemedCompletionCredentialIfMissing: looked up, signed, saved, and no failure
\* of any of them stops the request.
AfterReceipt(c, clean) ==
    LET next == IF call[c].copy = "submitted" THEN "persist" ELSE "act"
    IN  call' = [call EXCEPT ![c].at = next, ![c].clean = @ /\ clean]

Lookup(c) ==
    /\ call[c] # None /\ call[c].at = "lookup"
    /\ \/ receipt = None /\ To(c, "issue")
       \/ receipt # None /\ AfterReceipt(c, TRUE)
       \/ AfterReceipt(c, FALSE)
    /\ Resting

IssueDeemed(c) ==
    /\ call[c] # None /\ call[c].at = "issue"
    /\ \/ receipt = None /\ receipt' = SavedDeemed /\ AfterReceipt(c, TRUE)
       \/ receipt # None /\ UNCHANGED receipt /\ AfterReceipt(c, TRUE)
       \/ UNCHANGED receipt /\ AfterReceipt(c, FALSE)
    /\ UNCHANGED <<row, review, reports, world, torn>>

\* The deemed row; a failed write is logged. What follows sees the job deemed.
PersistDeemed(c) ==
    /\ call[c] # None /\ call[c].at = "persist"
    /\ \/ Write(c, "deemed_completed")
       \/ torn' = TRUE /\ UNCHANGED row
    /\ call' = [call EXCEPT ![c].at = "act", ![c].copy = "deemed_completed"]
    /\ UNCHANGED <<receipt, review, reports, world>>

\* POST /jobs/:jobId/reviews by the buyer: eligible by the row it read, kept once.
ReviewAnyEnding(c) ==
    /\ call[c] # None /\ call[c].at = "act" /\ call[c].op = "review"
    /\ \/ UNCHANGED review
       \/ call[c].copy # "submitted" /\ review = None /\ review' = "review"
    /\ End(c)
    /\ UNCHANGED <<row, receipt, reports, world, torn>>

SaveReview(c) ==
    /\ call[c] # None /\ call[c].at = "act" /\ call[c].op = "review"
    /\ \/ UNCHANGED review
       \/ call[c].copy = "completed" /\ review = None /\ review' = "review"
    /\ End(c)
    /\ UNCHANGED <<row, receipt, reports, world, torn>>

\* The process dies: what is in flight and the keys it remembers are gone.
Halfway(c) == call[c] # None /\ call[c].at \in {"save", "persist"}

Restart ==
    /\ platform.boot < 1
    /\ platform' = [platform EXCEPT !.boot = @ + 1]
    /\ keys' = keys \ {"in process"}
    /\ call' = [c \in Calls |-> None]
    /\ torn' = (torn \/ \E c \in Calls : Halfway(c))
    /\ UNCHANGED <<rows, pull, day, made>>

Next ==
    \/ Tick
    \/ BuyerMerges
    \/ PullCloses
    \/ HeadMoves
    \/ AgentSigns
    \/ Report
    \/ \E c \in Calls : Begin(c)
    \/ \E c \in Calls : RunClocks(c)
    \/ \E c \in Calls : AskBeforeDeeming(c)
    \/ \E c \in Calls : Merge(c)
    \/ \E c \in Calls : Read(c)
    \/ \E c \in Calls : CitedClose(c)
    \/ \E c \in Calls : NameKey(c)
    \/ \E c \in Calls : Complete(c)
    \/ \E c \in Calls : SaveHire(c)
    \/ \E c \in Calls : Lookup(c)
    \/ \E c \in Calls : IssueDeemed(c)
    \/ \E c \in Calls : PersistDeemed(c)
    \/ \E c \in Calls : SaveReview(c)
    \/ Restart

Spec == Init /\ [][Next]_vars

--------------------------------------------------------------------------------
MergedInside == Mergeable /\ pull.mergedAt # None /\ InsideWindow(pull.mergedAt)

\* A credential says what GitHub says, whatever overlapped or died: a hire was merged at
\* the attested commit on the day it names, a deemed hire was not merged inside its
\* window; and it is signed by the issuer the platform describes, unless that one runs
\* without a seed and was restarted.
ReceiptTellsTheTruth == receipt # None =>
    /\ receipt.kind = "hire" => Mergeable /\ pull.mergedAt \in {None, receipt.mergedAt}
    /\ receipt.kind = "deemed" => ~MergedInside
    /\ receipt.signer = Signer \/ (~platform.seeded /\ platform.boot > 0)

\* When nothing is in flight, the row, the credential and the review tell one outcome,
\* unless a row was ended twice by overlapping requests or a pair of writes was cut in two.
OneOutcome == (\A c \in Calls : call[c] = None) /\ ~torn =>
    /\ row = "completed" <=> receipt # None /\ receipt.kind = "hire"
    /\ receipt # None /\ receipt.kind = "deemed" => row = "deemed_completed"
    /\ review # None => row = "completed"

\* The receipt of a hire is true, and agrees with the other rows once they are written.
HonestOutcome == ReceiptTellsTheTruth /\ OneOutcome

\* A request that loads a deemed job and meets no failure leaves it with its credential,
\* whatever was lost before.
DeemedLoadHeals == \A c \in Calls :
    call[c] # None /\ call[c].at = "act" /\ call[c].copy = "deemed_completed" /\ call[c].clean
        => call[c].op = "review" \/ receipt # None

\* disputedBy: the reports about the key that signed whose window, closed at
\* both ends, holds the instant of the merge.
DisputedBy(r) ==
    {x \in reports : x.since <= r.mergedAt /\ r.mergedAt <= x.reportedAt}

Disputed == receipt # None /\ receipt.kind = "hire" /\ DisputedBy(receipt) # {}

\* Work once shown as disputed is shown so for ever, whatever is filed, completed again
\* or restarted later.
DisputeKept == Disputed => Disputed'
DisputesStand == [][DisputeKept]_vars
================================================================================
