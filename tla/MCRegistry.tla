------------------------------ MODULE MCRegistry --------------------------------
(* The front door, for TLC, in two scenes that share nothing: a login, the DID     *)
(* derived of it, a wallet's DID and an agent whose key the platform holds; and    *)
(* two callers of a class with an allowance of two, one with an allowance of       *)
(* nothing, and a page nobody counts.                                              *)
EXTENDS Registry, Integers, TLC

CONSTANTS l1, l2, p1, p2, w1, g1, Callers, Window, Second, MaxNow

VARIABLES scene, now, buckets, log, due

MCDerived == [login \in Logins |-> IF login = l1 THEN p1 ELSE p2]

Asked ==
    {[path |-> "other", listed |-> "read", wantsPage |-> FALSE],
     [path |-> "shell", listed |-> "read", wantsPage |-> TRUE],
     [path |-> "pay", listed |-> None, wantsPage |-> FALSE]}

Allowances == [class \in {"upstream", "write", "read", "verify"} |-> IF class = "read" THEN 2 ELSE 0]

Limited == INSTANCE RateLimits WITH Requests <- Asked, Limits <- Allowances

LimitedVars == <<now, buckets, log, due>>

NobodyAsks == now = None /\ buckets = None /\ log = None /\ due = None

\* No row from before.
Empty == \A d \in Dids : ~accounts[d].exists

DoorInit ==
    \/ scene = "registry" /\ Init /\ NobodyAsks
    \/ scene = "limits" /\ Init /\ Empty /\ Limited!Init

In == scene = "registry" /\ UNCHANGED <<scene, LimitedVars>>
Asking == scene = "limits" /\ UNCHANGED <<scene, vars>>

DoorNext ==
    \/ \E d \in Dids, login \in Logins : In /\ Publish(d, login)
    \/ \E gist \in gists : In /\ DeleteGist(gist)
    \/ \E v \in Visits, login \in Logins : In /\ FindAccount(v, login)
    \/ \E v \in Visits : In /\ Provision(v)
    \/ \E v \in Visits : In /\ Promote(v)
    \/ \E v \in Visits : In /\ ReRead(v)
    \/ \E v \in Visits : In /\ VisitFails(v)
    \/ \E d \in Dids, login \in Logins \cup {None} : In /\ StartRegistration(d, login)
    \/ In /\ ProveRegistration
    \/ In /\ Register
    \/ \E d, operator \in Dids, session, handle \in Logins \cup {None} :
           In /\ StartDelegation(d, operator, session, handle)
    \/ In /\ CreateAgent
    \/ In /\ BindOwn
    \/ \E c \in Checks, d \in Dids, login \in Logins : In /\ StartGistProof(c, d, login)
    \/ \E c \in Checks, d \in Dids, login \in Logins : In /\ StartClick(c, d, login)
    \/ \E c \in Checks : In /\ ReadGist(c)
    \/ \E c \in Checks : In /\ WriteLoss(c)
    \/ \E c \in Checks : In /\ WriteProof(c)
    \/ \E c \in Checks : In /\ CreateGist(c)
    \/ \E c \in Checks : In /\ CheckPublished(c)
    \/ \E caller \in Callers, request \in Asked : Asking /\ Limited!Ask(caller, request)
    \/ Asking /\ Limited!Tick
    \/ Asking /\ Limited!Restart

DoorSpec == DoorInit /\ [][DoorNext]_<<scene, vars, LimitedVars>>

VisitSymmetry == Permutations(Visits)

\* The requests under way at once: three of the five there may be.
UnderWay ==
    Cardinality({v \in Visits : visits[v].at \notin {"idle", "failed"}})
    + (IF registering.at = "idle" THEN 0 ELSE 1)
    + (IF delegating.at = "idle" THEN 0 ELSE 1)
    + Cardinality({c \in Checks : checks[c].at # "idle"})

ThreeAtOnce == UnderWay <= 3

\* The limit holds everybody to its own allowance (RateLimits).
LimitsAreFair == scene = "limits" => Limited!LimitsAreFair
================================================================================
