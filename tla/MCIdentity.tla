----------------------------- MODULE MCIdentity --------------------------------
(* Who somebody is and what the platform signs, for TLC, in two scenes that      *)
(* share nothing: sign-in from two browsers, by OAuth, passkey and signed        *)
(* request; and the receipt of one hire, whose window ends on the first day,     *)
(* with two requests in flight.                                                  *)
EXTENDS SignIn, TLC

CONSTANTS Calls, MaxDay, MaxCalls, MaxReports, WindowDays

VARIABLES scene,
          row, receipt, review, reports, pull, keys, platform, day, call, made, torn

Signed == INSTANCE Receipts

\* The bounds are numbers, and no row is null.
ASSUME ReceiptsAssumption ==
    /\ MaxDay \in Nat /\ WindowDays \in Nat /\ MaxCalls \in Nat
    /\ None \notin Signed!InFlight /\ None # "review"
    /\ None \notin [kind : {"hire", "deemed"}, mergedAt : Signed!Days \cup {None}, signer : Nat]

SignedVars == <<row, receipt, review, reports, pull, keys, platform, day, call, made, torn>>

NothingSigned ==
    /\ row = None /\ receipt = None /\ review = None /\ reports = None /\ pull = None
    /\ keys = None /\ platform = None /\ day = None /\ call = None /\ made = None /\ torn = None

IdentityInit ==
    \/ scene = "sign-in" /\ Init /\ NothingSigned
    \/ scene = "receipts" /\ Init /\ Signed!Init

In == scene = "sign-in" /\ UNCHANGED <<scene, SignedVars>>
Receipted == scene = "receipts" /\ UNCHANGED <<scene, vars>>

IdentityNext ==
    \/ \E b \in Browsers, s \in States : In /\ BeginSignIn(b, s)
    \/ \E b \in Browsers, s \in States : In /\ BeginProof(b, s)
    \/ \E b \in Browsers, s \in States : In /\ Declined(b, s)
    \/ \E b \in Browsers, s \in States : In /\ Callback(b, s)
    \/ \E s \in States : In /\ StateAges(s)
    \/ \E x \in exchanges : In /\ ExchangeFails(x)
    \/ \E x \in exchanges, login \in Logins : In /\ Exchanged(x, login)
    \/ \E x \in sessions : In /\ EndSession(x)
    \/ \E c \in Challenges, p \in Passkeys : In /\ RegisterPasskey(c, p)
    \/ \E c \in Challenges : In /\ BeginPasskeySignIn(c)
    \/ \E c \in Challenges : In /\ ChallengeAges(c)
    \/ \E b \in Browsers, c \in Challenges : In /\ VerifyPasskey(b, c)
    \/ \E b \in Browsers, c \in Challenges : In /\ PasskeySignIn(b, c)
    \/ \E v \in saving : In /\ SavePasskey(v)
    \/ \E g \in Signatures : In /\ Ages(g)
    \/ \E r \in Requests, g \in Signatures : In /\ Present(r, g)
    \/ \E r \in Requests : In /\ RecordSpent(r)
    \/ In /\ Crash
    \/ Receipted /\ Signed!Tick
    \/ Receipted /\ Signed!BuyerMerges
    \/ Receipted /\ Signed!PullCloses
    \/ Receipted /\ Signed!HeadMoves
    \/ Receipted /\ Signed!AgentSigns
    \/ Receipted /\ Signed!Report
    \/ \E c \in Calls : Receipted /\ Signed!Begin(c)
    \/ \E c \in Calls : Receipted /\ Signed!RunClocks(c)
    \/ \E c \in Calls : Receipted /\ Signed!AskBeforeDeeming(c)
    \/ \E c \in Calls : Receipted /\ Signed!Merge(c)
    \/ \E c \in Calls : Receipted /\ Signed!Read(c)
    \/ \E c \in Calls : Receipted /\ Signed!CitedClose(c)
    \/ \E c \in Calls : Receipted /\ Signed!NameKey(c)
    \/ \E c \in Calls : Receipted /\ Signed!Complete(c)
    \/ \E c \in Calls : Receipted /\ Signed!SaveHire(c)
    \/ \E c \in Calls : Receipted /\ Signed!Lookup(c)
    \/ \E c \in Calls : Receipted /\ Signed!IssueDeemed(c)
    \/ \E c \in Calls : Receipted /\ Signed!PersistDeemed(c)
    \/ \E c \in Calls : Receipted /\ Signed!SaveReview(c)
    \/ Receipted /\ Signed!Restart

IdentitySpec == IdentityInit /\ [][IdentityNext]_<<scene, vars, SignedVars>>

IdentitySymmetry == Permutations(States) \cup Permutations(Calls)

\* The receipt of a hire is true and agrees with the other rows (Receipts).
HonestOutcome == scene = "receipts" => Signed!HonestOutcome

\* A load of a deemed job that meets no failure leaves it with its receipt (Receipts).
DeemedLoadHeals == scene = "receipts" => Signed!DeemedLoadHeals

\* Work once shown as disputed is shown so for ever (Receipts).
DisputesStand == [][scene = "receipts" => Signed!DisputeKept]_SignedVars
================================================================================
