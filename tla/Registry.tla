------------------------------- MODULE Registry --------------------------------
(* Who is who: accounts, the agents they operate, and the GitHub logins both are  *)
(* bound to. A sign-in finds or makes an account, POST /accounts registers one by *)
(* hand, POST /agents delegates an agent, and an agent's login is proved by the   *)
(* owner's own session or by a public gist. Every check here reads one table      *)
(* before it writes another, and the requests run side by side.                   *)
(* Passkey subjects are left out: they are names the server makes, in a unique    *)
(* column of their own that no migration and no gist touches.                     *)
EXTENDS FiniteSets

CONSTANTS Logins,         \* GitHub accounts
          Dids,
          DerivedDid,     \* createOperatorDid: the DID the platform derives from each login
          PlatformAgents, \* DIDs createAgentDid makes up, whose keys the platform holds
          Visits,         \* requests of a session that look for its account
          Checks,         \* requests that prove an agent's login
          None

ASSUME RegistryAssumption ==
    /\ DerivedDid \in [Logins -> Dids \ PlatformAgents]
    /\ \A one, other \in Logins : DerivedDid[one] = DerivedDid[other] => one = other
    /\ PlatformAgents \subseteq Dids
    /\ None \notin Logins \cup Dids

VARIABLES accounts,     \* Account rows: the proved login, the login as once typed
          agents,       \* Agent rows: operator, login and whether it is proved
          gists,        \* statements that stand on GitHub, signed by the DID's own key
          visits,       \* provisionAccountForSession, per request
          registering,  \* the POST /accounts under way
          delegating,   \* the POST /agents under way
          checks,       \* account-proof and one-click proof requests
          vouched,      \* history: what GitHub or a session has shown
          overlapped    \* history: DIDs claimed from both sides at once

vars == <<accounts, agents, gists, visits, registering, delegating, checks, vouched,
          overlapped>>

Account == [exists : BOOLEAN, login : Logins \cup {None}, unproved : Logins \cup {None}]
Agent == [operator : Dids \cup {None}, handle : Logins \cup {None}, verified : BOOLEAN]
NoAgent == [operator |-> None, handle |-> None, verified |-> FALSE]
NotRegistering == [at |-> "idle", did |-> None, login |-> None]

IsAccount(d) == accounts[d].exists
IsAgent(d) == agents[d].operator # None
Holders(login) == {d \in Dids : accounts[d].login = login}

\* A derived DID is known to nobody before the platform has registered it.
Derived == {DerivedDid[login] : login \in Logins}
Known(d) == d \in Derived => IsAccount(d)

TypeOK ==
    /\ accounts \in [Dids -> Account]
    /\ agents \in [Dids -> Agent]
    /\ gists \subseteq Dids \X Logins
    /\ visits \in [Visits -> [login : Logins \cup {None},
                              at : {"idle", "register", "promote", "reread", "failed"}]]
    /\ registering \in [at : {"idle", "prove", "register"}, did : Dids \cup {None},
                        login : Logins \cup {None}]
    /\ delegating \in [at : {"idle", "create", "bind"}, did : Dids \cup {None},
                       operator : Dids \cup {None}, login : Logins \cup {None},
                       own : BOOLEAN]
    /\ checks \in [Checks -> [at : {"idle", "gist", "publish", "published", "proved",
                                    "lost"},
                              did : Dids \cup {None}, handle : Logins \cup {None},
                              wasVerified : BOOLEAN]]
    /\ vouched \subseteq Dids \X Logins
    /\ overlapped \subseteq Dids

NoDelegation == [at |-> "idle", did |-> None, operator |-> None, login |-> None,
                  own |-> FALSE]
NoCheck == [at |-> "idle", did |-> None, handle |-> None, wasVerified |-> FALSE]
NoVisit == [login |-> None, at |-> "idle"]

Legacy(typed, plain) ==
    [d \in Dids |->
        [exists |-> d \in plain \/ \E login \in Logins : typed[login] = d,
         login |-> None,
         unproved |-> IF \E login \in Logins : typed[login] = d
                      THEN CHOOSE login \in Logins : typed[login] = d ELSE None]]

\* Rows from before logins needed proof hold theirs as typed text: unique then, and a
\* derived DID's row holds the login it was derived from. Some rows hold none.
Init ==
    /\ \E typed \in [Logins -> (Dids \ PlatformAgents) \cup {None}],
          plain \in SUBSET (Dids \ (PlatformAgents \cup Derived)) :
           /\ \A login \in Logins :
                 /\ typed[login] \in Derived => typed[login] = DerivedDid[login]
                 /\ \A other \in Logins \ {login} :
                       typed[login] # None => typed[login] # typed[other]
           /\ accounts = Legacy(typed, plain)
    /\ agents = [d \in Dids |-> NoAgent]
    /\ gists = {}
    /\ visits = [v \in Visits |-> NoVisit]
    /\ registering = NotRegistering
    /\ delegating = NoDelegation
    /\ checks = [c \in Checks |-> NoCheck]
    /\ vouched = {}
    /\ overlapped = {}

--------------------------------------------------------------------------------
(* GitHub.                                                                      *)

\* Whoever holds the DID's key publishes a statement from their GitHub account, or
\* deletes one.
Publish(d, login) ==
    /\ d \in Dids \ (PlatformAgents \cup Derived)
    /\ gists' = gists \cup {<<d, login>>}
    /\ UNCHANGED <<accounts, agents, visits, registering, delegating, checks, vouched,
                   overlapped>>

DeleteGist(gist) ==
    /\ gists' = gists \ {gist}
    /\ UNCHANGED <<accounts, agents, visits, registering, delegating, checks, vouched,
                   overlapped>>

--------------------------------------------------------------------------------
(* Accounts.                                                                    *)

\* register: did, login and passkey subject are unique, NULL aside.
CanRegister(d, login) == ~IsAccount(d) /\ (login = None \/ Holders(login) = {})

Registered(d, login) ==
    accounts' = [accounts EXCEPT ![d] = [exists |-> TRUE, login |-> login, unproved |-> None]]

\* resolveActingParty: a GitHub session whose login no row holds goes on to make one.
FindAccount(v, login) ==
    /\ visits[v].at \in {"idle", "failed"}
    /\ Holders(login) = {}
    /\ visits' = [visits EXCEPT ![v] = [login |-> login, at |-> "register"]]
    /\ vouched' = vouched \cup {<<DerivedDid[login], login>>}
    /\ UNCHANGED <<accounts, agents, gists, registering, delegating, checks, overlapped>>

To(v, at) == visits' = [visits EXCEPT ![v].at = at]
Answered(v) == visits' = [visits EXCEPT ![v] = NoVisit]

Provision(v) ==
    LET login == visits[v].login  did == DerivedDid[login] IN
    /\ visits[v].at = "register"
    /\ IF CanRegister(did, login) THEN Registered(did, login) /\ Answered(v)
       ELSE To(v, "promote") /\ UNCHANGED accounts
    /\ UNCHANGED <<agents, gists, registering, delegating, checks, vouched, overlapped>>

PromoteAnyRow(v) ==
    LET login == visits[v].login  did == DerivedDid[login] IN
    /\ visits[v].at = "promote"
    /\ IF accounts[did].login = None
       THEN /\ accounts' = [accounts EXCEPT ![did].login = login, ![did].unproved = None]
            /\ Answered(v)
       ELSE To(v, "reread") /\ UNCHANGED accounts
    /\ UNCHANGED <<agents, gists, registering, delegating, checks, vouched, overlapped>>

PromoteNever(v) ==
    /\ visits[v].at = "promote"
    /\ To(v, "reread")
    /\ UNCHANGED <<accounts, agents, gists, registering, delegating, checks, vouched,
                   overlapped>>

\* promoteUnprovedGithubLogin: the row of the derived DID holds the login as typed text.
\* A login some other row has proved meanwhile breaks the unique column: a 503.
Promote(v) ==
    LET login == visits[v].login  did == DerivedDid[login] IN
    /\ visits[v].at = "promote"
    /\ CASE accounts[did].login # None \/ accounts[did].unproved # login ->
              To(v, "reread") /\ UNCHANGED accounts
         [] accounts[did].login = None /\ accounts[did].unproved = login /\ Holders(login) # {} ->
              To(v, "failed") /\ UNCHANGED accounts
         [] OTHER ->
              /\ accounts' = [accounts EXCEPT ![did].login = login, ![did].unproved = None]
              /\ Answered(v)
    /\ UNCHANGED <<agents, gists, registering, delegating, checks, vouched, overlapped>>

ReRead(v) ==
    /\ visits[v].at = "reread"
    /\ IF Holders(visits[v].login) = {} THEN To(v, "failed") ELSE Answered(v)
    /\ UNCHANGED <<accounts, agents, gists, registering, delegating, checks, vouched,
                   overlapped>>

\* The database fails a request of a session between two of its calls.
VisitFails(v) ==
    /\ visits[v].at \in {"register", "promote", "reread"}
    /\ Answered(v)
    /\ UNCHANGED <<accounts, agents, gists, registering, delegating, checks, vouched,
                   overlapped>>

Overlaps(d, under_way) ==
    overlapped' = IF under_way THEN overlapped \cup {d} ELSE overlapped

\* POST /accounts, up to asking whether an agent has the DID.
StartRegistration(d, login) ==
    /\ registering.at = "idle"
    /\ Known(d) /\ ~IsAgent(d)
    /\ registering' = [at |-> IF login = None THEN "register" ELSE "prove",
                       did |-> d, login |-> login]
    /\ Overlaps(d, delegating.at = "create" /\ delegating.did = d)
    /\ UNCHANGED <<accounts, agents, gists, visits, delegating, checks, vouched>>

RegistrationEnds == registering' = NotRegistering

\* checkSignedGist, then the holder of the login.
ProveRegistration ==
    LET claim == <<registering.did, registering.login>> IN
    /\ registering.at = "prove"
    /\ \/ /\ claim \in gists
          /\ Holders(registering.login) \subseteq {registering.did}
          /\ registering' = [registering EXCEPT !.at = "register"]
          /\ vouched' = vouched \cup {claim}
       \/ RegistrationEnds /\ UNCHANGED vouched
    /\ UNCHANGED <<accounts, agents, gists, visits, delegating, checks, overlapped>>

Register ==
    /\ registering.at = "register"
    /\ \/ CanRegister(registering.did, registering.login)
          /\ Registered(registering.did, registering.login)
       \/ UNCHANGED accounts
    /\ RegistrationEnds
    /\ UNCHANGED <<agents, gists, visits, delegating, checks, vouched, overlapped>>

--------------------------------------------------------------------------------
(* Agents.                                                                      *)

DelegableUnasked(d) == Known(d)
Delegable(d) == Known(d) /\ ~IsAccount(d)

\* POST /agents, up to asking whether an account has the DID: by an account's session or
\* signature, for a DID of the wallet's own or, from a session whose account's DID the
\* platform derived, for one the platform makes up.
StartDelegation(d, operator, session, handle) ==
    /\ delegating.at = "idle"
    /\ Delegable(d)
    /\ IsAccount(operator)
    /\ session # None => accounts[operator].login = session
    /\ d \in PlatformAgents =>
           ~IsAgent(d) /\ session # None /\ DerivedDid[session] = operator
    /\ delegating' = [at |-> "create", did |-> d, operator |-> operator, login |-> handle,
                      own |-> handle # None /\ handle = session]
    /\ Overlaps(d, registering.at # "idle" /\ registering.did = d)
    /\ UNCHANGED <<accounts, agents, gists, visits, registering, checks, vouched>>

CreateAgent ==
    LET d == delegating.did IN
    /\ delegating.at = "create"
    /\ \/ /\ ~IsAgent(d)
          /\ agents' = [agents EXCEPT ![d] = [operator |-> delegating.operator,
                                              handle |-> delegating.login,
                                              verified |-> FALSE]]
          /\ delegating' = IF delegating.own THEN [delegating EXCEPT !.at = "bind"]
                           ELSE NoDelegation
       \/ UNCHANGED agents /\ delegating' = NoDelegation
    /\ UNCHANGED <<accounts, gists, visits, registering, checks, vouched, overlapped>>

Bound(d, handle, verified) ==
    agents' = [agents EXCEPT ![d].handle = handle, ![d].verified = verified]

\* The owner's own session names the login it signed in with: verified at once.
BindOwn ==
    /\ delegating.at = "bind"
    /\ \/ /\ Bound(delegating.did, delegating.login, TRUE)
          /\ vouched' = vouched \cup {<<delegating.did, delegating.login>>}
       \/ UNCHANGED <<agents, vouched>>
    /\ delegating' = NoDelegation
    /\ UNCHANGED <<accounts, gists, visits, registering, checks, overlapped>>

--------------------------------------------------------------------------------
(* Proofs of an agent's login.                                                  *)

CheckTo(c, at) == checks' = [checks EXCEPT ![c].at = at]
CheckEnds(c) == checks' = [checks EXCEPT ![c] = NoCheck]

\* POST /agents/:agentDid/account-proof, up to reading the agent.
StartGistProof(c, d, handle) ==
    /\ checks[c].at = "idle" /\ IsAgent(d)
    /\ checks' = [checks EXCEPT ![c] = [at |-> "gist", did |-> d, handle |-> handle,
                                         wasVerified |-> agents[d].verified]]
    /\ UNCHANGED <<accounts, agents, gists, visits, registering, delegating, vouched,
                   overlapped>>

\* checkSignedGist, of the one gist the request names. That one may be gone while another
\* says the same, and the agent then loses what it had when it was read; a gist that does
\* not check out, or a GitHub that does not answer, leaves it.
ReadGist(c) ==
    LET claim == <<checks[c].did, checks[c].handle>> IN
    /\ checks[c].at = "gist"
    /\ \/ claim \in gists /\ CheckTo(c, "proved") /\ vouched' = vouched \cup {claim}
       \/ checks[c].wasVerified /\ CheckTo(c, "lost")
          /\ UNCHANGED vouched
       \/ CheckEnds(c) /\ UNCHANGED vouched
    /\ UNCHANGED <<accounts, agents, gists, visits, registering, delegating, overlapped>>

WriteLoss(c) ==
    /\ checks[c].at = "lost"
    /\ Bound(checks[c].did, checks[c].handle, FALSE) \/ UNCHANGED agents
    /\ CheckEnds(c)
    /\ UNCHANGED <<accounts, gists, visits, registering, delegating, vouched, overlapped>>

WriteProof(c) ==
    /\ checks[c].at = "proved"
    /\ Bound(checks[c].did, checks[c].handle, TRUE) \/ UNCHANGED agents
    /\ CheckEnds(c)
    /\ UNCHANGED <<accounts, gists, visits, registering, delegating, vouched, overlapped>>

\* The one-click proof, back from GitHub with the login that allowed it: its agent is read
\* again and its statement signed with the key the platform holds.
StartClick(c, d, login) ==
    /\ checks[c].at = "idle"
    /\ d \in PlatformAgents /\ IsAgent(d)
    /\ checks' = [checks EXCEPT ![c] = [at |-> "publish", did |-> d, handle |-> login,
                                         wasVerified |-> agents[d].verified]]
    /\ UNCHANGED <<accounts, agents, gists, visits, registering, delegating, vouched,
                   overlapped>>

CreateGist(c) ==
    /\ checks[c].at = "publish"
    /\ \/ gists' = gists \cup {<<checks[c].did, checks[c].handle>>} /\ CheckTo(c, "published")
       \/ CheckEnds(c) /\ UNCHANGED gists
    /\ UNCHANGED <<accounts, agents, visits, registering, delegating, vouched, overlapped>>

BelievePublished(c) ==
    /\ checks[c].at = "published"
    /\ CheckTo(c, "proved")
    /\ UNCHANGED <<accounts, agents, gists, visits, registering, delegating, vouched,
                   overlapped>>

\* It is read back like any other; one that does not check out is deleted, if GitHub lets it.
CheckPublished(c) ==
    LET claim == <<checks[c].did, checks[c].handle>> IN
    /\ checks[c].at = "published"
    /\ \/ /\ claim \in gists
          /\ CheckTo(c, "proved")
          /\ vouched' = vouched \cup {claim}
          /\ UNCHANGED gists
       \/ /\ gists' \in {gists, gists \ {claim}}
          /\ CheckEnds(c)
          /\ UNCHANGED vouched
    /\ UNCHANGED <<accounts, agents, visits, registering, delegating, overlapped>>

Next ==
    \/ \E d \in Dids, login \in Logins : Publish(d, login)
    \/ \E gist \in gists : DeleteGist(gist)
    \/ \E v \in Visits :
           \/ \E login \in Logins : FindAccount(v, login)
           \/ Provision(v) \/ Promote(v) \/ ReRead(v) \/ VisitFails(v)
    \/ \E d \in Dids, login \in Logins \cup {None} : StartRegistration(d, login)
    \/ ProveRegistration \/ Register
    \/ \E d, operator \in Dids, session, handle \in Logins \cup {None} :
           StartDelegation(d, operator, session, handle)
    \/ CreateAgent \/ BindOwn
    \/ \E c \in Checks :
           \/ \E d \in Dids, login \in Logins : StartGistProof(c, d, login) \/ StartClick(c, d, login)
           \/ ReadGist(c) \/ WriteLoss(c) \/ WriteProof(c) \/ CreateGist(c) \/ CheckPublished(c)

Spec == Init /\ [][Next]_vars

--------------------------------------------------------------------------------
(* Properties.                                                                  *)

\* No login stands on a row, an account's or a verified agent's, that GitHub was not seen
\* to vouch for with that very DID: by a session, or by a gist that stood when it was read.
BindingsAreProved ==
    \A d \in Dids :
        /\ accounts[d].login # None => <<d, accounts[d].login>> \in vouched
        /\ agents[d].verified => <<d, agents[d].handle>> \in vouched

\* A login that once leads to an account leads to that account ever after, so nobody's
\* jobs move to another row: sign-ins, the migration's rows and gists included.
LoginsStay ==
    \A login \in Logins :
        Holders(login) # {} =>
            Cardinality(Holders(login)) = 1 /\ Holders(login)' = Holders(login)
StableIdentity == [][LoginsStay]_vars

\* A session is turned away, its storage well, only while its login has an account the next
\* request finds: provisionAccountForSession's own "a row must exist now".
SessionResolves ==
    \A v \in Visits : visits[v].at = "failed" => Holders(visits[v].login) # {}

\* A DID is an account or an agent, unless both sides claimed it at the same time: each
\* route asks the other table before it writes its own.
IdentityClaimedOnce ==
    \A d \in Dids : IsAccount(d) /\ IsAgent(d) => d \in overlapped

\* A row is its owner's: its login was proved for it, and its DID claimed once.
RowsAreOwned == BindingsAreProved /\ IdentityClaimedOnce
================================================================================
