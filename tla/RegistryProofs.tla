---------------------------- MODULE RegistryProofs ------------------------------
(* A row is its owner's and a login leads to one account for good, for any number  *)
(* of logins, DIDs, visits and checks.                                             *)
EXTENDS Registry, FiniteSetTheorems, TLAPS

--------------------------------------------------------------------------------
(* The inductive invariant. Requests read one table and write another, so what one *)
(* has read must stay true until it writes: a row that exists goes on existing, a   *)
(* login that stands stays, what was vouched for stays vouched for. What may stop   *)
(* being true while a request waits, that nobody else claims its DID, is on record  *)
(* in the history of overlaps.                                                      *)

\* The row of a derived DID is that login's alone, proved or as it was once typed.
DerivedRows ==
    \A login \in Logins :
        LET derived == accounts[DerivedDid[login]] IN
        /\ derived.login \in {None, login}
        /\ derived.unproved \in {None, login}
        /\ derived.exists => derived.login = login \/ derived.unproved = login

\* A login stands on one row, and only on a row.
OneRow ==
    /\ \A d, e \in Dids :
           accounts[d].login # None /\ accounts[d].login = accounts[e].login => d = e
    /\ \A d \in Dids :
           ~accounts[d].exists => accounts[d].login = None /\ accounts[d].unproved = None

\* A visit goes from one answer of the storage to the next, and each still holds.
Visiting ==
    \A v \in Visits :
        LET login == visits[v].login IN
        visits[v].at # "idle" =>
            /\ login \in Logins
            /\ <<DerivedDid[login], login>> \in vouched
            /\ visits[v].at = "promote" => IsAccount(DerivedDid[login]) \/ Holders(login) # {}
            /\ visits[v].at \in {"reread", "failed"} => Holders(login) # {}

Registering ==
    LET d == registering.did IN
    registering.at # "idle" =>
        /\ d \in Dids
        /\ Known(d)
        /\ registering.at = "prove" => registering.login \in Logins
        /\ registering.at = "register" /\ registering.login # None =>
               <<d, registering.login>> \in vouched
        /\ IsAgent(d) => d \in overlapped
        /\ delegating.at = "create" /\ delegating.did = d => d \in overlapped

Delegating ==
    LET d == delegating.did IN
    delegating.at # "idle" =>
        /\ d \in Dids \ Derived
        /\ delegating.operator \in Dids
        /\ delegating.own \/ delegating.at = "bind" => delegating.login \in Logins
        /\ delegating.at = "create" /\ IsAccount(d) => d \in overlapped

Checking ==
    \A c \in Checks : checks[c].at # "idle" =>
        /\ checks[c].did \in Dids /\ checks[c].handle \in Logins
        /\ checks[c].at = "proved" => <<checks[c].did, checks[c].handle>> \in vouched

\* Nobody delegates a DID the platform derives.
Claims == IdentityClaimedOnce /\ \A d \in Derived : ~IsAgent(d)

IInv ==
    /\ TypeOK /\ DerivedRows /\ OneRow /\ BindingsAreProved /\ Claims
    /\ Visiting /\ Registering /\ Delegating /\ Checking

--------------------------------------------------------------------------------
(* What a step keeps.                                                           *)

\* No row goes away, and no login leaves its row.
RowsStay ==
    \A d \in Dids :
        /\ accounts[d].exists => accounts'[d].exists
        /\ accounts[d].login # None => accounts'[d].login = accounts[d].login

LEMMA HeldStaysHeld ==
    ASSUME RowsStay, NEW login \in Logins, Holders(login) # {}
    PROVE  Holders(login)' # {}
<1>1. PICK d \in Dids : accounts[d].login = login
  BY DEF Holders
<1>2. accounts'[d].login = login
  BY <1>1, RegistryAssumption DEF RowsStay
<1> QED
  BY <1>2 DEF Holders

LEMMA VisitingKept ==
    ASSUME Visiting, RowsStay, vouched \subseteq vouched', UNCHANGED visits
    PROVE  Visiting'
<1> SUFFICES ASSUME NEW v \in Visits, visits[v].at # "idle"
             PROVE  LET login == visits[v].login IN
                    /\ login \in Logins
                    /\ <<DerivedDid[login], login>> \in vouched'
                    /\ visits[v].at = "promote" =>
                           accounts'[DerivedDid[login]].exists \/ Holders(login)' # {}
                    /\ visits[v].at \in {"reread", "failed"} => Holders(login)' # {}
  BY DEF Visiting, IsAccount
<1> DEFINE login == visits[v].login
<1>1. /\ login \in Logins /\ <<DerivedDid[login], login>> \in vouched
      /\ visits[v].at = "promote" => IsAccount(DerivedDid[login]) \/ Holders(login) # {}
      /\ visits[v].at \in {"reread", "failed"} => Holders(login) # {}
  BY DEF Visiting
<1>2. Holders(login) # {} => Holders(login)' # {}
  BY <1>1, HeldStaysHeld
<1>3. DerivedDid[login] \in Dids
  BY <1>1, RegistryAssumption
<1> QED
  BY <1>1, <1>2, <1>3 DEF RowsStay, IsAccount

\* The requests under way that a step leaves alone, when rows only grow and agents do not.
LEMMA RegisteringKept ==
    ASSUME Registering, RowsStay, UNCHANGED <<agents, registering, delegating>>,
           vouched \subseteq vouched', overlapped \subseteq overlapped'
    PROVE  Registering'
BY DEF Registering, RowsStay, Known, IsAccount, IsAgent

LEMMA DelegatingKept ==
    ASSUME Delegating, UNCHANGED delegating, overlapped \subseteq overlapped',
           \A d \in Dids \ Derived : accounts'[d].exists => accounts[d].exists
    PROVE  Delegating'
BY DEF Delegating, IsAccount

LEMMA CheckingKept ==
    ASSUME Checking, UNCHANGED checks, vouched \subseteq vouched'
    PROVE  Checking'
BY DEF Checking

\* A step that writes neither table.
LEMMA TablesKept ==
    ASSUME DerivedRows, OneRow, BindingsAreProved, Claims, UNCHANGED <<accounts, agents>>,
           vouched \subseteq vouched', overlapped \subseteq overlapped'
    PROVE  DerivedRows' /\ OneRow' /\ BindingsAreProved' /\ Claims' /\ RowsStay
<1>1. DerivedRows' /\ OneRow' /\ RowsStay
  BY DEF DerivedRows, OneRow, RowsStay
<1>2. BindingsAreProved'
  BY DEF BindingsAreProved
<1>3. Claims'
  BY DEF Claims, IdentityClaimedOnce, IsAccount, IsAgent
<1> QED
  BY <1>1, <1>2, <1>3

--------------------------------------------------------------------------------
(* GitHub and the visits.                                                       *)

LEMMA GistsKeep ==
    ASSUME IInv, gists' \subseteq Dids \X Logins,
           UNCHANGED <<accounts, agents, visits, registering, delegating, checks, vouched,
                       overlapped>>
    PROVE  IInv' /\ RowsStay
<1>1. TypeOK'
  BY DEF IInv, TypeOK
<1>2. DerivedRows' /\ OneRow' /\ BindingsAreProved' /\ Claims' /\ RowsStay
  BY TablesKept DEF IInv
<1> QED
  BY <1>1, <1>2, VisitingKept, RegisteringKept, DelegatingKept, CheckingKept DEF IInv

LEMMA PublishKeeps ==
    ASSUME IInv, NEW d \in Dids, NEW login \in Logins, Publish(d, login)
    PROVE  IInv' /\ RowsStay
<1>1. gists' \subseteq Dids \X Logins
  BY DEF Publish, IInv, TypeOK
<1> QED
  BY <1>1, GistsKeep DEF Publish

LEMMA DeleteGistKeeps ==
    ASSUME IInv, NEW gist \in gists, DeleteGist(gist)
    PROVE  IInv' /\ RowsStay
<1>1. gists' \subseteq Dids \X Logins
  BY DEF DeleteGist, IInv, TypeOK
<1> QED
  BY <1>1, GistsKeep DEF DeleteGist

\* A step of a visit that writes no row.
LEMMA VisitsKeep ==
    ASSUME IInv, Visiting',
           visits' \in [Visits -> [login : Logins \cup {None},
                                   at : {"idle", "register", "promote", "reread", "failed"}]],
           vouched \subseteq vouched', vouched' \subseteq Dids \X Logins,
           UNCHANGED <<accounts, agents, gists, registering, delegating, checks, overlapped>>
    PROVE  IInv' /\ RowsStay
<1>1. TypeOK'
  BY DEF IInv, TypeOK
<1>2. DerivedRows' /\ OneRow' /\ BindingsAreProved' /\ Claims' /\ RowsStay
  BY TablesKept DEF IInv
<1> QED
  BY <1>1, <1>2, RegisteringKept, DelegatingKept, CheckingKept DEF IInv

LEMMA FindAccountKeeps ==
    ASSUME IInv, NEW v \in Visits, NEW login \in Logins, FindAccount(v, login)
    PROVE  IInv' /\ RowsStay
<1> DEFINE begun == [login |-> login, at |-> "register"]
<1>1. /\ visits' = [visits EXCEPT ![v] = begun]
      /\ vouched' = vouched \cup {<<DerivedDid[login], login>>}
      /\ UNCHANGED <<accounts, agents, gists, registering, delegating, checks, overlapped>>
  BY DEF FindAccount
<1>2. DerivedDid[login] \in Dids
  BY RegistryAssumption
<1>3. visits' \in [Visits -> [login : Logins \cup {None},
                              at : {"idle", "register", "promote", "reread", "failed"}]]
  BY <1>1 DEF IInv, TypeOK
<1>4. vouched \subseteq vouched' /\ vouched' \subseteq Dids \X Logins
  BY <1>1, <1>2 DEF IInv, TypeOK
<1>5. Visiting'
  BY <1>1 DEF IInv, TypeOK, Visiting, IsAccount, Holders
<1> QED
  BY <1>1, <1>3, <1>4, <1>5, VisitsKeep

\* A visit goes on: what it goes on with holds.
LEMMA VisitGoesOn ==
    ASSUME IInv, NEW v \in Visits, NEW at \in {"promote", "reread", "failed"},
           visits[v].at # "idle", To(v, at),
           at = "promote" => \/ IsAccount(DerivedDid[visits[v].login])
                             \/ Holders(visits[v].login) # {},
           at \in {"reread", "failed"} => Holders(visits[v].login) # {},
           UNCHANGED <<accounts, agents, gists, registering, delegating, checks, vouched,
                       overlapped>>
    PROVE  IInv' /\ RowsStay
<1>1. visits' \in [Visits -> [login : Logins \cup {None},
                              at : {"idle", "register", "promote", "reread", "failed"}]]
  BY DEF To, IInv, TypeOK
<1>2. visits'[v].login = visits[v].login /\ visits'[v].at = at
      /\ \A w \in Visits \ {v} : visits'[w] = visits[w]
  BY DEF To, IInv, TypeOK
<1>3. Visiting'
  BY <1>2 DEF IInv, Visiting, IsAccount, Holders
<1> QED
  BY <1>1, <1>3, VisitsKeep DEF IInv, TypeOK

LEMMA VisitAnswered ==
    ASSUME IInv, NEW v \in Visits, Answered(v),
           UNCHANGED <<accounts, agents, gists, registering, delegating, checks, vouched,
                       overlapped>>
    PROVE  IInv' /\ RowsStay
<1>1. visits' \in [Visits -> [login : Logins \cup {None},
                              at : {"idle", "register", "promote", "reread", "failed"}]]
  BY DEF Answered, NoVisit, IInv, TypeOK
<1>2. visits'[v].at = "idle" /\ \A w \in Visits \ {v} : visits'[w] = visits[w]
  BY DEF Answered, NoVisit, IInv, TypeOK
<1>3. Visiting'
  BY <1>2 DEF IInv, Visiting, IsAccount, Holders
<1> QED
  BY <1>1, <1>3, VisitsKeep DEF IInv, TypeOK

\* A visit puts its login on the row of its derived DID, which nobody holds.
LEMMA VisitWritesRow ==
    ASSUME IInv, NEW v \in Visits, visits[v].at # "idle", Answered(v),
           LET login == visits[v].login IN
           /\ Holders(login) = {}
           /\ accounts[DerivedDid[login]].login = None
           /\ accounts'[DerivedDid[login]].exists
           /\ accounts'[DerivedDid[login]].login = login
           /\ accounts'[DerivedDid[login]].unproved = None
           /\ \A d \in Dids \ {DerivedDid[login]} : accounts'[d] = accounts[d],
           accounts' \in [Dids -> Account],
           UNCHANGED <<agents, gists, registering, delegating, checks, vouched, overlapped>>
    PROVE  IInv' /\ RowsStay
<1> DEFINE login == visits[v].login
           did == DerivedDid[login]
<1>1. login \in Logins /\ <<did, login>> \in vouched
  BY DEF IInv, Visiting
<1>2. did \in Dids /\ did \in Derived /\ None \notin Logins
  BY <1>1, RegistryAssumption DEF Derived
<1>3. Holders(login) = {} /\ accounts[did].login = None
  OBVIOUS
<1>4. /\ accounts'[did].exists /\ accounts'[did].login = login /\ accounts'[did].unproved = None
      /\ \A d \in Dids \ {did} : accounts'[d] = accounts[d]
  OBVIOUS
<1> HIDE DEF did, login
<1>5. RowsStay
  BY <1>3, <1>4 DEF RowsStay
<1>6. visits' \in [Visits -> [login : Logins \cup {None},
                              at : {"idle", "register", "promote", "reread", "failed"}]]
      /\ visits'[v].at = "idle" /\ \A w \in Visits \ {v} : visits'[w] = visits[w]
  BY DEF Answered, NoVisit, IInv, TypeOK
<1>7. TypeOK'
  BY <1>6 DEF IInv, TypeOK
<1>8. DerivedRows'
  <2> SUFFICES ASSUME NEW l \in Logins
               PROVE  /\ accounts'[DerivedDid[l]].login \in {None, l}
                      /\ accounts'[DerivedDid[l]].unproved \in {None, l}
                      /\ accounts'[DerivedDid[l]].exists =>
                             \/ accounts'[DerivedDid[l]].login = l
                             \/ accounts'[DerivedDid[l]].unproved = l
    BY DEF DerivedRows
  <2>1. DerivedDid[l] \in Dids
    BY RegistryAssumption
  <2>2. CASE l = login
    BY <2>2, <1>4 DEF did
  <2>3. CASE l # login
    <3>1. DerivedDid[l] # did
      BY <2>3, <1>1, RegistryAssumption DEF did
    <3> QED
      BY <2>1, <3>1, <1>4 DEF IInv, DerivedRows
  <2> QED
    BY <2>2, <2>3
<1>9. OneRow'
  <2>1. \A d \in Dids : accounts[d].login # login
    BY <1>3 DEF Holders
  <2> QED
    BY <2>1, <1>4 DEF IInv, OneRow
<1>10. BindingsAreProved'
  <2> SUFFICES ASSUME NEW d \in Dids
               PROVE  /\ accounts'[d].login # None => <<d, accounts'[d].login>> \in vouched
                      /\ agents[d].verified => <<d, agents[d].handle>> \in vouched
    BY DEF BindingsAreProved
  <2>1. CASE d = did
    BY <2>1, <1>1, <1>4 DEF IInv, BindingsAreProved
  <2>2. CASE d # did
    BY <2>2, <1>4 DEF IInv, BindingsAreProved
  <2> QED
    BY <2>1, <2>2
<1>11. Claims'
  BY <1>2, <1>4 DEF IInv, Claims, IdentityClaimedOnce, IsAccount, IsAgent
<1>12. Visiting'
  <2> SUFFICES ASSUME NEW w \in Visits, visits'[w].at # "idle"
               PROVE  LET l == visits[w].login IN
                      /\ l \in Logins
                      /\ <<DerivedDid[l], l>> \in vouched
                      /\ visits[w].at = "promote" =>
                             accounts'[DerivedDid[l]].exists \/ Holders(l)' # {}
                      /\ visits[w].at \in {"reread", "failed"} => Holders(l)' # {}
    BY <1>6 DEF Visiting, IsAccount
  <2> DEFINE l == visits[w].login
  <2>1. visits[w].at # "idle" /\ visits'[w] = visits[w]
    BY <1>6
  <2>2. /\ l \in Logins /\ <<DerivedDid[l], l>> \in vouched
        /\ visits[w].at = "promote" => IsAccount(DerivedDid[l]) \/ Holders(l) # {}
        /\ visits[w].at \in {"reread", "failed"} => Holders(l) # {}
    BY <2>1 DEF IInv, Visiting
  <2>3. ASSUME Holders(l) # {} PROVE Holders(l)' # {}
    <3>1. l \in Logins
      BY <2>2
    <3> QED
      BY <3>1, <2>1, <2>3, <1>5, HeldStaysHeld
  <2>4. DerivedDid[l] \in Dids
    BY <2>2, RegistryAssumption
  <2> QED
    BY <2>1, <2>2, <2>3, <2>4, <1>5 DEF RowsStay, IsAccount
<1>13. Registering' /\ Delegating' /\ Checking'
  BY <1>2, <1>4, <1>5, RegisteringKept, DelegatingKept, CheckingKept DEF IInv
<1> QED
  BY <1>5, <1>7, <1>8, <1>9, <1>10, <1>11, <1>12, <1>13 DEF IInv

LEMMA ProvisionKeeps ==
    ASSUME IInv, NEW v \in Visits, Provision(v)
    PROVE  IInv' /\ RowsStay
<1> DEFINE login == visits[v].login
           did == DerivedDid[login]
<1>1. visits[v].at = "register" /\ login \in Logins
  BY DEF Provision, IInv, Visiting
<1>2. did \in Dids
  BY <1>1, RegistryAssumption
<1>3. CASE CanRegister(did, login)
  <2>1. Holders(login) = {} /\ accounts[did].login = None
    BY <1>1, <1>2, <1>3, RegistryAssumption DEF CanRegister, IsAccount, IInv, OneRow
  <2> DEFINE written == [exists |-> TRUE, login |-> login, unproved |-> None]
  <2>2. accounts' = [accounts EXCEPT ![did] = written]
        /\ Answered(v)
        /\ UNCHANGED <<agents, gists, registering, delegating, checks, vouched, overlapped>>
    BY <1>3 DEF Provision, Registered
  <2>3. written \in Account /\ written.exists /\ written.login = login /\ written.unproved = None
    BY <1>1 DEF Account
  <2> HIDE DEF written
  <2>4. accounts' \in [Dids -> Account] /\ accounts'[did] = written
        /\ \A d \in Dids \ {did} : accounts'[d] = accounts[d]
    BY <1>2, <2>2, <2>3 DEF IInv, TypeOK
  <2> QED
    BY <2>1, <2>2, <2>3, <2>4, <1>1, VisitWritesRow
<1>4. CASE ~CanRegister(did, login)
  <2>1. IsAccount(did) \/ Holders(login) # {}
    BY <1>4 DEF CanRegister
  <2> QED
    BY <2>1, <1>1, <1>4, VisitGoesOn DEF Provision
<1> QED
  BY <1>3, <1>4

LEMMA PromoteKeeps ==
    ASSUME IInv, NEW v \in Visits, Promote(v)
    PROVE  IInv' /\ RowsStay
<1> DEFINE login == visits[v].login
           did == DerivedDid[login]
<1>1. /\ visits[v].at = "promote" /\ login \in Logins
      /\ IsAccount(did) \/ Holders(login) # {}
  BY DEF Promote, IInv, Visiting
<1>2. did \in Dids /\ None \notin Logins
  BY <1>1, RegistryAssumption
<1>3. /\ accounts[did].login \in {None, login}
      /\ accounts[did].exists => accounts[did].login = login \/ accounts[did].unproved = login
  BY <1>1 DEF IInv, DerivedRows
<1>4. CASE accounts[did].login # None \/ accounts[did].unproved # login
  <2>1. Holders(login) # {}
    BY <1>1, <1>2, <1>3, <1>4 DEF IsAccount, Holders
  <2>2. To(v, "reread")
        /\ UNCHANGED <<accounts, agents, gists, registering, delegating, checks, vouched,
                       overlapped>>
    BY <1>4 DEF Promote
  <2> QED
    BY <2>1, <2>2, <1>1, VisitGoesOn
<1>5. CASE accounts[did].login = None /\ accounts[did].unproved = login /\ Holders(login) # {}
  <2>1. To(v, "failed")
        /\ UNCHANGED <<accounts, agents, gists, registering, delegating, checks, vouched,
                       overlapped>>
    BY <1>5 DEF Promote
  <2> QED
    BY <2>1, <1>1, <1>5, VisitGoesOn
<1>6. CASE accounts[did].login = None /\ accounts[did].unproved = login /\ Holders(login) = {}
  <2>1. accounts' = [accounts EXCEPT ![did].login = login, ![did].unproved = None]
        /\ Answered(v)
        /\ UNCHANGED <<agents, gists, registering, delegating, checks, vouched, overlapped>>
    BY <1>6 DEF Promote
  <2>2. accounts[did].exists = TRUE
    BY <1>1, <1>6 DEF IsAccount, IInv, TypeOK, Account
  <2>3. /\ accounts'[did].exists /\ accounts'[did].login = login
        /\ accounts'[did].unproved = None
        /\ \A d \in Dids \ {did} : accounts'[d] = accounts[d]
        /\ accounts' \in [Dids -> Account]
    BY <2>1, <2>2, <1>1, <1>2 DEF IInv, TypeOK, Account
  <2> QED
    BY <2>1, <2>3, <1>1, <1>6, VisitWritesRow
<1> QED
  BY <1>4, <1>5, <1>6

LEMMA ReReadKeeps ==
    ASSUME IInv, NEW v \in Visits, ReRead(v)
    PROVE  IInv' /\ RowsStay
<1>1. visits[v].at = "reread" /\ Holders(visits[v].login) # {}
  BY DEF ReRead, IInv, Visiting
<1> QED
  BY <1>1, VisitAnswered DEF ReRead

LEMMA VisitFailsKeeps ==
    ASSUME IInv, NEW v \in Visits, VisitFails(v)
    PROVE  IInv' /\ RowsStay
BY VisitAnswered DEF VisitFails

--------------------------------------------------------------------------------
(* Registrations.                                                               *)

LEMMA StartRegistrationKeeps ==
    ASSUME IInv, NEW d \in Dids, NEW login \in Logins \cup {None},
           StartRegistration(d, login)
    PROVE  IInv' /\ RowsStay
<1> DEFINE begun == [at |-> IF login = None THEN "register" ELSE "prove",
                     did |-> d, login |-> login]
<1>1. /\ Known(d) /\ ~IsAgent(d) /\ registering' = begun
      /\ delegating.at = "create" /\ delegating.did = d => d \in overlapped'
      /\ overlapped \subseteq overlapped' /\ overlapped' \subseteq overlapped \cup {d}
      /\ UNCHANGED <<accounts, agents, gists, visits, delegating, checks, vouched>>
  BY DEF StartRegistration, Overlaps
<1>2. /\ begun.did = d /\ begun.login = login
      /\ begun.at = "prove" => login \in Logins
      /\ begun.at = "register" => login = None
  OBVIOUS
<1>3. begun \in [at : {"idle", "prove", "register"}, did : Dids \cup {None},
                 login : Logins \cup {None}]
  OBVIOUS
<1> HIDE DEF begun
<1>4. TypeOK'
  BY <1>1, <1>3 DEF IInv, TypeOK
<1>5. DerivedRows' /\ OneRow' /\ BindingsAreProved' /\ Claims' /\ RowsStay
  BY <1>1, TablesKept DEF IInv
<1>6. Registering'
  BY <1>1, <1>2 DEF Registering, Known, IsAccount, IsAgent
<1> QED
  BY <1>1, <1>4, <1>5, <1>6, VisitingKept, DelegatingKept, CheckingKept DEF IInv

LEMMA ProveRegistrationKeeps ==
    ASSUME IInv, ProveRegistration
    PROVE  IInv' /\ RowsStay
<1> DEFINE claim == <<registering.did, registering.login>>
<1>1. /\ registering.at = "prove"
      /\ \/ registering' = [registering EXCEPT !.at = "register"]
            /\ vouched' = vouched \cup {claim}
         \/ registering' = NotRegistering /\ vouched' = vouched
      /\ UNCHANGED <<accounts, agents, gists, visits, delegating, checks, overlapped>>
  BY DEF ProveRegistration, RegistrationEnds
<1>2. claim \in Dids \X Logins /\ registering.did \in Dids /\ registering.login \in Logins
  BY <1>1 DEF IInv, Registering
<1>3. registering' \in [at : {"idle", "prove", "register"}, did : Dids \cup {None},
                        login : Logins \cup {None}]
  BY <1>1 DEF IInv, TypeOK, NotRegistering
<1>4. TypeOK'
  BY <1>1, <1>2, <1>3 DEF IInv, TypeOK
<1>5. DerivedRows' /\ OneRow' /\ BindingsAreProved' /\ Claims' /\ RowsStay
  BY <1>1, TablesKept DEF IInv
<1>6. Registering'
  <2>1. CASE registering' = NotRegistering
    BY <2>1 DEF Registering, NotRegistering
  <2>2. CASE registering' = [registering EXCEPT !.at = "register"]
             /\ vouched' = vouched \cup {claim}
    <3>1. /\ registering'.did = registering.did /\ registering'.login = registering.login
          /\ registering'.at = "register"
      BY <2>2 DEF IInv, TypeOK
    <3> QED
      BY <2>2, <3>1, <1>1 DEF IInv, Registering, Known, IsAccount, IsAgent
  <2> QED
    BY <1>1, <2>1, <2>2
<1> QED
  BY <1>1, <1>4, <1>5, <1>6, VisitingKept, DelegatingKept, CheckingKept DEF IInv

\* A registration writes a row of a DID nobody derives, and which an agent has only if
\* both sides were under way at once.
LEMMA RegisterKeeps ==
    ASSUME IInv, Register
    PROVE  IInv' /\ RowsStay
<1> DEFINE d == registering.did
           login == registering.login
           written == [exists |-> TRUE, login |-> login, unproved |-> None]
<1>1. /\ registering.at = "register" /\ registering' = NotRegistering
      /\ UNCHANGED <<agents, gists, visits, delegating, checks, vouched, overlapped>>
  BY DEF Register, RegistrationEnds
<1>2. /\ d \in Dids /\ Known(d) /\ login \in Logins \cup {None}
      /\ login # None => <<d, login>> \in vouched
      /\ IsAgent(d) => d \in overlapped
      /\ delegating.at = "create" /\ delegating.did = d => d \in overlapped
  BY <1>1 DEF IInv, Registering, TypeOK
<1>3. NotRegistering \in [at : {"idle", "prove", "register"}, did : Dids \cup {None},
                          login : Logins \cup {None}]
  BY DEF NotRegistering
<1>4. Registering'
  BY <1>1 DEF Registering, NotRegistering
<1>5. CASE UNCHANGED accounts
  <2>1. TypeOK'
    BY <1>1, <1>3, <1>5 DEF IInv, TypeOK
  <2>2. DerivedRows' /\ OneRow' /\ BindingsAreProved' /\ Claims' /\ RowsStay
    BY <1>1, <1>5, TablesKept DEF IInv
  <2> QED
    BY <1>1, <1>4, <1>5, <2>1, <2>2, VisitingKept, DelegatingKept, CheckingKept DEF IInv
<1>6. CASE CanRegister(d, login) /\ accounts' = [accounts EXCEPT ![d] = written]
  <2>1. ~accounts[d].exists /\ d \notin Derived /\ (login = None \/ Holders(login) = {})
    BY <1>2, <1>6 DEF CanRegister, IsAccount, Known
  <2>2. written \in Account /\ written.exists /\ written.login = login /\ written.unproved = None
    BY <1>2 DEF Account
  <2> HIDE DEF written
  <2>3. accounts'[d] = written /\ \A e \in Dids \ {d} : accounts'[e] = accounts[e]
    BY <1>2, <1>6 DEF IInv, TypeOK
  <2>4. TypeOK'
    BY <1>1, <1>2, <1>3, <1>6, <2>2 DEF IInv, TypeOK
  <2>5. RowsStay
    BY <2>1, <2>2, <2>3 DEF RowsStay, IInv, OneRow
  <2>6. DerivedRows'
    <3>1. \A l \in Logins : accounts'[DerivedDid[l]] = accounts[DerivedDid[l]]
      BY <2>1, <2>3, RegistryAssumption DEF Derived
    <3> QED
      BY <3>1 DEF IInv, DerivedRows
  <2>7. OneRow'
    <3>1. login # None => \A e \in Dids : accounts[e].login # login
      BY <2>1 DEF Holders
    <3> QED
      BY <3>1, <2>2, <2>3 DEF IInv, OneRow
  <2>8. BindingsAreProved'
    <3> SUFFICES ASSUME NEW e \in Dids
                 PROVE  /\ accounts'[e].login # None => <<e, accounts'[e].login>> \in vouched
                        /\ agents[e].verified => <<e, agents[e].handle>> \in vouched
      BY <1>1 DEF BindingsAreProved
    <3>1. CASE e = d
      BY <3>1, <1>2, <2>2, <2>3 DEF IInv, BindingsAreProved
    <3>2. CASE e # d
      BY <3>2, <2>3 DEF IInv, BindingsAreProved
    <3> QED
      BY <3>1, <3>2
  <2>9. Claims'
    BY <1>1, <1>2, <2>3 DEF IInv, Claims, IdentityClaimedOnce, IsAccount, IsAgent
  <2>10. Delegating'
    BY <1>1, <1>2, <2>3 DEF IInv, Delegating, IsAccount
  <2> QED
    BY <1>1, <1>4, <2>4, <2>5, <2>6, <2>7, <2>8, <2>9, <2>10, VisitingKept, CheckingKept DEF IInv
<1> QED
  BY <1>5, <1>6 DEF Register, Registered
--------------------------------------------------------------------------------
(* Agents.                                                                      *)

LEMMA StartDelegationKeeps ==
    ASSUME IInv, NEW d \in Dids, NEW operator \in Dids,
           NEW session \in Logins \cup {None}, NEW handle \in Logins \cup {None},
           StartDelegation(d, operator, session, handle)
    PROVE  IInv' /\ RowsStay
<1> DEFINE begun == [at |-> "create", did |-> d, operator |-> operator, login |-> handle,
                     own |-> handle # None /\ handle = session]
<1>1. /\ Known(d) /\ ~IsAccount(d) /\ delegating' = begun
      /\ registering.at # "idle" /\ registering.did = d => d \in overlapped'
      /\ overlapped \subseteq overlapped' /\ overlapped' \subseteq overlapped \cup {d}
      /\ UNCHANGED <<accounts, agents, gists, visits, registering, checks, vouched>>
  BY DEF StartDelegation, Delegable, Overlaps
<1>2. /\ begun.did = d /\ begun.operator = operator /\ begun.login = handle
      /\ begun.at = "create" /\ begun.own = (handle # None /\ handle = session)
  OBVIOUS
<1>3. begun \in [at : {"idle", "create", "bind"}, did : Dids \cup {None},
                 operator : Dids \cup {None}, login : Logins \cup {None}, own : BOOLEAN]
  OBVIOUS
<1> HIDE DEF begun
<1>4. TypeOK'
  BY <1>1, <1>3 DEF IInv, TypeOK
<1>5. DerivedRows' /\ OneRow' /\ BindingsAreProved' /\ Claims' /\ RowsStay
  BY <1>1, TablesKept DEF IInv
<1>6. Delegating'
  BY <1>1, <1>2 DEF Delegating, Known, IsAccount
<1>7. Registering'
  BY <1>1, <1>2 DEF IInv, Registering, Known, IsAccount, IsAgent
<1> QED
  BY <1>1, <1>4, <1>5, <1>6, <1>7, VisitingKept, CheckingKept DEF IInv

\* The delegation under way ends, and the agents' rows are as they were.
LEMMA DelegationEnds ==
    ASSUME IInv, delegating' = NoDelegation,
           UNCHANGED <<accounts, agents, gists, visits, registering, checks, vouched, overlapped>>
    PROVE  IInv' /\ RowsStay
<1>1. NoDelegation \in [at : {"idle", "create", "bind"}, did : Dids \cup {None},
                        operator : Dids \cup {None}, login : Logins \cup {None}, own : BOOLEAN]
      /\ NoDelegation.at = "idle"
  BY DEF NoDelegation
<1>2. TypeOK'
  BY <1>1 DEF IInv, TypeOK
<1>3. DerivedRows' /\ OneRow' /\ BindingsAreProved' /\ Claims' /\ RowsStay
  BY TablesKept DEF IInv
<1>4. Delegating' /\ Registering'
  BY <1>1 DEF IInv, Delegating, Registering, Known, IsAccount, IsAgent
<1> QED
  BY <1>2, <1>3, <1>4, VisitingKept, CheckingKept DEF IInv

\* An agent is created for a DID nobody derives, and which has an account, or a
\* registration under way, only if both sides were under way at once.
LEMMA CreateAgentKeeps ==
    ASSUME IInv, CreateAgent
    PROVE  IInv' /\ RowsStay
<1> DEFINE d == delegating.did
           written == [operator |-> delegating.operator, handle |-> delegating.login,
                       verified |-> FALSE]
<1>1. /\ delegating.at = "create"
      /\ UNCHANGED <<accounts, gists, visits, registering, checks, vouched, overlapped>>
  BY DEF CreateAgent
<1>2. /\ d \in Dids /\ d \notin Derived /\ delegating.operator \in Dids
      /\ delegating.login \in Logins \cup {None}
      /\ delegating.own => delegating.login \in Logins
      /\ IsAccount(d) => d \in overlapped
  BY <1>1 DEF IInv, Delegating, TypeOK
<1>3. CASE UNCHANGED agents /\ delegating' = NoDelegation
  BY <1>1, <1>3, DelegationEnds
<1>4. CASE /\ agents' = [agents EXCEPT ![d] = written]
           /\ \/ delegating.own /\ delegating' = [delegating EXCEPT !.at = "bind"]
              \/ delegating' = NoDelegation
  <2>1. written \in Agent /\ written.verified = FALSE
    BY <1>2 DEF Agent
  <2> HIDE DEF written
  <2>2. agents'[d] = written /\ \A e \in Dids \ {d} : agents'[e] = agents[e]
    BY <1>2, <1>4 DEF IInv, TypeOK
  <2>3. agents' \in [Dids -> Agent]
    BY <1>2, <1>4, <2>1 DEF IInv, TypeOK
  <2>4. delegating' \in [at : {"idle", "create", "bind"}, did : Dids \cup {None},
                         operator : Dids \cup {None}, login : Logins \cup {None}, own : BOOLEAN]
    <3>1. CASE delegating' = NoDelegation
      BY <3>1 DEF NoDelegation
    <3>2. CASE delegating' = [delegating EXCEPT !.at = "bind"]
      BY <3>2 DEF IInv, TypeOK
    <3> QED
      BY <1>4, <3>1, <3>2
  <2>5. TypeOK'
    BY <1>1, <2>3, <2>4 DEF IInv, TypeOK
  <2>6. DerivedRows' /\ OneRow' /\ RowsStay
    BY <1>1 DEF IInv, DerivedRows, OneRow, RowsStay
  <2>7. BindingsAreProved'
    BY <1>1, <2>1, <2>2 DEF IInv, BindingsAreProved
  <2>8. Claims'
    BY <1>1, <1>2, <2>2, RegistryAssumption
       DEF IInv, Claims, IdentityClaimedOnce, IsAccount, IsAgent, Derived
  <2>9. Delegating'
    <3>1. CASE delegating' = NoDelegation
      BY <3>1 DEF Delegating, NoDelegation
    <3>2. CASE delegating.own /\ delegating' = [delegating EXCEPT !.at = "bind"]
      <4>1. /\ delegating'.at = "bind" /\ delegating'.did = d
            /\ delegating'.operator = delegating.operator /\ delegating'.login = delegating.login
        BY <3>2 DEF IInv, TypeOK
      <4> QED
        BY <3>2, <4>1, <1>2 DEF Delegating
    <3> QED
      BY <1>4, <3>1, <3>2
  <2>10. delegating'.at # "create"
    BY <1>4 DEF IInv, TypeOK, NoDelegation
  <2>11. Registering'
    BY <1>1, <2>2, <2>10 DEF IInv, Registering, Known, IsAccount, IsAgent
  <2> QED
    BY <1>1, <2>5, <2>6, <2>7, <2>8, <2>9, <2>11, VisitingKept, CheckingKept DEF IInv
<1> QED
  BY <1>3, <1>4 DEF CreateAgent

\* A login is bound to an agent that keeps its operator: verified only when vouched for.
LEMMA BoundKeeps ==
    ASSUME IInv, NEW d \in Dids, NEW handle \in Logins, NEW verified \in BOOLEAN,
           Bound(d, handle, verified),
           verified => <<d, handle>> \in vouched',
           vouched \subseteq vouched', vouched' \subseteq Dids \X Logins,
           delegating' \in {delegating, NoDelegation},
           Checking',
           checks' \in [Checks -> [at : {"idle", "gist", "publish", "published", "proved", "lost"},
                                   did : Dids \cup {None}, handle : Logins \cup {None},
                                   wasVerified : BOOLEAN]],
           UNCHANGED <<accounts, gists, visits, registering, overlapped>>
    PROVE  IInv' /\ RowsStay
<1>1. agents' \in [Dids -> Agent]
  <2> DEFINE bound == [agents[d] EXCEPT !.handle = handle, !.verified = verified]
  <2>1. agents[d] \in Agent
    BY DEF IInv, TypeOK
  <2>2. bound \in Agent
    BY <2>1 DEF Agent
  <2>3. agents' = [agents EXCEPT ![d] = bound]
    BY DEF Bound, IInv, TypeOK
  <2> HIDE DEF bound
  <2> QED
    BY <2>2, <2>3 DEF IInv, TypeOK
<1>2. /\ \A e \in Dids : agents'[e].operator = agents[e].operator
      /\ \A e \in Dids \ {d} : agents'[e] = agents[e]
      /\ agents'[d].handle = handle /\ agents'[d].verified = verified
  BY DEF Bound, IInv, TypeOK, Agent
<1>3. delegating' = delegating \/ delegating' = NoDelegation
  OBVIOUS
<1>4. TypeOK'
  <2>1. CASE delegating' = delegating
    BY <1>1, <2>1 DEF IInv, TypeOK
  <2>2. CASE delegating' = NoDelegation
    BY <1>1, <2>2 DEF IInv, TypeOK, NoDelegation
  <2> QED
    BY <1>3, <2>1, <2>2
<1>5. DerivedRows' /\ OneRow' /\ RowsStay
  BY DEF IInv, DerivedRows, OneRow, RowsStay
<1>6. BindingsAreProved'
  BY <1>2 DEF IInv, BindingsAreProved
<1>7. Claims'
  BY <1>2, RegistryAssumption DEF IInv, Claims, IdentityClaimedOnce, IsAccount, IsAgent, Derived
<1>8. Delegating' /\ Registering'
  BY <1>2, <1>3 DEF IInv, Delegating, Registering, NoDelegation, Known, IsAccount, IsAgent
<1> QED
  BY <1>4, <1>5, <1>6, <1>7, <1>8, VisitingKept DEF IInv

LEMMA BindOwnKeeps ==
    ASSUME IInv, BindOwn
    PROVE  IInv' /\ RowsStay
<1> DEFINE d == delegating.did
           login == delegating.login
<1>1. /\ d \in Dids /\ login \in Logins /\ delegating' = NoDelegation
      /\ UNCHANGED <<accounts, gists, visits, registering, checks, overlapped>>
  BY DEF BindOwn, IInv, Delegating
<1>2. CASE Bound(d, login, TRUE) /\ vouched' = vouched \cup {<<d, login>>}
  <2>1. /\ vouched \subseteq vouched' /\ vouched' \subseteq Dids \X Logins
        /\ <<d, login>> \in vouched'
    BY <1>1, <1>2 DEF IInv, TypeOK
  <2>2. Checking' /\ checks' \in [Checks -> [at : {"idle", "gist", "publish", "published",
                                                   "proved", "lost"},
                                             did : Dids \cup {None},
                                             handle : Logins \cup {None},
                                             wasVerified : BOOLEAN]]
    BY <1>1, <2>1, CheckingKept DEF IInv, TypeOK
  <2> QED
    BY <1>1, <1>2, <2>1, <2>2, BoundKeeps
<1>3. CASE UNCHANGED <<agents, vouched>>
  BY <1>1, <1>3, DelegationEnds
<1> QED
  BY <1>2, <1>3 DEF BindOwn

--------------------------------------------------------------------------------
(* Proofs of an agent's login.                                                  *)

CheckRows == [at : {"idle", "gist", "publish", "published", "proved", "lost"},
              did : Dids \cup {None}, handle : Logins \cup {None}, wasVerified : BOOLEAN]

\* A step of a check that writes no row.
LEMMA ChecksKeep ==
    ASSUME IInv, Checking', checks' \in [Checks -> CheckRows],
           gists' \subseteq Dids \X Logins,
           vouched \subseteq vouched', vouched' \subseteq Dids \X Logins,
           UNCHANGED <<accounts, agents, visits, registering, delegating, overlapped>>
    PROVE  IInv' /\ RowsStay
<1>1. TypeOK'
  BY DEF IInv, TypeOK, CheckRows
<1>2. DerivedRows' /\ OneRow' /\ BindingsAreProved' /\ Claims' /\ RowsStay
  BY TablesKept DEF IInv
<1> QED
  BY <1>1, <1>2, VisitingKept, RegisteringKept, DelegatingKept DEF IInv

LEMMA CheckBegins ==
    ASSUME IInv, NEW c \in Checks, NEW d \in Dids, NEW handle \in Logins,
           NEW at \in {"gist", "publish"}, NEW wasVerified \in BOOLEAN,
           checks' = [checks EXCEPT ![c] = [at |-> at, did |-> d, handle |-> handle,
                                             wasVerified |-> wasVerified]],
           UNCHANGED <<accounts, agents, gists, visits, registering, delegating, vouched,
                       overlapped>>
    PROVE  IInv' /\ RowsStay
<1>1. checks' \in [Checks -> CheckRows]
  BY DEF IInv, TypeOK, CheckRows
<1>2. Checking'
  BY DEF IInv, TypeOK, Checking
<1> QED
  BY <1>1, <1>2, ChecksKeep DEF IInv, TypeOK

LEMMA CheckOver ==
    ASSUME IInv, NEW c \in Checks, CheckEnds(c)
    PROVE  checks' \in [Checks -> CheckRows] /\ (vouched \subseteq vouched' => Checking')
<1>1. checks' \in [Checks -> CheckRows]
  BY DEF CheckEnds, NoCheck, IInv, TypeOK, CheckRows
<1>2. vouched \subseteq vouched' => Checking'
  BY DEF CheckEnds, NoCheck, IInv, TypeOK, Checking
<1> QED
  BY <1>1, <1>2

LEMMA CheckGoesOn ==
    ASSUME IInv, NEW c \in Checks, NEW at \in {"published", "proved", "lost"},
           checks[c].at # "idle", CheckTo(c, at), vouched \subseteq vouched',
           at = "proved" => <<checks[c].did, checks[c].handle>> \in vouched'
    PROVE  checks' \in [Checks -> CheckRows] /\ Checking'
<1>1. checks' \in [Checks -> CheckRows]
  BY DEF CheckTo, IInv, TypeOK, CheckRows
<1>2. /\ checks'[c].at = at /\ checks'[c].did = checks[c].did
      /\ checks'[c].handle = checks[c].handle
      /\ \A e \in Checks \ {c} : checks'[e] = checks[e]
  BY DEF CheckTo, IInv, TypeOK
<1>3. Checking'
  BY <1>2 DEF IInv, Checking
<1> QED
  BY <1>1, <1>3

LEMMA StartGistProofKeeps ==
    ASSUME IInv, NEW c \in Checks, NEW d \in Dids, NEW login \in Logins,
           StartGistProof(c, d, login)
    PROVE  IInv' /\ RowsStay
<1>1. agents[d].verified \in BOOLEAN
  BY DEF IInv, TypeOK, Agent
<1> QED
  BY <1>1, CheckBegins DEF StartGistProof

LEMMA StartClickKeeps ==
    ASSUME IInv, NEW c \in Checks, NEW d \in Dids, NEW login \in Logins,
           StartClick(c, d, login)
    PROVE  IInv' /\ RowsStay
<1>1. agents[d].verified \in BOOLEAN
  BY DEF IInv, TypeOK, Agent
<1> QED
  BY <1>1, CheckBegins DEF StartClick

LEMMA ReadGistKeeps ==
    ASSUME IInv, NEW c \in Checks, ReadGist(c)
    PROVE  IInv' /\ RowsStay
<1> DEFINE claim == <<checks[c].did, checks[c].handle>>
<1>1. /\ checks[c].at # "idle"
      /\ vouched' = vouched \/ vouched' = vouched \cup {claim}
      /\ \/ CheckTo(c, "proved") /\ claim \in vouched'
         \/ CheckTo(c, "lost")
         \/ CheckEnds(c)
      /\ UNCHANGED <<accounts, agents, gists, visits, registering, delegating, overlapped>>
  BY DEF ReadGist
<1>2. claim \in Dids \X Logins
  BY <1>1 DEF IInv, Checking
<1>3. vouched \subseteq vouched' /\ vouched' \subseteq Dids \X Logins
  BY <1>1, <1>2 DEF IInv, TypeOK
<1>4. checks' \in [Checks -> CheckRows] /\ Checking'
  BY <1>1, <1>3, CheckGoesOn, CheckOver
<1> QED
  BY <1>1, <1>3, <1>4, ChecksKeep DEF IInv, TypeOK

LEMMA CreateGistKeeps ==
    ASSUME IInv, NEW c \in Checks, CreateGist(c)
    PROVE  IInv' /\ RowsStay
<1> DEFINE claim == <<checks[c].did, checks[c].handle>>
<1>1. /\ checks[c].at # "idle"
      /\ gists' = gists \/ gists' = gists \cup {claim}
      /\ CheckTo(c, "published") \/ CheckEnds(c)
      /\ UNCHANGED <<accounts, agents, visits, registering, delegating, vouched, overlapped>>
  BY DEF CreateGist
<1>2. claim \in Dids \X Logins
  BY <1>1 DEF IInv, Checking
<1>3. gists' \subseteq Dids \X Logins
  BY <1>1, <1>2 DEF IInv, TypeOK
<1>4. checks' \in [Checks -> CheckRows] /\ Checking'
  BY <1>1, CheckGoesOn, CheckOver
<1> QED
  BY <1>1, <1>3, <1>4, ChecksKeep DEF IInv, TypeOK

LEMMA CheckPublishedKeeps ==
    ASSUME IInv, NEW c \in Checks, CheckPublished(c)
    PROVE  IInv' /\ RowsStay
<1> DEFINE claim == <<checks[c].did, checks[c].handle>>
<1>1. /\ checks[c].at # "idle"
      /\ gists' \subseteq gists
      /\ vouched' = vouched \/ vouched' = vouched \cup {claim}
      /\ \/ CheckTo(c, "proved") /\ claim \in vouched'
         \/ CheckEnds(c)
      /\ UNCHANGED <<accounts, agents, visits, registering, delegating, overlapped>>
  BY DEF CheckPublished
<1>2. claim \in Dids \X Logins
  BY <1>1 DEF IInv, Checking
<1>3. /\ vouched \subseteq vouched' /\ vouched' \subseteq Dids \X Logins
      /\ gists' \subseteq Dids \X Logins
  BY <1>1, <1>2 DEF IInv, TypeOK
<1>4. checks' \in [Checks -> CheckRows] /\ Checking'
  BY <1>1, <1>3, CheckGoesOn, CheckOver
<1> QED
  BY <1>1, <1>3, <1>4, ChecksKeep DEF IInv, TypeOK

\* What a check writes at last: the proof it has seen, or the loss.
LEMMA CheckWrites ==
    ASSUME IInv, NEW c \in Checks, NEW verified \in BOOLEAN, checks[c].at # "idle",
           verified => checks[c].at = "proved",
           Bound(checks[c].did, checks[c].handle, verified) \/ UNCHANGED agents,
           CheckEnds(c),
           UNCHANGED <<accounts, gists, visits, registering, delegating, vouched, overlapped>>
    PROVE  IInv' /\ RowsStay
<1>1. /\ checks[c].did \in Dids /\ checks[c].handle \in Logins
      /\ verified => <<checks[c].did, checks[c].handle>> \in vouched
  BY DEF IInv, Checking
<1>2. checks' \in [Checks -> CheckRows] /\ Checking'
  BY CheckOver
<1>3. vouched' \subseteq Dids \X Logins /\ gists' \subseteq Dids \X Logins
  BY DEF IInv, TypeOK
<1>4. CASE UNCHANGED agents
  BY <1>2, <1>3, <1>4, ChecksKeep
<1>5. CASE Bound(checks[c].did, checks[c].handle, verified)
  BY <1>1, <1>2, <1>3, <1>5, BoundKeeps DEF CheckRows
<1> QED
  BY <1>4, <1>5

LEMMA WriteLossKeeps ==
    ASSUME IInv, NEW c \in Checks, WriteLoss(c)
    PROVE  IInv' /\ RowsStay
<1>1. checks[c].at # "idle"
  BY DEF WriteLoss
<1> QED
  BY <1>1, CheckWrites DEF WriteLoss

LEMMA WriteProofKeeps ==
    ASSUME IInv, NEW c \in Checks, WriteProof(c)
    PROVE  IInv' /\ RowsStay
<1>1. checks[c].at # "idle"
  BY DEF WriteProof
<1> QED
  BY <1>1, CheckWrites DEF WriteProof

--------------------------------------------------------------------------------
(* The theorems.                                                                *)

LEMMA InitEstablishes == Init => IInv
<1> SUFFICES ASSUME Init PROVE IInv
  OBVIOUS
<1>1. PICK typed \in [Logins -> (Dids \ PlatformAgents) \cup {None}],
           plain \in SUBSET (Dids \ (PlatformAgents \cup Derived)) :
               /\ \A login \in Logins :
                     /\ typed[login] \in Derived => typed[login] = DerivedDid[login]
                     /\ \A other \in Logins \ {login} :
                           typed[login] # None => typed[login] # typed[other]
               /\ accounts = Legacy(typed, plain)
  BY DEF Init
<1>2. \A d \in Dids :
          /\ accounts[d].exists = (d \in plain \/ \E login \in Logins : typed[login] = d)
          /\ accounts[d].login = None
          /\ accounts[d].unproved = IF \E login \in Logins : typed[login] = d
                                    THEN CHOOSE login \in Logins : typed[login] = d ELSE None
  BY <1>1 DEF Legacy
<1>3. \A d \in Dids : (\E login \in Logins : typed[login] = d) =>
          accounts[d].unproved \in Logins /\ typed[accounts[d].unproved] = d
  BY <1>2
<1>4. accounts \in [Dids -> Account]
  <2>1. \A d \in Dids : Legacy(typed, plain)[d] \in Account
    BY <1>1, <1>2, <1>3 DEF Legacy, Account
  <2> QED
    BY <1>1, <2>1 DEF Legacy
<1>5. TypeOK
  BY <1>4 DEF Init, TypeOK, Agent, NoAgent, NoVisit, NotRegistering, NoDelegation, NoCheck
<1>6. DerivedRows
  <2> SUFFICES ASSUME NEW login \in Logins
               PROVE  /\ accounts[DerivedDid[login]].login \in {None, login}
                      /\ accounts[DerivedDid[login]].unproved \in {None, login}
                      /\ accounts[DerivedDid[login]].exists =>
                             \/ accounts[DerivedDid[login]].login = login
                             \/ accounts[DerivedDid[login]].unproved = login
    BY DEF DerivedRows
  <2> DEFINE d == DerivedDid[login]
  <2>1. d \in Dids /\ d \in Derived /\ d \notin plain
    BY RegistryAssumption DEF Derived
  <2>2. \A other \in Logins : typed[other] = d => other = login
    BY <2>1, <1>1, RegistryAssumption
  <2> QED
    BY <2>1, <2>2, <1>2, <1>3
<1>7. OneRow
  BY <1>2 DEF OneRow
<1>8. \A d \in Dids : agents[d] = NoAgent
  BY DEF Init
<1>9. BindingsAreProved /\ Claims
  BY <1>2, <1>8, RegistryAssumption
     DEF BindingsAreProved, Claims, IdentityClaimedOnce, NoAgent, IsAgent, Derived
<1>10. Visiting /\ Registering /\ Delegating /\ Checking
  BY DEF Init, Visiting, Registering, Delegating, Checking, NoVisit, NotRegistering,
         NoDelegation, NoCheck
<1> QED
  BY <1>5, <1>6, <1>7, <1>9, <1>10 DEF IInv

LEMMA StepKeeps == IInv /\ [Next]_vars => IInv' /\ RowsStay
<1> SUFFICES ASSUME IInv, [Next]_vars PROVE IInv' /\ RowsStay
  OBVIOUS
<1>1. ASSUME NEW d \in Dids, NEW login \in Logins, Publish(d, login)
      PROVE  IInv' /\ RowsStay
  BY <1>1, PublishKeeps
<1>2. ASSUME NEW gist \in gists, DeleteGist(gist) PROVE IInv' /\ RowsStay
  BY <1>2, DeleteGistKeeps
<1>3. ASSUME NEW v \in Visits,
             \/ \E login \in Logins : FindAccount(v, login)
             \/ Provision(v) \/ Promote(v) \/ ReRead(v) \/ VisitFails(v)
      PROVE  IInv' /\ RowsStay
  BY <1>3, FindAccountKeeps, ProvisionKeeps, PromoteKeeps, ReReadKeeps, VisitFailsKeeps
<1>4. ASSUME NEW d \in Dids, NEW login \in Logins \cup {None}, StartRegistration(d, login)
      PROVE  IInv' /\ RowsStay
  BY <1>4, StartRegistrationKeeps
<1>5. CASE ProveRegistration \/ Register
  BY <1>5, ProveRegistrationKeeps, RegisterKeeps
<1>6. ASSUME NEW d \in Dids, NEW operator \in Dids, NEW session \in Logins \cup {None},
             NEW handle \in Logins \cup {None}, StartDelegation(d, operator, session, handle)
      PROVE  IInv' /\ RowsStay
  BY <1>6, StartDelegationKeeps
<1>7. CASE CreateAgent \/ BindOwn
  BY <1>7, CreateAgentKeeps, BindOwnKeeps
<1>8. ASSUME NEW c \in Checks,
             \/ \E d \in Dids, login \in Logins :
                    StartGistProof(c, d, login) \/ StartClick(c, d, login)
             \/ ReadGist(c) \/ WriteLoss(c) \/ WriteProof(c) \/ CreateGist(c)
             \/ CheckPublished(c)
      PROVE  IInv' /\ RowsStay
  BY <1>8, StartGistProofKeeps, StartClickKeeps, ReadGistKeeps, WriteLossKeeps,
     WriteProofKeeps, CreateGistKeeps, CheckPublishedKeeps
<1>9. CASE UNCHANGED vars
  BY <1>9, GistsKeep DEF vars, IInv, TypeOK
<1> QED
  BY <1>1, <1>2, <1>3, <1>4, <1>5, <1>6, <1>7, <1>8, <1>9 DEF Next

\* What each request has read stays true until it writes, in every reachable state.
THEOREM RegistryInvariant == Spec => []IInv
BY InitEstablishes, StepKeeps, PTL DEF Spec

\* Type correctness of the registry: rows, gists and the requests under way.
THEOREM RegistryIsTyped == Spec => []TypeOK
<1>1. IInv => TypeOK
  BY DEF IInv
<1> QED
  BY <1>1, RegistryInvariant, PTL

\* No login stands on a row that GitHub did not vouch for with that very DID, and a DID is
\* an account or an agent unless both sides claimed it at once (POST /accounts, POST /agents,
\* provisionAccountForSession and the two account proofs).
THEOREM RowsAreTheirOwners == Spec => []RowsAreOwned
<1>1. IInv => RowsAreOwned
  BY DEF IInv, Claims, RowsAreOwned
<1> QED
  BY <1>1, RegistryInvariant, PTL

\* A session is turned away, its storage well, only while its login has an account the next
\* request finds (provisionAccountForSession's last re-read always finds a row).
THEOREM SessionsResolve == Spec => []SessionResolves
<1>1. IInv => SessionResolves
  BY DEF IInv, Visiting, SessionResolves
<1> QED
  BY <1>1, RegistryInvariant, PTL

\* The one row of a login is its one row after any step.
LEMMA HolderStays ==
    ASSUME OneRow, OneRow', RowsStay, NEW login \in Logins, Holders(login) # {}
    PROVE  Cardinality(Holders(login)) = 1 /\ Holders(login)' = Holders(login)
<1>1. PICK d \in Dids : accounts[d].login = login
  BY DEF Holders
<1>2. login # None
  BY RegistryAssumption
<1>3. accounts'[d].login = login
  BY <1>1, <1>2 DEF RowsStay
<1>4. Holders(login) = {d}
  BY <1>1, <1>2 DEF Holders, OneRow
<1>5. Holders(login)' = {d}
  BY <1>2, <1>3 DEF Holders, OneRow
<1>6. Cardinality({d}) = 1
  BY FS_Singleton
<1> QED
  BY <1>4, <1>5, <1>6

\* A login that leads to an account leads to that one account ever after: sign-ins, the
\* migration's rows and gists included.
THEOREM IdentityIsStable == Spec => StableIdentity
<1>1. IInv /\ IInv' /\ [Next]_vars => LoginsStay
  <2> SUFFICES ASSUME IInv, IInv', [Next]_vars PROVE LoginsStay
    OBVIOUS
  <2>1. RowsStay
    BY StepKeeps
  <2> QED
    BY <2>1, HolderStays DEF IInv, LoginsStay
<1> QED
  BY <1>1, RegistryInvariant, PTL DEF Spec, StableIdentity
================================================================================
