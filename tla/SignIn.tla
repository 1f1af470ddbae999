-------------------------------- MODULE SignIn ---------------------------------
(* How a request comes to speak for somebody: the GitHub OAuth round trip with    *)
(* its state and its cookie, passkeys, the sessions they end in, and the HTTP     *)
(* signatures that need no session. States, challenges and sessions live in the   *)
(* memory of one process; passkeys and spent signatures in the database; cookies  *)
(* in the browsers.                                                              *)
EXTENDS Naturals, FiniteSets

CONSTANTS Browsers,
          Logins,       \* GitHub accounts
          States,       \* OAuth state tokens, each minted once
          Challenges,   \* WebAuthn challenges, each minted once
          Passkeys,     \* the subjects the server makes for new passkeys
          Signatures,   \* signed requests a client has made, each bytes of their own
          Requests,     \* requests that present a signature
          None

ASSUME SignInAssumption ==
    /\ None \notin Browsers \cup Logins \cup States \cup Passkeys \cup Signatures
    /\ Logins \cap Passkeys = {}
    /\ IsFiniteSet(Signatures)

VARIABLES oauth,        \* oauthStates: what a state is for, and whether it was used
          cookie,       \* fa_oauth_state in each browser
          exchanges,    \* callbacks that wait for GitHub to exchange their code
          sessions,     \* the live sessions
          proofs,       \* one-click proofs whose exchange succeeded
          challenges,   \* registrationChallenges and signInChallenges
          saving,       \* verified passkey registrations on their way to the database
          passkeys,     \* stored passkeys
          age,          \* of each signature: still to come, fresh, stale
          checking,     \* per request, the signature whose spend is being checked
          spent,        \* signatureSpend rows
          accepted      \* history: per request, the signature it was let in with

vars == <<oauth, cookie, exchanges, sessions, proofs, challenges, saving, passkeys, age,
          checking, spent, accepted>>

oauthVars == <<oauth, cookie, exchanges, proofs>>
passkeyVars == <<challenges, saving, passkeys>>
signatureVars == <<age, checking, spent, accepted>>

OAuthStates == [phase : {"unborn", "open", "used", "old"}, purpose : {"sign-in", "proof"},
                browser : Browsers \cup {None}]
Exchanges == [browser : Browsers, state : States]
Sessions == [browser : Browsers, method : {"github-oauth", "passkey"},
             subject : Logins \cup Passkeys, state : States \cup {None}]
Challenge == [phase : {"unborn", "open", "used", "old"}, kind : {"register", "sign-in"},
              subject : Passkeys \cup {None}]

TypeOK ==
    /\ oauth \in [States -> OAuthStates]
    /\ cookie \in [Browsers -> States \cup {None}]
    /\ exchanges \subseteq Exchanges
    /\ sessions \subseteq Sessions
    /\ proofs \subseteq Exchanges
    /\ challenges \in [Challenges -> Challenge]
    /\ saving \subseteq [browser : Browsers, subject : Passkeys]
    /\ passkeys \subseteq Passkeys
    /\ age \in [Signatures -> {"to come", "fresh", "stale"}]
    /\ checking \in [Requests -> Signatures \cup {None}]
    /\ spent \subseteq Signatures
    /\ accepted \in [Requests -> Signatures \cup {None}]

Unborn == [phase |-> "unborn", purpose |-> "sign-in", browser |-> None]
NoChallenge == [phase |-> "unborn", kind |-> "register", subject |-> None]

Init ==
    /\ oauth = [s \in States |-> Unborn]
    /\ cookie = [b \in Browsers |-> None]
    /\ exchanges = {}
    /\ sessions = {}
    /\ proofs = {}
    /\ challenges = [c \in Challenges |-> NoChallenge]
    /\ saving = {}
    /\ passkeys = {}
    /\ age = [g \in Signatures |-> "to come"]
    /\ checking = [r \in Requests |-> None]
    /\ spent = {}
    /\ accepted = [r \in Requests |-> None]

--------------------------------------------------------------------------------
(* The GitHub round trip.                                                       *)

Begin(b, s, purpose) ==
    /\ oauth[s].phase = "unborn"
    /\ oauth' = [oauth EXCEPT ![s] = [phase |-> "open", purpose |-> purpose, browser |-> b]]
    /\ cookie' = [cookie EXCEPT ![b] = s]
    /\ UNCHANGED <<exchanges, sessions, proofs, passkeyVars, signatureVars>>

BeginSignIn(b, s) == Begin(b, s, "sign-in")

\* The owner of the agent presses Confirm GitHub, signed in in that browser.
BeginProof(b, s) ==
    /\ \E x \in sessions : x.browser = b
    /\ Begin(b, s, "proof")

StateAges(s) ==
    /\ oauth[s].phase = "open"
    /\ oauth' = [oauth EXCEPT ![s].phase = "old"]
    /\ UNCHANGED <<cookie, exchanges, sessions, proofs, passkeyVars, signatureVars>>

\* peekOAuthStatePurpose: a used state still tells, an old one does not.
Purpose(s) == IF oauth[s].phase \in {"open", "used"} THEN oauth[s].purpose ELSE "sign-in"

\* GitHub's own decline reaches the callback without a code. A proof clears the cookie,
\* a sign-in is answered 400 before it does.
Declined(b, s) ==
    /\ oauth[s].phase # "unborn"
    /\ cookie' = IF Purpose(s) = "proof" THEN [cookie EXCEPT ![b] = None] ELSE cookie
    /\ UNCHANGED <<oauth, exchanges, sessions, proofs, passkeyVars, signatureVars>>

\* The callback in any browser, with a code. The cookie is cleared whatever comes of it;
\* the state is used up only when the cookie holds it.
CallbackUnasked(b, s) ==
    /\ oauth[s].phase # "unborn"
    /\ cookie' = [cookie EXCEPT ![b] = None]
    /\ IF oauth[s].phase = "open"
       THEN /\ oauth' = [oauth EXCEPT ![s].phase = "used"]
            /\ exchanges' = exchanges \cup {[browser |-> b, state |-> s]}
       ELSE UNCHANGED <<oauth, exchanges>>
    /\ UNCHANGED <<sessions, proofs, passkeyVars, signatureVars>>

Callback(b, s) ==
    /\ oauth[s].phase # "unborn"
    /\ cookie' = [cookie EXCEPT ![b] = None]
    /\ IF cookie[b] = s /\ oauth[s].phase = "open"
       THEN /\ oauth' = [oauth EXCEPT ![s].phase = "used"]
            /\ exchanges' = exchanges \cup {[browser |-> b, state |-> s]}
       ELSE UNCHANGED <<oauth, exchanges>>
    /\ UNCHANGED <<sessions, proofs, passkeyVars, signatureVars>>

GithubSession(x, login) ==
    [browser |-> x.browser, method |-> "github-oauth", subject |-> login, state |-> x.state]

EveryExchangeSignsIn(x, login) ==
    /\ exchanges' = exchanges \ {x}
    /\ sessions' = sessions \cup {GithubSession(x, login)}
    /\ proofs' = IF oauth[x.state].purpose = "proof" THEN proofs \cup {x} ELSE proofs
    /\ UNCHANGED <<oauth, cookie, passkeyVars, signatureVars>>

\* exchangeCodeForLogin answers with whoever was signed in at GitHub.
Exchanged(x, login) ==
    /\ exchanges' = exchanges \ {x}
    /\ IF oauth[x.state].purpose = "proof"
       THEN proofs' = proofs \cup {x} /\ UNCHANGED sessions
       ELSE sessions' = sessions \cup {GithubSession(x, login)} /\ UNCHANGED proofs
    /\ UNCHANGED <<oauth, cookie, passkeyVars, signatureVars>>

ExchangeFails(x) ==
    /\ exchanges' = exchanges \ {x}
    /\ UNCHANGED <<oauth, cookie, sessions, proofs, passkeyVars, signatureVars>>

\* POST /auth/signout revokes it, or its day is over: getSession tells neither apart.
EndSession(x) ==
    /\ sessions' = sessions \ {x}
    /\ UNCHANGED <<oauthVars, passkeyVars, signatureVars>>

--------------------------------------------------------------------------------
(* Passkeys.                                                                    *)

MadeFor(p) == \E c \in Challenges : challenges[c].subject = p

\* POST /auth/passkey/register: a fresh name, bound to the ceremony.
RegisterPasskey(c, p) ==
    /\ challenges[c].phase = "unborn" /\ ~MadeFor(p) /\ p \notin passkeys
    /\ challenges' = [challenges EXCEPT ![c] = [phase |-> "open", kind |-> "register",
                                                 subject |-> p]]
    /\ UNCHANGED <<oauthVars, sessions, saving, passkeys, signatureVars>>

BeginPasskeySignIn(c) ==
    /\ challenges[c].phase = "unborn"
    /\ challenges' = [challenges EXCEPT ![c] = [phase |-> "open", kind |-> "sign-in",
                                                 subject |-> None]]
    /\ UNCHANGED <<oauthVars, sessions, saving, passkeys, signatureVars>>

ChallengeAges(c) ==
    /\ challenges[c].phase = "open"
    /\ challenges' = [challenges EXCEPT ![c].phase = "old"]
    /\ UNCHANGED <<oauthVars, sessions, saving, passkeys, signatureVars>>

\* takeChallenge: used up before anything is verified.
Take(c, kind) ==
    /\ challenges[c].phase = "open" /\ challenges[c].kind = kind
    /\ challenges' = [challenges EXCEPT ![c].phase = "used"]

\* POST /auth/passkey/verify up to the save, its checks failing or not.
VerifyPasskey(b, c) ==
    /\ Take(c, "register")
    /\ saving' \in {saving, saving \cup {[browser |-> b, subject |-> challenges[c].subject]}}
    /\ UNCHANGED <<oauthVars, sessions, passkeys, signatureVars>>

PasskeySession(b, p) ==
    [browser |-> b, method |-> "passkey", subject |-> p, state |-> None]

\* Signed in only when the passkey is stored; a save that fails answers 503.
SavePasskey(v) ==
    /\ saving' = saving \ {v}
    /\ \/ /\ passkeys' = passkeys \cup {v.subject}
          /\ sessions' = sessions \cup {PasskeySession(v.browser, v.subject)}
       \/ UNCHANGED <<passkeys, sessions>>
    /\ UNCHANGED <<oauthVars, challenges, signatureVars>>

\* POST /auth/passkey/signin: the account is the stored passkey's. recordUse, whose
\* failure is a 503, writes only its counter.
PasskeySignIn(b, c) ==
    /\ Take(c, "sign-in")
    /\ \/ \E p \in passkeys : sessions' = sessions \cup {PasskeySession(b, p)}
       \/ UNCHANGED sessions
    /\ UNCHANGED <<oauthVars, saving, passkeys, signatureVars>>

--------------------------------------------------------------------------------
(* HTTP signatures: verifyWithReason with the spend store.                       *)

\* `created` enters the window, five seconds early at most, and leaves it.
Ages(g) ==
    /\ age[g] # "stale"
    /\ age' = [age EXCEPT ![g] = IF @ = "to come" THEN "fresh" ELSE "stale"]
    /\ UNCHANGED <<oauthVars, sessions, passkeyVars, checking, spent, accepted>>

\* The checks up to findByKeyidAndHash: it must still be inside the window and unspent.
Present(r, g) ==
    /\ checking[r] = None /\ accepted[r] = None
    /\ age[g] = "fresh" /\ g \notin spent
    /\ checking' = [checking EXCEPT ![r] = g]
    /\ UNCHANGED <<oauthVars, sessions, passkeyVars, age, spent, accepted>>

LetIn(r) ==
    /\ spent' = spent \cup {checking[r]}
    /\ accepted' = [accepted EXCEPT ![r] = checking[r]]

RecordByMap(r) ==
    /\ checking[r] # None
    /\ LetIn(r)
    /\ checking' = [checking EXCEPT ![r] = None]
    /\ UNCHANGED <<oauthVars, sessions, passkeyVars, age>>

\* record: the unique key of signatureSpend refuses the second of two, and so does a
\* store that cannot be reached. A body that does not have the signed digest is refused
\* after the signature is spent.
RecordSpent(r) ==
    /\ checking[r] # None
    /\ \/ checking[r] \notin spent /\ LetIn(r)
       \/ spent' = spent \cup {checking[r]} /\ UNCHANGED accepted
       \/ UNCHANGED <<spent, accepted>>
    /\ checking' = [checking EXCEPT ![r] = None]
    /\ UNCHANGED <<oauthVars, sessions, passkeyVars, age>>

--------------------------------------------------------------------------------
\* The process dies. Browsers keep their cookies, the database its rows.
Crash ==
    /\ oauth' = [s \in States |-> IF oauth[s].phase = "unborn" THEN Unborn
                                   ELSE [oauth[s] EXCEPT !.phase = "old"]]
    /\ exchanges' = {}
    /\ sessions' = {}
    /\ proofs' = {}
    /\ challenges' = [c \in Challenges |-> IF challenges[c].phase = "unborn" THEN NoChallenge
                                           ELSE [challenges[c] EXCEPT !.phase = "old"]]
    /\ saving' = {}
    /\ checking' = [r \in Requests |-> None]
    /\ UNCHANGED <<cookie, passkeys, age, spent, accepted>>

Next ==
    \/ \E b \in Browsers, s \in States :
           BeginSignIn(b, s) \/ BeginProof(b, s) \/ Declined(b, s) \/ Callback(b, s)
    \/ \E s \in States : StateAges(s)
    \/ \E x \in exchanges : ExchangeFails(x) \/ \E login \in Logins : Exchanged(x, login)
    \/ \E x \in sessions : EndSession(x)
    \/ \E c \in Challenges, p \in Passkeys : RegisterPasskey(c, p)
    \/ \E c \in Challenges : BeginPasskeySignIn(c) \/ ChallengeAges(c)
    \/ \E b \in Browsers, c \in Challenges : VerifyPasskey(b, c) \/ PasskeySignIn(b, c)
    \/ \E v \in saving : SavePasskey(v)
    \/ \E g \in Signatures : Ages(g)
    \/ \E r \in Requests, g \in Signatures : Present(r, g)
    \/ \E r \in Requests : RecordSpent(r)
    \/ Crash

Spec == Init /\ [][Next]_vars

--------------------------------------------------------------------------------
(* Properties.                                                                  *)

\* A session is somebody's own: it was completed in the browser whose sign-in it ends,
\* never out of a proof's round trip (GET /auth/github/callback), and a passkey's session
\* is of a passkey a later sign-in will find (POST /auth/passkey/verify).
SessionIsEarned ==
    \A x \in sessions :
        IF x.method = "passkey" THEN x.subject \in passkeys
        ELSE /\ oauth[x.state].purpose = "sign-in"
             /\ oauth[x.state].browser = x.browser

\* A proof that goes on to publish was begun by the browser it comes back in.
ProofIsTheOwners ==
    \A x \in proofs : oauth[x.state].purpose = "proof" /\ oauth[x.state].browser = x.browser

\* A round trip ends where it began, whatever it was for.
RoundTripsComeHome == SessionIsEarned /\ ProofIsTheOwners

\* A signature lets one request in, however many present it at once and wherever the
\* process stops (verifyWithReason's spend check).
SignatureOnce ==
    \A r1, r2 \in Requests :
        accepted[r1] # None /\ accepted[r1] = accepted[r2] => r1 = r2
================================================================================
