------------------------------ MODULE SignInProofs ------------------------------
(* A round trip ends in the browser it began in, and a signature lets one request  *)
(* in, for any number of browsers, states, passkeys, signatures and requests. And  *)
(* the receipt of a hire is true, for any window and any number of requests.       *)
EXTENDS MCIdentity, TLAPS

--------------------------------------------------------------------------------
(* The inductive invariant. A state token stands in the cookie of the browser that *)
(* asked for it and in no other, so whatever the callback lets through that cookie *)
(* is that browser's; a state that has been minted keeps its browser and its       *)
(* purpose, a stored passkey stays stored and a spent signature stays spent.       *)

\* A state that some browser once asked for, and for this.
BegunBy(b, s) == s \in States /\ oauth[s].phase # "unborn" /\ oauth[s].browser = b

CookiesAreOwn == \A b \in Browsers : cookie[b] # None => BegunBy(b, cookie[b])
ExchangesAreOwn == \A x \in exchanges : BegunBy(x.browser, x.state)

SessionsAreEarned ==
    \A x \in sessions :
        IF x.method = "passkey" THEN x.subject \in passkeys
        ELSE BegunBy(x.browser, x.state) /\ oauth[x.state].purpose = "sign-in"

ProofsAreOwn ==
    \A x \in proofs : BegunBy(x.browser, x.state) /\ oauth[x.state].purpose = "proof"

AcceptedIsSpent == \A r \in Requests : accepted[r] # None => accepted[r] \in spent

\* A challenge of a registration is bound to the name that was made for it.
RegistrationsAreNamed ==
    \A c \in Challenges :
        challenges[c].phase # "unborn" /\ challenges[c].kind = "register" =>
            challenges[c].subject \in Passkeys

RoundTrips == CookiesAreOwn /\ ExchangesAreOwn /\ SessionsAreEarned /\ ProofsAreOwn
Spending == AcceptedIsSpent /\ SignatureOnce
IInv == TypeOK /\ RoundTrips /\ RegistrationsAreNamed /\ Spending

--------------------------------------------------------------------------------
(* What a step keeps.                                                           *)

\* No step forgets who began a state that was minted, or what for.
MintedStay ==
    \A s \in States : oauth[s].phase # "unborn" =>
        /\ oauth'[s].phase # "unborn"
        /\ oauth'[s].browser = oauth[s].browser
        /\ oauth'[s].purpose = oauth[s].purpose

LEMMA BegunStays ==
    ASSUME MintedStay, NEW b, NEW s, BegunBy(b, s)
    PROVE  BegunBy(b, s)' /\ oauth'[s].purpose = oauth[s].purpose
BY DEF MintedStay, BegunBy

\* A step that mints no state, puts none into a cookie, completes no exchange and opens
\* no session: what is there was there.
LEMMA NothingNew ==
    ASSUME RoundTrips, MintedStay,
           \A b \in Browsers : cookie'[b] \in {cookie[b], None},
           exchanges' \subseteq exchanges, sessions' \subseteq sessions,
           proofs' \subseteq proofs, passkeys \subseteq passkeys'
    PROVE  RoundTrips'
<1>1. CookiesAreOwn'
  BY DEF RoundTrips, CookiesAreOwn, MintedStay, BegunBy
<1>2. ExchangesAreOwn'
  BY DEF RoundTrips, ExchangesAreOwn, MintedStay, BegunBy
<1>3. SessionsAreEarned'
  BY DEF RoundTrips, SessionsAreEarned, MintedStay, BegunBy
<1>4. ProofsAreOwn'
  BY DEF RoundTrips, ProofsAreOwn, MintedStay, BegunBy
<1> QED
  BY <1>1, <1>2, <1>3, <1>4 DEF RoundTrips

\* A step of a browser leaves the signatures alone.
LEMMA SpendingKept ==
    ASSUME Spending, UNCHANGED <<spent, accepted>>
    PROVE  Spending'
BY DEF Spending, AcceptedIsSpent, SignatureOnce

\* And a step of the GitHub round trip leaves the passkeys alone, too.
LEMMA RestKept ==
    ASSUME RegistrationsAreNamed, Spending, UNCHANGED <<challenges, spent, accepted>>
    PROVE  RegistrationsAreNamed' /\ Spending'
BY SpendingKept DEF RegistrationsAreNamed

--------------------------------------------------------------------------------
(* The GitHub round trip.                                                       *)

LEMMA BeginKeeps ==
    ASSUME IInv, NEW b \in Browsers, NEW s \in States, NEW purpose \in {"sign-in", "proof"},
           Begin(b, s, purpose)
    PROVE  IInv'
<1> DEFINE minted == [phase |-> "open", purpose |-> purpose, browser |-> b]
<1>1. /\ oauth[s].phase = "unborn"
      /\ oauth' = [oauth EXCEPT ![s] = minted]
      /\ cookie' = [cookie EXCEPT ![b] = s]
      /\ UNCHANGED <<exchanges, sessions, proofs, passkeyVars, signatureVars>>
  BY DEF Begin
<1>2. minted \in OAuthStates
  BY DEF OAuthStates
<1>3. TypeOK'
  BY <1>1, <1>2 DEF IInv, TypeOK, passkeyVars, signatureVars
<1>4. MintedStay
  BY <1>1 DEF MintedStay, IInv, TypeOK
<1>5. oauth'[s] = minted /\ \A c \in Browsers : cookie'[c] = IF c = b THEN s ELSE cookie[c]
  BY <1>1 DEF IInv, TypeOK
<1>6. CookiesAreOwn'
  BY <1>4, <1>5 DEF IInv, RoundTrips, CookiesAreOwn, BegunBy, MintedStay
<1>7. ExchangesAreOwn'
  BY <1>1, <1>4 DEF IInv, RoundTrips, ExchangesAreOwn, BegunBy, MintedStay
<1>8. SessionsAreEarned'
  BY <1>1, <1>4 DEF IInv, RoundTrips, SessionsAreEarned, BegunBy, MintedStay, passkeyVars
<1>9. ProofsAreOwn'
  BY <1>1, <1>4 DEF IInv, RoundTrips, ProofsAreOwn, BegunBy, MintedStay
<1>10. RegistrationsAreNamed' /\ Spending'
  BY <1>1, RestKept DEF IInv, passkeyVars, signatureVars
<1> QED
  BY <1>3, <1>6, <1>7, <1>8, <1>9, <1>10 DEF IInv, RoundTrips

LEMMA StateAgesKeeps ==
    ASSUME IInv, NEW s \in States, StateAges(s)
    PROVE  IInv'
<1>1. /\ oauth' = [oauth EXCEPT ![s].phase = "old"]
      /\ UNCHANGED <<cookie, exchanges, sessions, proofs, passkeyVars, signatureVars>>
  BY DEF StateAges
<1>2. TypeOK'
  BY <1>1 DEF IInv, TypeOK, OAuthStates, passkeyVars, signatureVars
<1>3. MintedStay
  BY <1>1 DEF MintedStay, IInv, TypeOK, OAuthStates
<1>4. RoundTrips'
  BY <1>1, <1>3, NothingNew DEF IInv, passkeyVars
<1> QED
  BY <1>1, <1>2, <1>4, RestKept DEF IInv, passkeyVars, signatureVars

LEMMA DeclinedKeeps ==
    ASSUME IInv, NEW b \in Browsers, NEW s \in States, Declined(b, s)
    PROVE  IInv'
<1>1. /\ cookie' \in {cookie, [cookie EXCEPT ![b] = None]}
      /\ UNCHANGED <<oauth, exchanges, sessions, proofs, passkeyVars, signatureVars>>
  BY DEF Declined
<1>2. \A c \in Browsers : cookie'[c] \in {cookie[c], None}
  BY <1>1 DEF IInv, TypeOK
<1>3. TypeOK'
  BY <1>1 DEF IInv, TypeOK, passkeyVars, signatureVars
<1>4. RoundTrips'
  BY <1>1, <1>2, NothingNew DEF IInv, MintedStay, passkeyVars
<1> QED
  BY <1>1, <1>3, <1>4, RestKept DEF IInv, passkeyVars, signatureVars

\* Only the browser that holds the state in its cookie starts an exchange of it.
LEMMA CallbackKeeps ==
    ASSUME IInv, NEW b \in Browsers, NEW s \in States, Callback(b, s)
    PROVE  IInv'
<1> DEFINE came == [browser |-> b, state |-> s]
<1>1. /\ cookie' = [cookie EXCEPT ![b] = None]
      /\ oauth' = oauth \/ oauth' = [oauth EXCEPT ![s].phase = "used"]
      /\ exchanges' = exchanges \/ exchanges' = exchanges \cup {came}
      /\ came \in exchanges' \ exchanges => cookie[b] = s
      /\ UNCHANGED <<sessions, proofs, passkeyVars, signatureVars>>
  BY DEF Callback
<1>2. oauth' = oauth \/ oauth' = [oauth EXCEPT ![s].phase = "used"]
  BY <1>1
<1>3. TypeOK'
  <2>1. came \in Exchanges
    BY DEF Exchanges
  <2>2. oauth' \in [States -> OAuthStates]
    BY <1>2 DEF IInv, TypeOK, OAuthStates
  <2> HIDE DEF came
  <2> QED
    BY <1>1, <2>1, <2>2 DEF IInv, TypeOK, passkeyVars, signatureVars
<1>4. MintedStay
  <2>1. CASE oauth' = oauth
    BY <2>1 DEF MintedStay
  <2>2. CASE oauth' = [oauth EXCEPT ![s].phase = "used"]
    BY <2>2 DEF MintedStay, IInv, TypeOK, OAuthStates
  <2> QED
    BY <1>2, <2>1, <2>2
<1>5. \A c \in Browsers : cookie'[c] \in {cookie[c], None}
  BY <1>1 DEF IInv, TypeOK
<1>6. cookie[b] = s => BegunBy(b, s)'
  BY <1>4, SignInAssumption, BegunStays DEF IInv, RoundTrips, CookiesAreOwn
<1>7. CookiesAreOwn'
  BY <1>4, <1>5 DEF IInv, RoundTrips, CookiesAreOwn, BegunBy, MintedStay
<1>8. ExchangesAreOwn'
  <2> SUFFICES ASSUME NEW x \in exchanges' PROVE BegunBy(x.browser, x.state)'
    BY DEF ExchangesAreOwn
  <2>1. CASE x \in exchanges
    BY <2>1, <1>4, BegunStays DEF IInv, RoundTrips, ExchangesAreOwn
  <2>2. CASE x \notin exchanges
    BY <2>2, <1>1, <1>6
  <2> QED
    BY <2>1, <2>2
<1>9. SessionsAreEarned'
  BY <1>1, <1>4 DEF IInv, RoundTrips, SessionsAreEarned, BegunBy, MintedStay, passkeyVars
<1>10. ProofsAreOwn'
  BY <1>1, <1>4 DEF IInv, RoundTrips, ProofsAreOwn, BegunBy, MintedStay
<1>11. RegistrationsAreNamed' /\ Spending'
  BY <1>1, RestKept DEF IInv, passkeyVars, signatureVars
<1> QED
  BY <1>3, <1>7, <1>8, <1>9, <1>10, <1>11 DEF IInv, RoundTrips

\* What an exchange ends in is for the browser and the purpose its state was begun with.
LEMMA ExchangedKeeps ==
    ASSUME IInv, NEW x \in exchanges, NEW login \in Logins, Exchanged(x, login)
    PROVE  IInv'
<1> DEFINE opened == GithubSession(x, login)
<1>1. /\ exchanges' = exchanges \ {x}
      /\ UNCHANGED <<oauth, cookie, passkeyVars, signatureVars>>
      /\ \/ /\ oauth[x.state].purpose = "proof"
            /\ proofs' = proofs \cup {x} /\ sessions' = sessions
         \/ /\ oauth[x.state].purpose # "proof"
            /\ sessions' = sessions \cup {opened} /\ proofs' = proofs
  BY DEF Exchanged
<1>2. BegunBy(x.browser, x.state) /\ x \in Exchanges
  BY DEF IInv, TypeOK, RoundTrips, ExchangesAreOwn
<1>3. oauth[x.state].purpose \in {"sign-in", "proof"}
  BY <1>2 DEF IInv, TypeOK, OAuthStates, Exchanges
<1>4. /\ opened \in Sessions
      /\ opened.method = "github-oauth" /\ opened.browser = x.browser /\ opened.state = x.state
  BY <1>2 DEF GithubSession, Sessions, Exchanges
<1> HIDE DEF opened
<1>5. TypeOK'
  BY <1>1, <1>2, <1>4 DEF IInv, TypeOK, passkeyVars, signatureVars
<1>6. CookiesAreOwn' /\ ExchangesAreOwn'
  BY <1>1 DEF IInv, RoundTrips, CookiesAreOwn, ExchangesAreOwn, BegunBy
<1>7. SessionsAreEarned'
  BY <1>1, <1>2, <1>3, <1>4 DEF IInv, RoundTrips, SessionsAreEarned, BegunBy, passkeyVars
<1>8. ProofsAreOwn'
  BY <1>1, <1>2 DEF IInv, RoundTrips, ProofsAreOwn, BegunBy
<1>9. RegistrationsAreNamed' /\ Spending'
  BY <1>1, RestKept DEF IInv, passkeyVars, signatureVars
<1> QED
  BY <1>5, <1>6, <1>7, <1>8, <1>9 DEF IInv, RoundTrips

LEMMA ExchangeFailsKeeps ==
    ASSUME IInv, NEW x \in exchanges, ExchangeFails(x)
    PROVE  IInv'
<1>1. exchanges' \subseteq exchanges
      /\ UNCHANGED <<oauth, cookie, sessions, proofs, passkeyVars, signatureVars>>
  BY DEF ExchangeFails
<1>2. TypeOK'
  BY <1>1 DEF IInv, TypeOK, passkeyVars, signatureVars
<1>3. RoundTrips'
  BY <1>1, NothingNew DEF IInv, MintedStay, passkeyVars
<1> QED
  BY <1>1, <1>2, <1>3, RestKept DEF IInv, passkeyVars, signatureVars

LEMMA EndSessionKeeps ==
    ASSUME IInv, NEW x \in sessions, EndSession(x)
    PROVE  IInv'
<1>1. sessions' \subseteq sessions /\ UNCHANGED <<oauthVars, passkeyVars, signatureVars>>
  BY DEF EndSession
<1>2. TypeOK'
  BY <1>1 DEF IInv, TypeOK, oauthVars, passkeyVars, signatureVars
<1>3. RoundTrips'
  BY <1>1, NothingNew DEF IInv, MintedStay, oauthVars, passkeyVars
<1> QED
  BY <1>1, <1>2, <1>3, RestKept DEF IInv, passkeyVars, signatureVars

--------------------------------------------------------------------------------
(* Passkeys.                                                                    *)

\* A step that only mints, ages or takes challenges, or verifies what they bring back.
LEMMA CeremonyKeeps ==
    ASSUME IInv,
           challenges' \in [Challenges -> Challenge], RegistrationsAreNamed',
           saving' \subseteq [browser : Browsers, subject : Passkeys],
           UNCHANGED <<oauthVars, sessions, passkeys, signatureVars>>
    PROVE  IInv'
<1>1. TypeOK'
  BY DEF IInv, TypeOK, oauthVars, signatureVars
<1>2. RoundTrips'
  BY NothingNew DEF IInv, MintedStay, oauthVars
<1> QED
  BY <1>1, <1>2, SpendingKept DEF IInv, signatureVars

LEMMA RegisterPasskeyKeeps ==
    ASSUME IInv, NEW c \in Challenges, NEW p \in Passkeys, RegisterPasskey(c, p)
    PROVE  IInv'
<1>1. challenges' \in [Challenges -> Challenge]
  BY DEF RegisterPasskey, IInv, TypeOK, Challenge
<1>2. RegistrationsAreNamed'
  BY DEF RegisterPasskey, IInv, TypeOK, Challenge, RegistrationsAreNamed
<1> QED
  BY <1>1, <1>2, CeremonyKeeps DEF RegisterPasskey, IInv, TypeOK

LEMMA BeginPasskeySignInKeeps ==
    ASSUME IInv, NEW c \in Challenges, BeginPasskeySignIn(c)
    PROVE  IInv'
<1>1. challenges' \in [Challenges -> Challenge]
  BY DEF BeginPasskeySignIn, IInv, TypeOK, Challenge
<1>2. RegistrationsAreNamed'
  BY DEF BeginPasskeySignIn, IInv, TypeOK, Challenge, RegistrationsAreNamed
<1> QED
  BY <1>1, <1>2, CeremonyKeeps DEF BeginPasskeySignIn, IInv, TypeOK

LEMMA ChallengeAgesKeeps ==
    ASSUME IInv, NEW c \in Challenges, ChallengeAges(c)
    PROVE  IInv'
<1>1. challenges' \in [Challenges -> Challenge]
  BY DEF ChallengeAges, IInv, TypeOK, Challenge
<1>2. RegistrationsAreNamed'
  BY DEF ChallengeAges, IInv, TypeOK, Challenge, RegistrationsAreNamed
<1> QED
  BY <1>1, <1>2, CeremonyKeeps DEF ChallengeAges, IInv, TypeOK

\* What is verified is on its way to the database under the name its challenge was made for.
LEMMA VerifyPasskeyKeeps ==
    ASSUME IInv, NEW b \in Browsers, NEW c \in Challenges, VerifyPasskey(b, c)
    PROVE  IInv'
<1>1. challenges' \in [Challenges -> Challenge]
  BY DEF VerifyPasskey, Take, IInv, TypeOK, Challenge
<1>2. RegistrationsAreNamed'
  BY DEF VerifyPasskey, Take, IInv, TypeOK, Challenge, RegistrationsAreNamed
<1>3. challenges[c].subject \in Passkeys
  BY DEF VerifyPasskey, Take, IInv, RegistrationsAreNamed
<1>4. saving' \subseteq [browser : Browsers, subject : Passkeys]
  <2>1. [browser |-> b, subject |-> challenges[c].subject]
            \in [browser : Browsers, subject : Passkeys]
    BY <1>3
  <2>2. \/ saving' = saving
        \/ saving' = saving \cup {[browser |-> b, subject |-> challenges[c].subject]}
    BY DEF VerifyPasskey
  <2> QED
    BY <2>1, <2>2 DEF IInv, TypeOK
<1> QED
  BY <1>1, <1>2, <1>4, CeremonyKeeps DEF VerifyPasskey

\* A passkey's session is opened over the stored passkey.
LEMMA PasskeySessionKeeps ==
    ASSUME IInv, NEW b \in Browsers, NEW p \in passkeys',
           passkeys \subseteq passkeys',
           sessions' \in {sessions, sessions \cup {PasskeySession(b, p)}},
           UNCHANGED oauthVars
    PROVE  RoundTrips'
<1> DEFINE opened == PasskeySession(b, p)
<1>1. opened.method = "passkey" /\ opened.subject = p
  BY DEF PasskeySession
<1> HIDE DEF opened
<1>2. CookiesAreOwn' /\ ExchangesAreOwn' /\ ProofsAreOwn'
  BY DEF IInv, RoundTrips, CookiesAreOwn, ExchangesAreOwn, ProofsAreOwn, BegunBy, oauthVars
<1>3. SessionsAreEarned'
  <2> SUFFICES ASSUME NEW x \in sessions'
               PROVE  IF x.method = "passkey" THEN x.subject \in passkeys'
                      ELSE BegunBy(x.browser, x.state)' /\ oauth'[x.state].purpose = "sign-in"
    BY DEF SessionsAreEarned
  <2>1. CASE x \in sessions
    BY <2>1 DEF IInv, RoundTrips, SessionsAreEarned, BegunBy, oauthVars
  <2>2. CASE x \notin sessions
    BY <2>2, <1>1 DEF opened
  <2> QED
    BY <2>1, <2>2
<1> QED
  BY <1>2, <1>3 DEF RoundTrips

LEMMA SavePasskeyKeeps ==
    ASSUME IInv, NEW v \in saving, SavePasskey(v)
    PROVE  IInv'
<1>1. v.browser \in Browsers /\ v.subject \in Passkeys
  BY DEF IInv, TypeOK
<1>2. PasskeySession(v.browser, v.subject) \in Sessions
  BY <1>1 DEF PasskeySession, Sessions
<1>3. TypeOK'
  BY <1>1, <1>2 DEF SavePasskey, IInv, TypeOK, oauthVars, signatureVars
<1>4. RoundTrips'
  <2>1. CASE passkeys' = passkeys \cup {v.subject}
             /\ sessions' = sessions \cup {PasskeySession(v.browser, v.subject)}
    BY <2>1, <1>1, PasskeySessionKeeps DEF SavePasskey
  <2>2. CASE UNCHANGED <<passkeys, sessions>>
    BY <2>2, NothingNew DEF SavePasskey, IInv, MintedStay, oauthVars
  <2> QED
    BY <2>1, <2>2 DEF SavePasskey
<1> QED
  BY <1>3, <1>4, RestKept DEF SavePasskey, IInv, signatureVars

LEMMA PasskeySignInKeeps ==
    ASSUME IInv, NEW b \in Browsers, NEW c \in Challenges, PasskeySignIn(b, c)
    PROVE  IInv'
<1>1. challenges' \in [Challenges -> Challenge]
  BY DEF PasskeySignIn, Take, IInv, TypeOK, Challenge
<1>2. RegistrationsAreNamed'
  BY DEF PasskeySignIn, Take, IInv, TypeOK, Challenge, RegistrationsAreNamed
<1>3. UNCHANGED <<oauthVars, saving, passkeys, signatureVars>>
  BY DEF PasskeySignIn
<1>4. CASE UNCHANGED sessions
  BY <1>1, <1>2, <1>3, <1>4, CeremonyKeeps DEF IInv, TypeOK
<1>5. ASSUME NEW p \in passkeys, sessions' = sessions \cup {PasskeySession(b, p)}
      PROVE  IInv'
  <2>1. PasskeySession(b, p) \in Sessions
    BY DEF PasskeySession, Sessions, IInv, TypeOK
  <2>2. TypeOK'
    BY <2>1, <1>1, <1>3, <1>5 DEF IInv, TypeOK, oauthVars, signatureVars
  <2>3. RoundTrips'
    BY <1>3, <1>5, PasskeySessionKeeps
  <2> QED
    BY <2>2, <2>3, <1>2, <1>3, SpendingKept DEF IInv, signatureVars
<1> QED
  BY <1>4, <1>5 DEF PasskeySignIn

--------------------------------------------------------------------------------
(* Signatures.                                                                  *)

\* A step that touches the signatures alone.
LEMMA SignatureStepKeeps ==
    ASSUME IInv, TypeOK', Spending', UNCHANGED <<oauthVars, sessions, passkeyVars>>
    PROVE  IInv'
BY NothingNew DEF IInv, MintedStay, RegistrationsAreNamed, oauthVars, passkeyVars

LEMMA AgesKeeps ==
    ASSUME IInv, NEW g \in Signatures, Ages(g)
    PROVE  IInv'
<1>1. TypeOK'
  BY DEF Ages, IInv, TypeOK, oauthVars, passkeyVars
<1> QED
  BY <1>1, SpendingKept, SignatureStepKeeps DEF Ages, IInv

LEMMA PresentKeeps ==
    ASSUME IInv, NEW r \in Requests, NEW g \in Signatures, Present(r, g)
    PROVE  IInv'
<1>1. TypeOK'
  BY DEF Present, IInv, TypeOK, oauthVars, passkeyVars
<1> QED
  BY <1>1, SpendingKept, SignatureStepKeeps DEF Present, IInv

\* Who is let in spends a signature that was not spent, so nobody was let in with it.
LEMMA RecordSpentKeeps ==
    ASSUME IInv, NEW r \in Requests, RecordSpent(r)
    PROVE  IInv'
<1> DEFINE g == checking[r]
<1>1. g \in Signatures
  BY DEF RecordSpent, IInv, TypeOK
<1>2. /\ spent \subseteq spent' /\ spent' \subseteq spent \cup {g}
      /\ \/ accepted' = accepted
         \/ g \notin spent /\ g \in spent' /\ accepted' = [accepted EXCEPT ![r] = g]
      /\ checking' = [checking EXCEPT ![r] = None]
      /\ UNCHANGED <<oauthVars, sessions, passkeyVars, age>>
  BY DEF RecordSpent, LetIn
<1> HIDE DEF g
<1>3. TypeOK'
  BY <1>1, <1>2 DEF IInv, TypeOK, oauthVars, passkeyVars
<1>4. AcceptedIsSpent'
  BY <1>2 DEF IInv, TypeOK, Spending, AcceptedIsSpent
<1>5. SignatureOnce'
  <2>1. CASE accepted' = accepted
    BY <2>1 DEF IInv, Spending, SignatureOnce
  <2>2. CASE g \notin spent /\ accepted' = [accepted EXCEPT ![r] = g]
    <3>1. \A q \in Requests : accepted'[q] = IF q = r THEN g ELSE accepted[q]
      BY <2>2 DEF IInv, TypeOK
    <3>2. \A q \in Requests : accepted[q] # g
      BY <2>2, <1>1, SignInAssumption DEF IInv, Spending, AcceptedIsSpent
    <3> QED
      BY <3>1, <3>2 DEF IInv, Spending, SignatureOnce
  <2> QED
    BY <1>2, <2>1, <2>2
<1> QED
  BY <1>2, <1>3, <1>4, <1>5, SignatureStepKeeps DEF Spending

--------------------------------------------------------------------------------
\* The process dies: what it forgets was not needed to know what was earned.
LEMMA CrashKeeps ==
    ASSUME IInv, Crash
    PROVE  IInv'
<1>1. TypeOK'
  BY DEF Crash, IInv, TypeOK, OAuthStates, Challenge, Unborn, NoChallenge
<1>2. MintedStay
  BY DEF Crash, MintedStay, IInv, TypeOK, OAuthStates
<1>3. RoundTrips'
  BY <1>2, NothingNew DEF Crash, IInv
<1>4. RegistrationsAreNamed'
  BY DEF Crash, IInv, TypeOK, Challenge, RegistrationsAreNamed, NoChallenge
<1> QED
  BY <1>1, <1>3, <1>4, SpendingKept DEF Crash, IInv

--------------------------------------------------------------------------------
(* The theorems.                                                                *)

LEMMA InitEstablishes == Init => IInv
<1> SUFFICES ASSUME Init PROVE IInv
  OBVIOUS
<1>1. TypeOK
  BY DEF Init, TypeOK, OAuthStates, Unborn, Challenge, NoChallenge
<1>2. RoundTrips
  BY DEF Init, RoundTrips, CookiesAreOwn, ExchangesAreOwn, SessionsAreEarned, ProofsAreOwn
<1>3. RegistrationsAreNamed
  BY DEF Init, RegistrationsAreNamed, NoChallenge
<1>4. Spending
  BY DEF Init, Spending, AcceptedIsSpent, SignatureOnce
<1> QED
  BY <1>1, <1>2, <1>3, <1>4 DEF IInv

LEMMA StutterKeeps == IInv /\ UNCHANGED vars => IInv'
<1> SUFFICES ASSUME IInv, UNCHANGED vars PROVE IInv'
  OBVIOUS
<1>1. TypeOK'
  BY DEF IInv, TypeOK, vars, oauthVars, passkeyVars, signatureVars
<1>2. RoundTrips'
  BY NothingNew DEF IInv, MintedStay, vars, oauthVars, passkeyVars
<1> QED
  BY <1>1, <1>2, RestKept DEF IInv, vars, passkeyVars, signatureVars

LEMMA StepKeeps == IInv /\ [Next]_vars => IInv'
<1> SUFFICES ASSUME IInv, [Next]_vars PROVE IInv'
  OBVIOUS
<1>1. ASSUME NEW b \in Browsers, NEW s \in States,
             BeginSignIn(b, s) \/ BeginProof(b, s) \/ Declined(b, s) \/ Callback(b, s)
      PROVE  IInv'
  BY <1>1, BeginKeeps, DeclinedKeeps, CallbackKeeps DEF BeginSignIn, BeginProof
<1>2. ASSUME NEW s \in States, StateAges(s) PROVE IInv'
  BY <1>2, StateAgesKeeps
<1>3. ASSUME NEW x \in exchanges, ExchangeFails(x) \/ \E login \in Logins : Exchanged(x, login)
      PROVE  IInv'
  BY <1>3, ExchangeFailsKeeps, ExchangedKeeps
<1>4. ASSUME NEW x \in sessions, EndSession(x) PROVE IInv'
  BY <1>4, EndSessionKeeps
<1>5. ASSUME NEW c \in Challenges, NEW p \in Passkeys, RegisterPasskey(c, p) PROVE IInv'
  BY <1>5, RegisterPasskeyKeeps
<1>6. ASSUME NEW c \in Challenges, BeginPasskeySignIn(c) \/ ChallengeAges(c) PROVE IInv'
  BY <1>6, BeginPasskeySignInKeeps, ChallengeAgesKeeps
<1>7. ASSUME NEW b \in Browsers, NEW c \in Challenges, VerifyPasskey(b, c) \/ PasskeySignIn(b, c)
      PROVE  IInv'
  BY <1>7, VerifyPasskeyKeeps, PasskeySignInKeeps
<1>8. ASSUME NEW v \in saving, SavePasskey(v) PROVE IInv'
  BY <1>8, SavePasskeyKeeps
<1>9. ASSUME NEW g \in Signatures, Ages(g) PROVE IInv'
  BY <1>9, AgesKeeps
<1>10. ASSUME NEW r \in Requests, NEW g \in Signatures, Present(r, g) PROVE IInv'
  BY <1>10, PresentKeeps
<1>11. ASSUME NEW r \in Requests, RecordSpent(r) PROVE IInv'
  BY <1>11, RecordSpentKeeps
<1>12. CASE Crash
  BY <1>12, CrashKeeps
<1>13. CASE UNCHANGED vars
  BY <1>13, StutterKeeps
<1> QED
  BY <1>1, <1>2, <1>3, <1>4, <1>5, <1>6, <1>7, <1>8, <1>9, <1>10, <1>11, <1>12, <1>13 DEF Next

\* Cookies, exchanges, sessions and proofs belong to the browser that began them, and what
\* let a request in is spent, in every reachable state.
THEOREM SignInInvariant == Spec => []IInv
BY InitEstablishes, StepKeeps, PTL DEF Spec

\* Type correctness of sign-in: states, cookies, sessions, passkeys and signatures.
THEOREM SignInIsTyped == Spec => []TypeOK
<1>1. IInv => TypeOK
  BY DEF IInv
<1> QED
  BY <1>1, SignInInvariant, PTL

\* A round trip ends in the browser where it began, whatever it was for, and a passkey's
\* session is of a stored passkey: callbacks in another browser, late ones, repeated ones
\* and restarts included (GET /auth/github/callback, POST /auth/passkey/verify).
THEOREM RoundTripsEndWhereTheyBegan == Spec => []RoundTripsComeHome
<1>1. IInv => RoundTripsComeHome
  BY DEF IInv, RoundTrips, SessionsAreEarned, ProofsAreOwn, BegunBy, RoundTripsComeHome,
         SessionIsEarned, ProofIsTheOwners
<1> QED
  BY <1>1, SignInInvariant, PTL

\* A signature lets one request in, however many present it at once
\* (verifyWithReason's spend check).
THEOREM SignaturesAreSpentOnce == Spec => []SignatureOnce
<1>1. IInv => SignatureOnce
  BY DEF IInv, Spending
<1> QED
  BY <1>1, SignInInvariant, PTL

--------------------------------------------------------------------------------
(* The receipt of a hire. What GitHub answered while a request was on its way is   *)
(* true still when the request writes: a merge is never taken back, and once the   *)
(* window is over none inside it can come. The rows agree as long as nothing was   *)
(* torn, up to the second half of a pair of writes that is still to come.          *)

\* The window is over, and the buyer did not merge in time.
DeemedRightly == day > WindowDays /\ ~Signed!MergedInside

\* A request on its way: what it read, what GitHub answered it, what it may write.
InOrder(r) ==
    /\ r.at \in {"ask", "name", "complete", "save", "persist"} => r.copy = "submitted"
    /\ r.at \in {"lookup", "issue"} => r.copy \in {"submitted", "deemed_completed"}
    /\ r.at = "ask" => day > WindowDays
    /\ r.at \in {"lookup", "issue", "persist"} \/ r.copy = "deemed_completed" => DeemedRightly
    /\ r.at \in {"name", "complete", "save"} => Signed!Mergeable /\ pull.mergedAt \in {None, r.merged}
    /\ r.at = "persist" /\ r.clean => receipt # None
    /\ r.at = "act" /\ r.copy = "deemed_completed" /\ r.clean => r.op = "review" \/ receipt # None
    /\ ~torn => r.copy \in {"submitted", row} /\ (r.at = "save" => row = "completed")

CallsInOrder == \A c \in Calls : call[c] # None => InOrder(call[c])

\* Some request is just between two writes of a pair.
IsAt(step) == \E c \in Calls : call[c] # None /\ call[c].at = step

HireReceipt == receipt # None /\ receipt.kind = "hire"
DeemedReceipt == receipt # None /\ receipt.kind = "deemed"

RowsAgree ==
    /\ row = "deemed_completed" \/ DeemedReceipt => DeemedRightly
    /\ ~torn => /\ row = "completed" => HireReceipt \/ IsAt("save")
                /\ HireReceipt => row = "completed"
                /\ DeemedReceipt => row = "deemed_completed" \/ IsAt("persist")
                /\ review # None => row = "completed"

ReceiptInv == Signed!TypeOK /\ CallsInOrder /\ RowsAgree /\ Signed!ReceiptTellsTheTruth

ReceiptRows == [kind : {"hire", "deemed"}, mergedAt : Signed!Days \cup {None}, signer : Nat]
--------------------------------------------------------------------------------
(* What one step makes of the requests.                                            *)

CallsTyped == call \in [Calls -> Signed!InFlight \cup {None}]

\* Of the requests, a step moves one.
Alone(c) == \A d \in Calls \ {c} : call'[d] = call[d]

LEMMA CallEnds ==
    ASSUME Signed!TypeOK, NEW c \in Calls, Signed!End(c)
    PROVE  CallsTyped' /\ Alone(c) /\ call'[c] = None
BY DEF Signed!TypeOK, Signed!End, CallsTyped, Alone

\* A request that goes on keeps what it read.
LEMMA CallGoesOn ==
    ASSUME Signed!TypeOK, NEW c \in Calls, call[c] # None, NEW step \in Signed!Steps,
       Signed!To(c, step)
    PROVE  /\ CallsTyped' /\ Alone(c) /\ call'[c] # None
           /\ call'[c].at = step /\ call'[c].op = call[c].op /\ call'[c].copy = call[c].copy
           /\ call'[c].merged = call[c].merged /\ call'[c].clean = call[c].clean
<1>1. call[c] \in Signed!InFlight
  BY DEF Signed!TypeOK
<1>2. call'[c] = [call[c] EXCEPT !.at = step] /\ Alone(c)
  BY DEF Signed!TypeOK, Signed!To, Alone
<1>3. call'[c] \in Signed!InFlight
  BY <1>1, <1>2 DEF Signed!InFlight
<1>4. /\ call'[c].at = step /\ call'[c].op = call[c].op /\ call'[c].copy = call[c].copy
      /\ call'[c].merged = call[c].merged /\ call'[c].clean = call[c].clean
  BY <1>1, <1>2 DEF Signed!InFlight
<1>5. CallsTyped'
  BY <1>3 DEF Signed!TypeOK, Signed!To, CallsTyped
<1> QED
  BY <1>2, <1>3, <1>4, <1>5, ReceiptsAssumption

LEMMA ToldRequest ==
    ASSUME NEW r \in Signed!InFlight, NEW step \in Signed!Steps,
       NEW at \in Signed!Days \cup {None}
    PROVE  [r EXCEPT !.at = step, !.merged = at] \in Signed!InFlight
BY DEF Signed!InFlight

\* GitHub answered that the pull request is merged, and when.
LEMMA CallIsTold ==
    ASSUME Signed!TypeOK, NEW c \in Calls, call[c] # None, Signed!Mergeable,
           call' = [call EXCEPT ![c].at = "name", ![c].merged = Signed!MergeInstant]
    PROVE  /\ CallsTyped' /\ Alone(c) /\ call'[c] # None
           /\ call'[c].at = "name" /\ call'[c].copy = call[c].copy
           /\ pull.mergedAt \in {None, call'[c].merged}
<1> DEFINE instant == Signed!MergeInstant
<1>1. call[c] \in Signed!InFlight
  BY DEF Signed!TypeOK
<1>2. instant \in Signed!Days \cup {None} /\ pull.mergedAt \in {None, instant} /\ "name" \in Signed!Steps
  BY DEF Signed!MergeInstant, Signed!TypeOK, Signed!Steps
<1> HIDE DEF instant
<1>3. call'[c] = [call[c] EXCEPT !.at = "name", !.merged = instant] /\ Alone(c)
  BY DEF Signed!TypeOK, Alone, instant
<1>4. call'[c] \in Signed!InFlight
  <2>1. [call[c] EXCEPT !.at = "name", !.merged = instant] \in Signed!InFlight
    BY <1>1, <1>2, ToldRequest
  <2> QED
    BY <1>3, <2>1
<1>5. call'[c].at = "name" /\ call'[c].copy = call[c].copy /\ call'[c].merged = instant
  BY <1>1, <1>3 DEF Signed!InFlight
<1>6. CallsTyped'
  BY <1>4 DEF Signed!TypeOK, CallsTyped
<1> QED
  BY <1>2, <1>3, <1>4, <1>5, <1>6, ReceiptsAssumption

\* The credential was looked for, or issued, or neither worked.
LEMMA CallHasReceipt ==
    ASSUME Signed!TypeOK, NEW c \in Calls, call[c] # None, NEW clean \in BOOLEAN,
       Signed!AfterReceipt(c, clean)
    PROVE  /\ CallsTyped' /\ Alone(c) /\ call'[c] # None
           /\ call'[c].at = IF call[c].copy = "submitted" THEN "persist" ELSE "act"
           /\ call'[c].op = call[c].op /\ call'[c].copy = call[c].copy
           /\ call'[c].merged = call[c].merged /\ (call'[c].clean => clean)
<1> DEFINE next == IF call[c].copy = "submitted" THEN "persist" ELSE "act"
           now == call[c].clean /\ clean
<1>1. call[c] \in Signed!InFlight
  BY DEF Signed!TypeOK
<1>2. next \in Signed!Steps
  BY DEF Signed!Steps
<1>3. (now \in BOOLEAN) /\ (now => clean)
  BY <1>1 DEF Signed!InFlight
<1>4. call'[c] = [call[c] EXCEPT !.at = next, !.clean = now] /\ Alone(c)
  BY DEF Signed!TypeOK, Signed!AfterReceipt, Alone
<1>5. call' = [call EXCEPT ![c] = call'[c]]
  BY DEF Signed!TypeOK, Signed!AfterReceipt
<1> HIDE DEF next, now
<1>6. call'[c] \in Signed!InFlight
  BY <1>1, <1>2, <1>3, <1>4 DEF Signed!InFlight
<1>7. /\ call'[c].at = next /\ call'[c].op = call[c].op /\ call'[c].copy = call[c].copy
      /\ call'[c].merged = call[c].merged /\ call'[c].clean = now
  BY <1>1, <1>4 DEF Signed!InFlight
<1>8. CallsTyped'
  BY <1>5, <1>6 DEF Signed!TypeOK, CallsTyped
<1> QED
  BY <1>3, <1>4, <1>6, <1>7, <1>8, ReceiptsAssumption DEF next

\* The request goes on with the job deemed, whether the row was written or not.
LEMMA CallIsDeemed ==
    ASSUME Signed!TypeOK, NEW c \in Calls, call[c] # None,
           call' = [call EXCEPT ![c].at = "act", ![c].copy = "deemed_completed"]
    PROVE  /\ CallsTyped' /\ Alone(c) /\ call'[c] # None
           /\ call'[c].at = "act" /\ call'[c].copy = "deemed_completed"
           /\ call'[c].op = call[c].op /\ call'[c].clean = call[c].clean
<1>1. call[c] \in Signed!InFlight
  BY DEF Signed!TypeOK
<1>2. /\ call'[c] = [call[c] EXCEPT !.at = "act", !.copy = "deemed_completed"]
      /\ Alone(c)
  BY DEF Signed!TypeOK, Alone
<1> "act" \in Signed!Steps /\ "deemed_completed" \in Signed!Endings
  BY DEF Signed!Steps, Signed!Endings
<1>3. call'[c] \in Signed!InFlight
  BY <1>1, <1>2 DEF Signed!InFlight
<1>4. /\ call'[c].at = "act" /\ call'[c].copy = "deemed_completed"
      /\ call'[c].op = call[c].op /\ call'[c].clean = call[c].clean
  BY <1>1, <1>2 DEF Signed!InFlight
<1>5. CallsTyped'
  BY <1>3 DEF Signed!TypeOK, CallsTyped
<1> QED
  BY <1>2, <1>3, <1>4, <1>5, ReceiptsAssumption

\* A new request has read the row as it is.
LEMMA CallBegins ==
    ASSUME Signed!TypeOK, NEW c \in Calls, Signed!Begin(c)
    PROVE  /\ CallsTyped' /\ Alone(c) /\ call'[c] # None
           /\ call'[c].at \in {"clocks", "act"} /\ call'[c].copy = row
           /\ call'[c].at = "act" => call'[c].op = "review"
<1>1. PICK op \in Signed!Ops : call' = [call EXCEPT ![c] =
          [op |-> op, at |-> IF op = "review" THEN "act" ELSE "clocks",
           copy |-> row, merged |-> None, clean |-> TRUE]]
  BY DEF Signed!Begin
<1> DEFINE first == IF op = "review" THEN "act" ELSE "clocks"
<1>2. first \in Signed!Steps /\ first \in {"clocks", "act"} /\ (first = "act" => op = "review")
  BY DEF Signed!Steps
<1> HIDE DEF first
<1>3. /\ call'[c] = [op |-> op, at |-> first, copy |-> row, merged |-> None, clean |-> TRUE]
      /\ Alone(c)
  BY <1>1 DEF Signed!TypeOK, Alone, first
<1> row \in {"submitted"} \cup Signed!Endings /\ None \in Signed!Days \cup {None}
  BY DEF Signed!TypeOK
<1>4. call'[c] \in Signed!InFlight
  BY <1>2, <1>3 DEF Signed!InFlight
<1>5. CallsTyped'
  BY <1>1, <1>3, <1>4 DEF Signed!TypeOK, CallsTyped
<1>6. call'[c].at = first /\ call'[c].op = op /\ call'[c].copy = row
  BY <1>3
<1> QED
  BY <1>2, <1>3, <1>4, <1>5, <1>6, ReceiptsAssumption

\* A signature names a process.
LEMMA SignerType ==
    ASSUME Signed!TypeOK
    PROVE  Signed!Signer \in Nat /\ Signed!SavedDeemed \in ReceiptRows
<1>1. platform.boot \in Nat
  BY DEF Signed!TypeOK
<1>2. Signed!Signer \in Nat
  BY <1>1 DEF Signed!Signer
<1> QED
  BY <1>2 DEF Signed!SavedDeemed, ReceiptRows

\* Every step keeps the types.
LEMMA SignedTypes ==
    ASSUME Signed!TypeOK, Signed!Next
    PROVE  Signed!TypeOK'
<1>1. ASSUME Signed!Tick PROVE Signed!TypeOK'
  <2>1. day \in 0..MaxDay /\ day < MaxDay /\ day' = day + 1
    BY <1>1 DEF Signed!TypeOK, Signed!Tick, Signed!Days
  <2>2. day' \in Signed!Days
    BY <2>1, ReceiptsAssumption DEF Signed!Days
  <2> QED
    BY <1>1, <2>2 DEF Signed!TypeOK, Signed!Tick, Signed!theirWorld, Signed!rows
<1>2. ASSUME Signed!BuyerMerges PROVE Signed!TypeOK'
  <2>1. PICK at \in {day, None} : pull' = [pull EXCEPT !.state = "merged", !.mergedAt = at]
    BY <1>2 DEF Signed!BuyerMerges
  <2>2. pull' \in [state : {"open", "closed", "merged"}, attested : BOOLEAN, mergedAt : Signed!Days \cup {None}]
    BY <2>1 DEF Signed!TypeOK
  <2> QED
    BY <1>2, <2>2 DEF Signed!TypeOK, Signed!BuyerMerges, Signed!theirWorld, Signed!rows
<1>3. ASSUME Signed!PullCloses PROVE Signed!TypeOK'
  <2>1. pull' \in [state : {"open", "closed", "merged"}, attested : BOOLEAN, mergedAt : Signed!Days \cup {None}]
    BY <1>3 DEF Signed!TypeOK, Signed!PullCloses
  <2> QED
    BY <1>3, <2>1 DEF Signed!TypeOK, Signed!PullCloses, Signed!theirWorld, Signed!rows
<1>4. ASSUME Signed!HeadMoves PROVE Signed!TypeOK'
  <2>1. pull' \in [state : {"open", "closed", "merged"}, attested : BOOLEAN, mergedAt : Signed!Days \cup {None}]
    BY <1>4 DEF Signed!TypeOK, Signed!HeadMoves
  <2> QED
    BY <1>4, <2>1 DEF Signed!TypeOK, Signed!HeadMoves, Signed!theirWorld, Signed!rows
<1>5. ASSUME Signed!AgentSigns PROVE Signed!TypeOK'
  <2>1. keys' \subseteq {"in process", "durable"}
    BY <1>5 DEF Signed!TypeOK, Signed!AgentSigns
  <2> QED
    BY <1>5, <2>1 DEF Signed!TypeOK, Signed!AgentSigns, Signed!rows
<1>6. ASSUME Signed!Report PROVE Signed!TypeOK'
  <2>1. PICK since \in 0..day : reports' = reports \cup {[since |-> since, reportedAt |-> day]}
    BY <1>6 DEF Signed!Report
  <2>2. [since |-> since, reportedAt |-> day] \in [since : Signed!Days, reportedAt : Signed!Days]
    <3>1. day \in 0..MaxDay
      BY DEF Signed!TypeOK, Signed!Days
    <3>2. since \in 0..MaxDay
      BY <2>1, <3>1, ReceiptsAssumption
    <3> QED
      BY <3>1, <3>2 DEF Signed!Days
  <2> QED
    BY <1>6, <2>1, <2>2 DEF Signed!TypeOK, Signed!Report, Signed!world
<1>7. ASSUME NEW c \in Calls, Signed!Begin(c) PROVE Signed!TypeOK'
  <2>1. CallsTyped'
    BY <1>7, CallBegins
  <2>2. made' \in 0..MaxCalls
    <3>1. made < MaxCalls /\ made' = made + 1 /\ made \in 0..MaxCalls
      BY <1>7 DEF Signed!TypeOK, Signed!Begin
    <3> QED
      BY <3>1, ReceiptsAssumption
  <2> QED
    BY <1>7, <2>1, <2>2 DEF Signed!TypeOK, CallsTyped, Signed!Begin, Signed!rows
<1>8. ASSUME NEW c \in Calls, Signed!RunClocks(c) PROVE Signed!TypeOK'
  <2>1. \A step \in {"ask", "lookup", "act"} : Signed!To(c, step) => CallsTyped'
    BY <1>8, CallGoesOn DEF Signed!RunClocks, Signed!Steps
  <2>2. CallsTyped'
    BY <1>8, <2>1 DEF Signed!RunClocks
  <2> QED
    BY <1>8, <2>2 DEF Signed!TypeOK, CallsTyped, Signed!RunClocks, Signed!rows,
       Signed!world, Signed!Resting
<1>9. ASSUME NEW c \in Calls, Signed!AskBeforeDeeming(c) PROVE Signed!TypeOK'
  <2>1. CallsTyped'
    BY <1>9, CallEnds, CallGoesOn, CallIsTold, CallHasReceipt, CallIsDeemed,
       CallBegins DEF Signed!AskBeforeDeeming, Signed!Steps
  <2> QED
    BY <1>9, <2>1 DEF Signed!TypeOK, CallsTyped, Signed!AskBeforeDeeming, Signed!rows,
       Signed!world, Signed!Resting, Signed!Write, Signed!Endings
<1>10. ASSUME NEW c \in Calls, Signed!Merge(c) PROVE Signed!TypeOK'
  <2>1. CallsTyped'
    BY <1>10, CallEnds, CallGoesOn, CallIsTold, CallHasReceipt, CallIsDeemed,
       CallBegins DEF Signed!Merge, Signed!Steps
  <2> QED
    BY <1>10, <2>1 DEF Signed!TypeOK, CallsTyped, Signed!Merge, Signed!rows,
       Signed!world, Signed!Resting, Signed!Write, Signed!Endings
<1>11. ASSUME NEW c \in Calls, Signed!Read(c) PROVE Signed!TypeOK'
  <2>1. CallsTyped'
    BY <1>11, CallEnds, CallGoesOn, CallIsTold, CallHasReceipt, CallIsDeemed,
       CallBegins DEF Signed!Read, Signed!Steps
  <2> QED
    BY <1>11, <2>1 DEF Signed!TypeOK, CallsTyped, Signed!Read, Signed!rows,
       Signed!world, Signed!Resting, Signed!Write, Signed!Endings
<1>12. ASSUME NEW c \in Calls, Signed!CitedClose(c) PROVE Signed!TypeOK'
  <2>1. CallsTyped'
    BY <1>12, CallEnds, CallGoesOn, CallIsDeemed DEF Signed!CitedClose, Signed!Steps
  <2>2. row' \in {"submitted"} \cup Signed!Endings /\ torn' \in BOOLEAN
    BY <1>12 DEF Signed!TypeOK, Signed!CitedClose, Signed!Write, Signed!Endings,
       Signed!Resting, Signed!rows
  <2> QED
    BY <1>12, <2>1, <2>2 DEF Signed!TypeOK, CallsTyped, Signed!CitedClose, Signed!rows,
       Signed!world, Signed!Resting, Signed!Write
<1>13. ASSUME NEW c \in Calls, Signed!NameKey(c) PROVE Signed!TypeOK'
  <2>1. CallsTyped'
    BY <1>13, CallEnds, CallGoesOn, CallIsTold, CallHasReceipt, CallIsDeemed,
       CallBegins DEF Signed!NameKey, Signed!Steps
  <2> QED
    BY <1>13, <2>1 DEF Signed!TypeOK, CallsTyped, Signed!NameKey, Signed!rows,
       Signed!world, Signed!Resting, Signed!Write, Signed!Endings
<1>14. ASSUME NEW c \in Calls, Signed!Complete(c) PROVE Signed!TypeOK'
  <2>1. CallsTyped'
    BY <1>14, CallEnds, CallGoesOn, CallIsDeemed DEF Signed!Complete, Signed!Steps
  <2>2. row' \in {"submitted"} \cup Signed!Endings /\ torn' \in BOOLEAN
    BY <1>14 DEF Signed!TypeOK, Signed!Complete, Signed!Write, Signed!Endings,
       Signed!Resting, Signed!rows
  <2> QED
    BY <1>14, <2>1, <2>2 DEF Signed!TypeOK, CallsTyped, Signed!Complete, Signed!rows,
       Signed!world, Signed!Resting, Signed!Write
<1>15. ASSUME NEW c \in Calls, Signed!SaveHire(c) PROVE Signed!TypeOK'
  <2>1. CallsTyped'
    BY <1>15, CallEnds DEF Signed!SaveHire
  <2>2. receipt' \in ReceiptRows \cup {None}
    <3>1. call[c] \in Signed!InFlight
      BY <1>15 DEF Signed!SaveHire, Signed!TypeOK
    <3>2. call[c].merged \in Signed!Days \cup {None}
      BY <3>1 DEF Signed!InFlight
    <3>3. Signed!SavedHire(c) \in ReceiptRows
      BY <3>2, SignerType DEF Signed!SavedHire, ReceiptRows
    <3> QED
      BY <1>15, <3>3 DEF Signed!SaveHire, Signed!TypeOK, ReceiptRows
  <2> QED
    BY <1>15, <2>1, <2>2 DEF Signed!TypeOK, CallsTyped, Signed!SaveHire, Signed!world,
       ReceiptRows
<1>16. ASSUME NEW c \in Calls, Signed!Lookup(c) PROVE Signed!TypeOK'
  <2>1. CallsTyped'
    BY <1>16, CallEnds, CallGoesOn, CallIsTold, CallHasReceipt, CallIsDeemed,
       CallBegins DEF Signed!Lookup, Signed!Steps
  <2> QED
    BY <1>16, <2>1 DEF Signed!TypeOK, CallsTyped, Signed!Lookup, Signed!rows,
       Signed!world, Signed!Resting, Signed!Write, Signed!Endings
<1>17. ASSUME NEW c \in Calls, Signed!IssueDeemed(c) PROVE Signed!TypeOK'
  <2>1. CallsTyped'
    BY <1>17, CallHasReceipt DEF Signed!IssueDeemed
  <2>2. receipt' \in ReceiptRows \cup {None}
    <3> QED
      BY <1>17, SignerType DEF Signed!IssueDeemed, Signed!TypeOK, ReceiptRows
  <2> QED
    BY <1>17, <2>1, <2>2 DEF Signed!TypeOK, CallsTyped, Signed!IssueDeemed,
       Signed!world, ReceiptRows
<1>18. ASSUME NEW c \in Calls, Signed!PersistDeemed(c) PROVE Signed!TypeOK'
  <2>1. CallsTyped'
    BY <1>18, CallEnds, CallGoesOn, CallIsDeemed DEF Signed!PersistDeemed, Signed!Steps
  <2>2. row' \in {"submitted"} \cup Signed!Endings /\ torn' \in BOOLEAN
    BY <1>18 DEF Signed!TypeOK, Signed!PersistDeemed, Signed!Write, Signed!Endings,
       Signed!Resting, Signed!rows
  <2> QED
    BY <1>18, <2>1, <2>2 DEF Signed!TypeOK, CallsTyped, Signed!PersistDeemed,
       Signed!rows, Signed!world, Signed!Resting, Signed!Write
<1>19. ASSUME NEW c \in Calls, Signed!SaveReview(c) PROVE Signed!TypeOK'
  <2>1. CallsTyped'
    BY <1>19, CallEnds, CallGoesOn, CallIsTold, CallHasReceipt, CallIsDeemed,
       CallBegins DEF Signed!SaveReview, Signed!Steps
  <2> QED
    BY <1>19, <2>1 DEF Signed!TypeOK, CallsTyped, Signed!SaveReview, Signed!rows,
       Signed!world, Signed!Resting, Signed!Write, Signed!Endings
<1>20. ASSUME Signed!Restart PROVE Signed!TypeOK'
  <2>1. platform' \in [seeded : BOOLEAN, holdsKey : BOOLEAN, boot : Nat]
    <3>1. platform \in [seeded : BOOLEAN, holdsKey : BOOLEAN, boot : Nat]
      BY DEF Signed!TypeOK
    <3>2. platform' = [platform EXCEPT !.boot = platform.boot + 1]
      BY <1>20, <3>1 DEF Signed!Restart
    <3>3. platform.boot + 1 \in Nat
      BY <3>1
    <3> QED
      BY <3>1, <3>2, <3>3
  <2>2. torn' \in BOOLEAN
    BY <1>20 DEF Signed!TypeOK, Signed!Restart, Signed!Halfway
  <2> QED
    BY <1>20, <2>1, <2>2 DEF Signed!TypeOK, Signed!Restart, Signed!rows
<1> QED
  BY <1>1, <1>2, <1>3, <1>4, <1>5, <1>6, <1>7, <1>8, <1>9, <1>10, <1>11, <1>12, <1>13,
     <1>14, <1>15, <1>16, <1>17, <1>18, <1>19, <1>20 DEF Signed!Next

--------------------------------------------------------------------------------
(* What is true stays true.                                                        *)

\* No merge and no receipt is taken back, and a window that is over stays so.
Onward ==
    /\ Signed!Mergeable => Signed!Mergeable' /\ pull'.mergedAt = pull.mergedAt
    /\ DeemedRightly => DeemedRightly'
    /\ day > WindowDays => (day > WindowDays)'
    /\ receipt # None => receipt' = receipt

LEMMA DayIsNat ==
    ASSUME Signed!TypeOK
    PROVE  day \in Nat /\ WindowDays \in Nat
<1>1. day \in Signed!Days
  BY DEF Signed!TypeOK
<1> QED
  BY <1>1, ReceiptsAssumption DEF Signed!Days

\* Days go by.
LEMMA DaysGoBy ==
    ASSUME Signed!TypeOK, pull' = pull, receipt' = receipt, day' \in {day, day + 1}
    PROVE  Onward
<1>1. day \in Nat /\ WindowDays \in Nat
  BY DayIsNat
<1>2. day > WindowDays => day' > WindowDays
  BY <1>1
<1> QED
  BY <1>2 DEF Onward, Signed!Mergeable, DeemedRightly, Signed!MergedInside,
     Signed!InsideWindow

\* Time stands still and no receipt is taken back.
LEMMA NothingTakenBack ==
    ASSUME pull' = pull, day' = day, receipt # None => receipt' = receipt
    PROVE  Onward
BY DEF Onward, Signed!Mergeable, DeemedRightly, Signed!MergedInside, Signed!InsideWindow

\* The pull request moves only while it is open, and a merge names its day.
LEMMA PullMoves ==
    ASSUME Signed!TypeOK, pull.state = "open", day' = day, receipt' = receipt,
           \/ \E at \in {day, None} : pull' = [pull EXCEPT !.state = "merged", !.mergedAt = at]
           \/ pull' = [pull EXCEPT !.state = "closed"]
           \/ pull' = [pull EXCEPT !.attested = ~@]
    PROVE  Onward
<1>1. /\ DOMAIN pull = {"state", "attested", "mergedAt"}
      /\ day \in Nat /\ WindowDays \in Nat
  BY DayIsNat DEF Signed!TypeOK
<1>2. ~Signed!Mergeable
  BY DEF Signed!Mergeable
<1>3. ASSUME DeemedRightly PROVE DeemedRightly'
  <2>1. day > WindowDays
    BY <1>3 DEF DeemedRightly
  <2>2. \/ pull'.state # "merged"
        \/ pull'.mergedAt = day
        \/ pull'.mergedAt = None
    BY <1>1
  <2>3. ~(Signed!MergedInside')
    BY <1>1, <2>1, <2>2 DEF Signed!MergedInside, Signed!Mergeable, Signed!InsideWindow
  <2> QED
    BY <2>1, <2>3 DEF DeemedRightly
<1> QED
  BY <1>2, <1>3 DEF Onward

\* What one request may rely on is not another's to break: the row it read is the row
\* still, or something is torn.
LEMMA OthersStay ==
    ASSUME Signed!TypeOK, CallsInOrder, Onward, NEW c \in Calls, Alone(c),
           ~torn' => ~torn /\ (row' = row \/ row = "submitted")
    PROVE  (call[c] # None => InOrder(call[c]))' => CallsInOrder'
<1> SUFFICES ASSUME (call[c] # None => InOrder(call[c]))', NEW d \in Calls, d # c,
   call'[d] # None
             PROVE  InOrder(call[d])'
  BY DEF CallsInOrder
<1>1. call'[d] = call[d] /\ InOrder(call[d])
  BY DEF Alone, CallsInOrder
<1>2. ~torn /\ row = "submitted" => call[d].copy = "submitted" /\ call[d].at # "save"
  BY <1>1 DEF InOrder
<1> QED
  BY <1>1, <1>2 DEF InOrder, Onward

\* And so for all of them while none moves.
LEMMA AllStay ==
    ASSUME Signed!TypeOK, CallsInOrder, Onward, call' = call, row' = row, torn' = torn
    PROVE  CallsInOrder'
BY DEF CallsInOrder, InOrder, Onward

\* What a request acts on stays true until it has acted.
LEMMA OrderStep ==
    ASSUME Signed!TypeOK, CallsInOrder, RowsAgree, Signed!Next
    PROVE  CallsInOrder'
<1>1. ASSUME Signed!Tick PROVE CallsInOrder'
  <2>1. Onward
    BY <1>1, DaysGoBy, NothingTakenBack, PullMoves DEF Signed!Tick, Signed!theirWorld,
       Signed!rows, Signed!world
  <2> QED
    BY <1>1, <2>1, AllStay DEF Signed!Tick, Signed!theirWorld, Signed!rows, Signed!world
<1>2. ASSUME Signed!BuyerMerges PROVE CallsInOrder'
  <2>1. Onward
    BY <1>2, DaysGoBy, NothingTakenBack, PullMoves DEF Signed!BuyerMerges,
       Signed!theirWorld, Signed!rows, Signed!world
  <2> QED
    BY <1>2, <2>1, AllStay DEF Signed!BuyerMerges, Signed!theirWorld, Signed!rows,
       Signed!world
<1>3. ASSUME Signed!PullCloses PROVE CallsInOrder'
  <2>1. Onward
    BY <1>3, DaysGoBy, NothingTakenBack, PullMoves DEF Signed!PullCloses,
       Signed!theirWorld, Signed!rows, Signed!world
  <2> QED
    BY <1>3, <2>1, AllStay DEF Signed!PullCloses, Signed!theirWorld, Signed!rows,
       Signed!world
<1>4. ASSUME Signed!HeadMoves PROVE CallsInOrder'
  <2>1. Onward
    BY <1>4, DaysGoBy, NothingTakenBack, PullMoves DEF Signed!HeadMoves,
       Signed!theirWorld, Signed!rows, Signed!world
  <2> QED
    BY <1>4, <2>1, AllStay DEF Signed!HeadMoves, Signed!theirWorld, Signed!rows,
       Signed!world
<1>5. ASSUME Signed!AgentSigns PROVE CallsInOrder'
  <2>1. Onward
    BY <1>5, DaysGoBy, NothingTakenBack, PullMoves DEF Signed!AgentSigns,
       Signed!theirWorld, Signed!rows, Signed!world
  <2> QED
    BY <1>5, <2>1, AllStay DEF Signed!AgentSigns, Signed!theirWorld, Signed!rows,
       Signed!world
<1>6. ASSUME Signed!Report PROVE CallsInOrder'
  <2>1. Onward
    BY <1>6, DaysGoBy, NothingTakenBack, PullMoves DEF Signed!Report, Signed!theirWorld,
       Signed!rows, Signed!world
  <2> QED
    BY <1>6, <2>1, AllStay DEF Signed!Report, Signed!theirWorld, Signed!rows,
       Signed!world
<1>7. ASSUME NEW c \in Calls, Signed!Begin(c) PROVE CallsInOrder'
  <2>1. Onward /\ row' = row /\ torn' = torn
    BY <1>7, NothingTakenBack DEF Signed!Begin, Signed!rows
  <2>2. /\ Alone(c) /\ call'[c].at \in {"clocks", "act"} /\ call'[c].copy = row
        /\ call'[c].at = "act" => call'[c].op = "review"
    BY <1>7, CallBegins
  <2>3. InOrder(call[c])'
    BY <2>1, <2>2 DEF InOrder, RowsAgree, Onward
  <2> QED
    BY <2>1, <2>2, <2>3, OthersStay
<1>8. ASSUME NEW c \in Calls, Signed!RunClocks(c) PROVE CallsInOrder'
  <2>1. Onward /\ row' = row /\ torn' = torn /\ day' = day /\ receipt' = receipt
    BY <1>8, NothingTakenBack DEF Signed!RunClocks, Signed!Resting, Signed!rows,
       Signed!world
  <2>2. InOrder(call[c]) /\ call[c] # None /\ call[c].at = "clocks"
    BY <1>8 DEF CallsInOrder, Signed!RunClocks
  <2>3. ASSUME NEW step \in {"ask", "lookup", "act"}, Signed!To(c, step),
               step = "ask" <=> Signed!WindowHasPassed(c),
               step = "lookup" => call[c].copy = "deemed_completed",
               step = "act" => call[c].copy # "deemed_completed"
        PROVE  CallsInOrder'
    <3>1. /\ Alone(c) /\ call'[c].at = step /\ call'[c].copy = call[c].copy
          /\ call'[c].op = call[c].op /\ call'[c].clean = call[c].clean
      BY <2>2, <2>3, CallGoesOn DEF Signed!Steps
    <3>2. InOrder(call[c])'
      BY <2>1, <2>2, <2>3, <3>1 DEF InOrder, Onward, Signed!WindowHasPassed
    <3> QED
      BY <2>1, <3>1, <3>2, OthersStay
  <2>4. Signed!WindowHasPassed(c) => call[c].copy # "deemed_completed"
    BY DEF Signed!WindowHasPassed
  <2> QED
    BY <1>8, <2>3, <2>4 DEF Signed!RunClocks
<1>9. ASSUME NEW c \in Calls, Signed!AskBeforeDeeming(c) PROVE CallsInOrder'
  <2>1. Onward /\ row' = row /\ torn' = torn /\ pull' = pull /\ day' = day /\ receipt' = receipt
    BY <1>9, NothingTakenBack DEF Signed!AskBeforeDeeming, Signed!Resting, Signed!rows,
       Signed!world
  <2>2. InOrder(call[c]) /\ call[c] # None /\ call[c].at = "ask"
    BY <1>9 DEF CallsInOrder, Signed!AskBeforeDeeming
  <2>3. CASE Signed!End(c)
    BY <2>1, <2>3, CallEnds, OthersStay
  <2>4. CASE /\ Signed!Mergeable /\ Signed!InsideWindow(Signed!MergeInstant)
             /\ call' = [call EXCEPT ![c].at = "name", ![c].merged = Signed!MergeInstant]
    <3>1. /\ Alone(c) /\ call'[c].at = "name" /\ call'[c].copy = call[c].copy
          /\ pull.mergedAt \in {None, call'[c].merged}
      BY <2>2, <2>4, CallIsTold
    <3>2. InOrder(call[c])'
      BY <2>1, <2>2, <2>4, <3>1 DEF InOrder, Onward
    <3> QED
      BY <2>1, <3>1, <3>2, OthersStay
  <2>5. CASE ~(Signed!Mergeable /\ Signed!InsideWindow(Signed!MergeInstant)) /\ Signed!To(c, "lookup")
    <3>1. Alone(c) /\ call'[c].at = "lookup" /\ call'[c].copy = call[c].copy
      BY <2>2, <2>5, CallGoesOn DEF Signed!Steps
    <3>2. DeemedRightly
      BY <2>2, <2>5 DEF InOrder, DeemedRightly, Signed!MergedInside, Signed!MergeInstant
    <3>3. InOrder(call[c])'
      BY <2>1, <2>2, <3>1, <3>2 DEF InOrder, Onward
    <3> QED
      BY <2>1, <3>1, <3>3, OthersStay
  <2> QED
    BY <1>9, <2>3, <2>4, <2>5 DEF Signed!AskBeforeDeeming
<1>10. ASSUME NEW c \in Calls, Signed!Merge(c) PROVE CallsInOrder'
  <2>1. Onward /\ row' = row /\ torn' = torn
    BY <1>10, NothingTakenBack DEF Signed!Merge, Signed!Resting, Signed!rows,
       Signed!world
  <2>2. InOrder(call[c]) /\ call[c] # None
    BY <1>10 DEF CallsInOrder, Signed!Merge
  <2>3. CASE Signed!End(c)
    BY <2>1, <2>3, CallEnds, OthersStay
  <2>4. CASE /\ call[c].copy = "submitted" /\ Signed!Mergeable
             /\ call' = [call EXCEPT ![c].at = "name", ![c].merged = Signed!MergeInstant]
    <3>1. /\ Alone(c) /\ call'[c].at = "name" /\ call'[c].copy = call[c].copy
          /\ pull.mergedAt \in {None, call'[c].merged}
      BY <2>2, <2>4, CallIsTold
    <3>2. InOrder(call[c])'
      BY <2>1, <2>2, <2>4, <3>1 DEF InOrder, Onward
    <3> QED
      BY <2>1, <3>1, <3>2, OthersStay
  <2> QED
    BY <1>10, <2>3, <2>4 DEF Signed!Merge
<1>11. ASSUME NEW c \in Calls, Signed!Read(c) PROVE CallsInOrder'
  <2>1. Onward /\ row' = row /\ torn' = torn
    BY <1>11, NothingTakenBack DEF Signed!Read, Signed!Resting, Signed!rows,
       Signed!world
  <2> QED
    BY <1>11, <2>1, CallEnds, OthersStay DEF Signed!Read
<1>12. ASSUME NEW c \in Calls, Signed!CitedClose(c) PROVE CallsInOrder'
  <2>1. Onward /\ (~torn' => ~torn /\ (row' = row \/ row = "submitted"))
    <3>1. Onward
      BY <1>12, NothingTakenBack DEF Signed!CitedClose, Signed!Resting, Signed!rows,
         Signed!world
    <3>2. CASE UNCHANGED <<row, torn>>
      BY <3>1, <3>2
    <3>3. CASE call[c].copy = "submitted" /\ Signed!Write(c, "cited_closed")
      BY <3>1, <3>3 DEF Signed!Write
    <3> QED
      BY <1>12, <3>2, <3>3 DEF Signed!CitedClose, Signed!Resting, Signed!rows
  <2> QED
    BY <1>12, <2>1, CallEnds, OthersStay DEF Signed!CitedClose
<1>13. ASSUME NEW c \in Calls, Signed!NameKey(c) PROVE CallsInOrder'
  <2>1. Onward /\ row' = row /\ torn' = torn
    BY <1>13, NothingTakenBack DEF Signed!NameKey, Signed!Resting, Signed!rows,
       Signed!world
  <2>2. InOrder(call[c]) /\ call[c] # None /\ call[c].at = "name"
    BY <1>13 DEF CallsInOrder, Signed!NameKey
  <2>3. CASE Signed!End(c)
    BY <2>1, <2>3, CallEnds, OthersStay
  <2>4. CASE Signed!To(c, "complete")
    <3>1. /\ Alone(c) /\ call'[c].at = "complete" /\ call'[c].copy = call[c].copy
          /\ call'[c].merged = call[c].merged
      BY <2>2, <2>4, CallGoesOn DEF Signed!Steps
    <3>2. InOrder(call[c])'
      BY <2>1, <2>2, <3>1 DEF InOrder, Onward
    <3> QED
      BY <2>1, <3>1, <3>2, OthersStay
  <2> QED
    BY <1>13, <2>3, <2>4 DEF Signed!NameKey
<1>14. ASSUME NEW c \in Calls, Signed!Complete(c) PROVE CallsInOrder'
  <2>1. InOrder(call[c]) /\ call[c] # None /\ call[c].at = "complete"
    BY <1>14 DEF CallsInOrder, Signed!Complete
  <2>2. CASE Signed!End(c) /\ Signed!Resting
    <3>1. Onward /\ row' = row /\ torn' = torn
      BY <2>2, NothingTakenBack DEF Signed!Resting, Signed!rows, Signed!world
    <3> QED
      BY <2>2, <3>1, CallEnds, OthersStay
  <2>3. CASE /\ Signed!Write(c, "completed") /\ Signed!To(c, "save")
             /\ UNCHANGED <<receipt, review, reports, Signed!world>>
    <3>1. Onward /\ row' = "completed" /\ (~torn' => ~torn /\ row = "submitted")
      BY <2>1, <2>3, NothingTakenBack DEF Signed!world, Signed!Write, InOrder
    <3>2. /\ Alone(c) /\ call'[c].at = "save" /\ call'[c].copy = call[c].copy
          /\ call'[c].merged = call[c].merged
      BY <2>1, <2>3, CallGoesOn DEF Signed!Steps
    <3>3. InOrder(call[c])'
      BY <2>1, <3>1, <3>2 DEF InOrder, Onward
    <3> QED
      BY <3>1, <3>2, <3>3, OthersStay
  <2> QED
    BY <1>14, <2>2, <2>3 DEF Signed!Complete
<1>15. ASSUME NEW c \in Calls, Signed!SaveHire(c) PROVE CallsInOrder'
  <2>1. Onward /\ (~torn' => ~torn /\ row' = row)
    BY <1>15, NothingTakenBack DEF Signed!SaveHire, Signed!world
  <2> QED
    BY <1>15, <2>1, CallEnds, OthersStay DEF Signed!SaveHire
<1>16. ASSUME NEW c \in Calls, Signed!Lookup(c) PROVE CallsInOrder'
  <2>1. Onward /\ row' = row /\ torn' = torn /\ receipt' = receipt
    BY <1>16, NothingTakenBack DEF Signed!Lookup, Signed!Resting, Signed!rows,
       Signed!world
  <2>2. InOrder(call[c]) /\ call[c] # None /\ call[c].at = "lookup"
    BY <1>16 DEF CallsInOrder, Signed!Lookup
  <2>3. CASE Signed!To(c, "issue")
    <3>1. Alone(c) /\ call'[c].at = "issue" /\ call'[c].copy = call[c].copy
      BY <2>2, <2>3, CallGoesOn DEF Signed!Steps
    <3>2. InOrder(call[c])'
      BY <2>1, <2>2, <3>1 DEF InOrder, Onward
    <3> QED
      BY <2>1, <3>1, <3>2, OthersStay
  <2>4. ASSUME NEW clean \in BOOLEAN, Signed!AfterReceipt(c, clean),
     clean => receipt # None
        PROVE  CallsInOrder'
    <3>1. /\ Alone(c) /\ call'[c].at = IF call[c].copy = "submitted" THEN "persist" ELSE "act"
          /\ call'[c].copy = call[c].copy /\ (call'[c].clean => clean)
      BY <2>2, <2>4, CallHasReceipt
    <3>2. InOrder(call[c])'
      BY <2>1, <2>2, <2>4, <3>1 DEF InOrder, Onward
    <3> QED
      BY <2>1, <3>1, <3>2, OthersStay
  <2> QED
    BY <1>16, <2>3, <2>4 DEF Signed!Lookup
<1>17. ASSUME NEW c \in Calls, Signed!IssueDeemed(c) PROVE CallsInOrder'
  <2>1. Onward /\ row' = row /\ torn' = torn
    BY <1>17, NothingTakenBack DEF Signed!IssueDeemed, Signed!world
  <2>2. InOrder(call[c]) /\ call[c] # None /\ call[c].at = "issue"
    BY <1>17 DEF CallsInOrder, Signed!IssueDeemed
  <2>3. ASSUME NEW clean \in BOOLEAN, Signed!AfterReceipt(c, clean),
     clean => receipt' # None
        PROVE  CallsInOrder'
    <3>1. /\ Alone(c) /\ call'[c].at = IF call[c].copy = "submitted" THEN "persist" ELSE "act"
          /\ call'[c].copy = call[c].copy /\ (call'[c].clean => clean)
      BY <2>2, <2>3, CallHasReceipt
    <3>2. InOrder(call[c])'
      BY <2>1, <2>2, <2>3, <3>1 DEF InOrder, Onward
    <3> QED
      BY <2>1, <3>1, <3>2, OthersStay
  <2>4. Signed!SavedDeemed # None
    BY SignerType, ReceiptsAssumption DEF ReceiptRows
  <2> QED
    BY <1>17, <2>3, <2>4 DEF Signed!IssueDeemed
<1>18. ASSUME NEW c \in Calls, Signed!PersistDeemed(c) PROVE CallsInOrder'
  <2>1. InOrder(call[c]) /\ call[c] # None /\ call[c].at = "persist"
    BY <1>18 DEF CallsInOrder, Signed!PersistDeemed
  <2>2. Onward /\ receipt' = receipt
    BY <1>18, NothingTakenBack DEF Signed!PersistDeemed, Signed!world
  <2>3. ~torn' => ~torn /\ row = "submitted" /\ row' = "deemed_completed"
    BY <1>18, <2>1 DEF Signed!PersistDeemed, Signed!Write, InOrder
  <2>4. /\ Alone(c) /\ call'[c].at = "act" /\ call'[c].copy = "deemed_completed"
        /\ call'[c].op = call[c].op /\ call'[c].clean = call[c].clean
    BY <1>18, <2>1, CallIsDeemed DEF Signed!PersistDeemed
  <2>5. InOrder(call[c])'
    BY <2>1, <2>2, <2>3, <2>4 DEF InOrder, Onward
  <2> QED
    BY <2>2, <2>3, <2>4, <2>5, OthersStay
<1>19. ASSUME NEW c \in Calls, Signed!SaveReview(c) PROVE CallsInOrder'
  <2>1. Onward /\ row' = row /\ torn' = torn
    BY <1>19, NothingTakenBack DEF Signed!SaveReview, Signed!world
  <2> QED
    BY <1>19, <2>1, CallEnds, OthersStay DEF Signed!SaveReview
<1>20. ASSUME Signed!Restart PROVE CallsInOrder'
  BY <1>20 DEF Signed!Restart, CallsInOrder
<1> QED
  BY <1>1, <1>2, <1>3, <1>4, <1>5, <1>6, <1>7, <1>8, <1>9, <1>10, <1>11, <1>12, <1>13,
     <1>14, <1>15, <1>16, <1>17, <1>18, <1>19, <1>20 DEF Signed!Next

--------------------------------------------------------------------------------
(* The rows.                                                                       *)

\* While no row is written and no request leaves a pair of writes, the rows agree.
LEMMA RowsStay ==
    ASSUME RowsAgree, Onward, row' = row, receipt' = receipt, review' = review,
           torn => torn',
           ~torn' => \A step \in {"save", "persist"} : IsAt(step) => IsAt(step)'
    PROVE  RowsAgree'
BY DEF RowsAgree, Onward, HireReceipt, DeemedReceipt

\* A request that is between no two writes leaves those that are where they are.
LEMMA HalvesStay ==
    ASSUME NEW c \in Calls, Alone(c), NEW step \in {"save", "persist"},
           call[c] = None \/ call[c].at # step
    PROVE  IsAt(step) => IsAt(step)'
BY DEF IsAt, Alone

\* The rows tell one outcome, but for what is on its way or torn.
LEMMA RowsStep ==
    ASSUME Signed!TypeOK, CallsInOrder, RowsAgree, Signed!Next
    PROVE  RowsAgree'
<1>1. ASSUME Signed!Tick PROVE RowsAgree'
  <2>1. Onward
    BY <1>1, DaysGoBy, NothingTakenBack, PullMoves DEF Signed!Tick, Signed!theirWorld,
       Signed!rows, Signed!world
  <2> QED
    BY <1>1, <2>1, RowsStay DEF Signed!Tick, Signed!theirWorld, Signed!rows,
       Signed!world, IsAt
<1>2. ASSUME Signed!BuyerMerges PROVE RowsAgree'
  <2>1. Onward
    BY <1>2, DaysGoBy, NothingTakenBack, PullMoves DEF Signed!BuyerMerges,
       Signed!theirWorld, Signed!rows, Signed!world
  <2> QED
    BY <1>2, <2>1, RowsStay DEF Signed!BuyerMerges, Signed!theirWorld, Signed!rows,
       Signed!world, IsAt
<1>3. ASSUME Signed!PullCloses PROVE RowsAgree'
  <2>1. Onward
    BY <1>3, DaysGoBy, NothingTakenBack, PullMoves DEF Signed!PullCloses,
       Signed!theirWorld, Signed!rows, Signed!world
  <2> QED
    BY <1>3, <2>1, RowsStay DEF Signed!PullCloses, Signed!theirWorld, Signed!rows,
       Signed!world, IsAt
<1>4. ASSUME Signed!HeadMoves PROVE RowsAgree'
  <2>1. Onward
    BY <1>4, DaysGoBy, NothingTakenBack, PullMoves DEF Signed!HeadMoves,
       Signed!theirWorld, Signed!rows, Signed!world
  <2> QED
    BY <1>4, <2>1, RowsStay DEF Signed!HeadMoves, Signed!theirWorld, Signed!rows,
       Signed!world, IsAt
<1>5. ASSUME Signed!AgentSigns PROVE RowsAgree'
  <2>1. Onward
    BY <1>5, DaysGoBy, NothingTakenBack, PullMoves DEF Signed!AgentSigns,
       Signed!theirWorld, Signed!rows, Signed!world
  <2> QED
    BY <1>5, <2>1, RowsStay DEF Signed!AgentSigns, Signed!theirWorld, Signed!rows,
       Signed!world, IsAt
<1>6. ASSUME Signed!Report PROVE RowsAgree'
  <2>1. Onward
    BY <1>6, DaysGoBy, NothingTakenBack, PullMoves DEF Signed!Report, Signed!theirWorld,
       Signed!rows, Signed!world
  <2> QED
    BY <1>6, <2>1, RowsStay DEF Signed!Report, Signed!theirWorld, Signed!rows,
       Signed!world, IsAt
<1>7. ASSUME NEW c \in Calls, Signed!Begin(c) PROVE RowsAgree'
  <2>1. Onward /\ row' = row /\ torn' = torn /\ receipt' = receipt /\ review' = review
    BY <1>7, NothingTakenBack DEF Signed!Begin, Signed!rows
  <2>2. Alone(c) /\ call[c] = None
    BY <1>7, CallBegins DEF Signed!Begin
  <2> QED
    BY <2>1, <2>2, RowsStay, HalvesStay
<1>8. ASSUME NEW c \in Calls, Signed!RunClocks(c) PROVE RowsAgree'
  <2>1. Onward /\ row' = row /\ torn' = torn /\ receipt' = receipt /\ review' = review
    BY <1>8, NothingTakenBack DEF Signed!RunClocks, Signed!Resting, Signed!rows,
       Signed!world
  <2>2. Alone(c)
    BY <1>8, CallEnds, CallGoesOn, CallIsTold, CallHasReceipt DEF Signed!RunClocks,
       Signed!Steps
  <2>3. call[c].at \notin {"save", "persist"}
    BY <1>8 DEF Signed!RunClocks
  <2> QED
    BY <2>1, <2>2, <2>3, RowsStay, HalvesStay
<1>9. ASSUME NEW c \in Calls, Signed!AskBeforeDeeming(c) PROVE RowsAgree'
  <2>1. Onward /\ row' = row /\ torn' = torn /\ receipt' = receipt /\ review' = review
    BY <1>9, NothingTakenBack DEF Signed!AskBeforeDeeming, Signed!Resting, Signed!rows,
       Signed!world
  <2>2. Alone(c)
    BY <1>9, CallEnds, CallGoesOn, CallIsTold,
       CallHasReceipt DEF Signed!AskBeforeDeeming, Signed!Steps
  <2>3. call[c].at \notin {"save", "persist"}
    BY <1>9 DEF Signed!AskBeforeDeeming
  <2> QED
    BY <2>1, <2>2, <2>3, RowsStay, HalvesStay
<1>10. ASSUME NEW c \in Calls, Signed!Merge(c) PROVE RowsAgree'
  <2>1. Onward /\ row' = row /\ torn' = torn /\ receipt' = receipt /\ review' = review
    BY <1>10, NothingTakenBack DEF Signed!Merge, Signed!Resting, Signed!rows,
       Signed!world
  <2>2. Alone(c)
    BY <1>10, CallEnds, CallGoesOn, CallIsTold, CallHasReceipt DEF Signed!Merge,
       Signed!Steps
  <2>3. call[c].at \notin {"save", "persist"}
    BY <1>10 DEF Signed!Merge
  <2> QED
    BY <2>1, <2>2, <2>3, RowsStay, HalvesStay
<1>11. ASSUME NEW c \in Calls, Signed!Read(c) PROVE RowsAgree'
  <2>1. Onward /\ row' = row /\ torn' = torn /\ receipt' = receipt /\ review' = review
    BY <1>11, NothingTakenBack DEF Signed!Read, Signed!Resting, Signed!rows,
       Signed!world
  <2>2. Alone(c)
    BY <1>11, CallEnds, CallGoesOn, CallIsTold, CallHasReceipt DEF Signed!Read,
       Signed!Steps
  <2>3. call[c].at \notin {"save", "persist"}
    BY <1>11 DEF Signed!Read
  <2> QED
    BY <2>1, <2>2, <2>3, RowsStay, HalvesStay
<1>12. ASSUME NEW c \in Calls, Signed!CitedClose(c) PROVE RowsAgree'
  <2>1. Onward /\ receipt' = receipt /\ review' = review
    BY <1>12, NothingTakenBack DEF Signed!CitedClose, Signed!Resting, Signed!rows,
       Signed!world
  <2>2. Alone(c) /\ call[c].at = "act" /\ call[c] # None
    BY <1>12, CallEnds DEF Signed!CitedClose
  <2>3. CASE UNCHANGED <<row, torn>>
    BY <2>1, <2>2, <2>3, RowsStay, HalvesStay
  <2>4. CASE call[c].copy = "submitted" /\ Signed!Write(c, "cited_closed")
    <3>1. row' = "cited_closed" /\ (~torn' => ~torn /\ row = "submitted")
      BY <2>4 DEF Signed!Write
    <3>2. IsAt("persist") => IsAt("persist")'
      BY <2>2, HalvesStay
    <3> QED
      BY <2>1, <3>1, <3>2 DEF RowsAgree, Onward, HireReceipt, DeemedReceipt
  <2> QED
    BY <1>12, <2>3, <2>4 DEF Signed!CitedClose, Signed!Resting, Signed!rows
<1>13. ASSUME NEW c \in Calls, Signed!NameKey(c) PROVE RowsAgree'
  <2>1. Onward /\ row' = row /\ torn' = torn /\ receipt' = receipt /\ review' = review
    BY <1>13, NothingTakenBack DEF Signed!NameKey, Signed!Resting, Signed!rows,
       Signed!world
  <2>2. Alone(c)
    BY <1>13, CallEnds, CallGoesOn, CallIsTold, CallHasReceipt DEF Signed!NameKey,
       Signed!Steps
  <2>3. call[c].at \notin {"save", "persist"}
    BY <1>13 DEF Signed!NameKey
  <2> QED
    BY <2>1, <2>2, <2>3, RowsStay, HalvesStay
<1>14. ASSUME NEW c \in Calls, Signed!Complete(c) PROVE RowsAgree'
  <2>1. call[c] # None /\ call[c].at = "complete"
    BY <1>14 DEF Signed!Complete
  <2>2. CASE Signed!End(c) /\ Signed!Resting
    <3>1. Onward /\ row' = row /\ torn' = torn /\ receipt' = receipt /\ review' = review
      BY <2>2, NothingTakenBack DEF Signed!Resting, Signed!rows, Signed!world
    <3>2. Alone(c)
      BY <2>2, CallEnds
    <3> QED
      BY <2>1, <3>1, <3>2, RowsStay, HalvesStay
  <2>3. CASE /\ Signed!Write(c, "completed") /\ Signed!To(c, "save")
             /\ UNCHANGED <<receipt, review, reports, Signed!world>>
    <3>1. Alone(c) /\ call'[c].at = "save" /\ call'[c] # None
      BY <2>1, <2>3, CallGoesOn DEF Signed!Steps
    <3>2. Onward /\ receipt' = receipt /\ review' = review /\ row' = "completed"
      BY <2>3, NothingTakenBack DEF Signed!world, Signed!Write
    <3>3. ~torn' => ~torn /\ row = "submitted"
      BY <2>1, <2>3 DEF Signed!Write, CallsInOrder, InOrder
    <3>4. IsAt("save")' /\ (IsAt("persist") => IsAt("persist")')
      BY <2>1, <3>1, HalvesStay DEF IsAt
    <3> QED
      BY <3>2, <3>3, <3>4 DEF RowsAgree, Onward, HireReceipt, DeemedReceipt
  <2> QED
    BY <1>14, <2>2, <2>3 DEF Signed!Complete
<1>15. ASSUME NEW c \in Calls, Signed!SaveHire(c) PROVE RowsAgree'
  <2>1. /\ row' = row /\ review' = review /\ (~torn' => ~torn) /\ Onward
        /\ call[c] # None /\ call[c].at = "save"
    BY <1>15, NothingTakenBack DEF Signed!SaveHire, Signed!world
  <2>2. Alone(c)
    BY <1>15, CallEnds DEF Signed!SaveHire
  <2>3. IsAt("persist") => IsAt("persist")'
    BY <2>1, <2>2, HalvesStay
  <2>4. CASE receipt = None /\ receipt' = Signed!SavedHire(c) /\ torn' = torn
    <3>1. call[c] \in Signed!InFlight
      BY <2>1 DEF Signed!TypeOK
    <3>2. Signed!SavedHire(c) \in ReceiptRows
      BY <3>1, SignerType DEF Signed!SavedHire, ReceiptRows, Signed!InFlight
    <3>3. receipt' # None /\ receipt'.kind = "hire"
      BY <2>4, <3>2, ReceiptsAssumption DEF ReceiptRows, Signed!SavedHire
    <3>4. ~torn => row = "completed"
      BY <2>1 DEF CallsInOrder, InOrder
    <3> QED
      BY <2>1, <2>4, <3>3, <3>4 DEF RowsAgree, Onward, HireReceipt, DeemedReceipt
  <2>5. CASE torn' = TRUE /\ receipt' = receipt
    BY <2>1, <2>5 DEF RowsAgree, Onward, DeemedReceipt
  <2> QED
    BY <1>15, <2>4, <2>5 DEF Signed!SaveHire
<1>16. ASSUME NEW c \in Calls, Signed!Lookup(c) PROVE RowsAgree'
  <2>1. Onward /\ row' = row /\ torn' = torn /\ receipt' = receipt /\ review' = review
    BY <1>16, NothingTakenBack DEF Signed!Lookup, Signed!Resting, Signed!rows,
       Signed!world
  <2>2. Alone(c)
    BY <1>16, CallEnds, CallGoesOn, CallIsTold, CallHasReceipt DEF Signed!Lookup,
       Signed!Steps
  <2>3. call[c].at \notin {"save", "persist"}
    BY <1>16 DEF Signed!Lookup
  <2> QED
    BY <2>1, <2>2, <2>3, RowsStay, HalvesStay
<1>17. ASSUME NEW c \in Calls, Signed!IssueDeemed(c) PROVE RowsAgree'
  <2>1. row' = row /\ review' = review /\ torn' = torn /\ Onward
    BY <1>17, NothingTakenBack DEF Signed!IssueDeemed, Signed!world
  <2>2. /\ InOrder(call[c]) /\ call[c] # None /\ call[c].at = "issue"
        /\ \E clean \in BOOLEAN : Signed!AfterReceipt(c, clean)
    BY <1>17 DEF CallsInOrder, Signed!IssueDeemed
  <2>3. /\ Alone(c) /\ call'[c] # None
        /\ call'[c].at = IF call[c].copy = "submitted" THEN "persist" ELSE "act"
    BY <2>2, CallHasReceipt
  <2>4. \A step \in {"save", "persist"} : IsAt(step) => IsAt(step)'
    BY <2>2, <2>3, HalvesStay
  <2>5. CASE receipt' = receipt
    BY <2>1, <2>4, <2>5, RowsStay
  <2>6. CASE receipt = None /\ receipt' = Signed!SavedDeemed
    <3>1. receipt' # None /\ receipt'.kind = "deemed"
      BY <2>6, SignerType, ReceiptsAssumption DEF ReceiptRows, Signed!SavedDeemed
    <3>2. DeemedRightly
      BY <2>2 DEF InOrder
    <3>3. ~torn => row = "deemed_completed" \/ IsAt("persist")'
      BY <2>2, <2>3 DEF InOrder, IsAt
    <3> QED
      BY <2>1, <2>4, <2>6, <3>1, <3>2, <3>3 DEF RowsAgree, Onward, HireReceipt,
         DeemedReceipt
  <2> QED
    BY <1>17, <2>5, <2>6 DEF Signed!IssueDeemed
<1>18. ASSUME NEW c \in Calls, Signed!PersistDeemed(c) PROVE RowsAgree'
  <2>1. InOrder(call[c]) /\ call[c] # None /\ call[c].at = "persist"
    BY <1>18 DEF CallsInOrder, Signed!PersistDeemed
  <2>2. Onward /\ receipt' = receipt /\ review' = review
    BY <1>18, NothingTakenBack DEF Signed!PersistDeemed, Signed!world
  <2>3. ~torn' => ~torn /\ row = "submitted" /\ row' = "deemed_completed"
    BY <1>18, <2>1 DEF Signed!PersistDeemed, Signed!Write, InOrder
  <2>4. DeemedRightly
    BY <2>1 DEF InOrder
  <2> QED
    BY <2>2, <2>3, <2>4 DEF RowsAgree, Onward, HireReceipt, DeemedReceipt
<1>19. ASSUME NEW c \in Calls, Signed!SaveReview(c) PROVE RowsAgree'
  <2>1. /\ Onward /\ row' = row /\ torn' = torn /\ receipt' = receipt
        /\ call[c] # None /\ call[c].at = "act"
    BY <1>19, NothingTakenBack DEF Signed!SaveReview, Signed!world
  <2>2. Alone(c)
    BY <1>19, CallEnds DEF Signed!SaveReview
  <2>3. \A step \in {"save", "persist"} : IsAt(step) => IsAt(step)'
    BY <2>1, <2>2, HalvesStay
  <2>4. CASE review' = review
    BY <2>1, <2>3, <2>4, RowsStay
  <2>5. CASE call[c].copy = "completed"
    <3>1. ~torn => row = "completed"
      BY <2>1, <2>5 DEF CallsInOrder, InOrder
    <3> QED
      BY <2>1, <2>3, <3>1 DEF RowsAgree, Onward, HireReceipt, DeemedReceipt
  <2> QED
    BY <1>19, <2>4, <2>5 DEF Signed!SaveReview
<1>20. ASSUME Signed!Restart PROVE RowsAgree'
  <2>1. Onward /\ row' = row /\ receipt' = receipt /\ review' = review
    BY <1>20, NothingTakenBack DEF Signed!Restart, Signed!rows
  <2>2. (torn => torn') /\ (~torn' => \A step \in {"save", "persist"} : ~IsAt(step))
    BY <1>20 DEF Signed!Restart, Signed!Halfway, IsAt
  <2> QED
    BY <2>1, <2>2, RowsStay
<1> QED
  BY <1>1, <1>2, <1>3, <1>4, <1>5, <1>6, <1>7, <1>8, <1>9, <1>10, <1>11, <1>12, <1>13,
     <1>14, <1>15, <1>16, <1>17, <1>18, <1>19, <1>20 DEF Signed!Next

\* A credential that is true stays true: no later step changes GitHub's answer, and the
\* platform signs on with the same key, or was restarted without one.
LEMMA TruthStays ==
    ASSUME Signed!TypeOK, Signed!ReceiptTellsTheTruth, RowsAgree', Onward,
       receipt' = receipt,
           \/ platform' = platform
           \/ platform'.seeded = platform.seeded /\ platform'.boot = platform.boot + 1
    PROVE  Signed!ReceiptTellsTheTruth'
<1> SUFFICES ASSUME receipt # None
             PROVE  /\ receipt.kind = "hire" => (Signed!Mergeable /\ pull.mergedAt \in {None, receipt.mergedAt})'
                    /\ receipt.kind = "deemed" => ~Signed!MergedInside'
                    /\ (receipt.signer = Signed!Signer \/ (~platform.seeded /\ platform.boot > 0))'
  BY DEF Signed!ReceiptTellsTheTruth
<1>1. receipt.kind = "hire" => (Signed!Mergeable /\ pull.mergedAt \in {None, receipt.mergedAt})'
  BY DEF Signed!ReceiptTellsTheTruth, Onward
<1>2. receipt.kind = "deemed" => ~Signed!MergedInside'
  BY DEF RowsAgree, DeemedReceipt, DeemedRightly
<1>3. receipt.signer = Signed!Signer \/ (~platform.seeded /\ platform.boot > 0)
  BY DEF Signed!ReceiptTellsTheTruth
<1>4. platform.boot \in Nat /\ platform.seeded \in BOOLEAN
  BY DEF Signed!TypeOK
<1>5. (receipt.signer = Signed!Signer \/ (~platform.seeded /\ platform.boot > 0))'
  <2>1. CASE platform' = platform
    BY <1>3, <2>1 DEF Signed!Signer
  <2>2. CASE platform'.seeded = platform.seeded /\ platform'.boot = platform.boot + 1
    <3>1. CASE platform.seeded
      BY <1>3, <2>2, <3>1 DEF Signed!Signer
    <3>2. CASE ~platform.seeded
      BY <1>4, <2>2, <3>2
    <3> QED
      BY <3>1, <3>2
  <2> QED
    BY <2>1, <2>2
<1> QED
  BY <1>1, <1>2, <1>5

\* A credential says what GitHub says.
LEMMA TruthStep ==
    ASSUME Signed!TypeOK, CallsInOrder, RowsAgree, RowsAgree',
       Signed!ReceiptTellsTheTruth, Signed!Next
    PROVE  Signed!ReceiptTellsTheTruth'
<1>1. ASSUME Signed!Tick PROVE Signed!ReceiptTellsTheTruth'
  <2>1. Onward
    BY <1>1, DaysGoBy, NothingTakenBack, PullMoves DEF Signed!Tick, Signed!theirWorld,
       Signed!rows, Signed!world, Signed!Resting
  <2>2. receipt' = receipt /\ platform' = platform
    BY <1>1 DEF Signed!Tick, Signed!theirWorld, Signed!rows, Signed!world,
       Signed!Resting
  <2> QED
    BY <2>1, <2>2, TruthStays
<1>2. ASSUME Signed!BuyerMerges PROVE Signed!ReceiptTellsTheTruth'
  <2>1. Onward
    BY <1>2, DaysGoBy, NothingTakenBack, PullMoves DEF Signed!BuyerMerges,
       Signed!theirWorld, Signed!rows, Signed!world, Signed!Resting
  <2>2. receipt' = receipt /\ platform' = platform
    BY <1>2 DEF Signed!BuyerMerges, Signed!theirWorld, Signed!rows, Signed!world,
       Signed!Resting
  <2> QED
    BY <2>1, <2>2, TruthStays
<1>3. ASSUME Signed!PullCloses PROVE Signed!ReceiptTellsTheTruth'
  <2>1. Onward
    BY <1>3, DaysGoBy, NothingTakenBack, PullMoves DEF Signed!PullCloses,
       Signed!theirWorld, Signed!rows, Signed!world, Signed!Resting
  <2>2. receipt' = receipt /\ platform' = platform
    BY <1>3 DEF Signed!PullCloses, Signed!theirWorld, Signed!rows, Signed!world,
       Signed!Resting
  <2> QED
    BY <2>1, <2>2, TruthStays
<1>4. ASSUME Signed!HeadMoves PROVE Signed!ReceiptTellsTheTruth'
  <2>1. Onward
    BY <1>4, DaysGoBy, NothingTakenBack, PullMoves DEF Signed!HeadMoves,
       Signed!theirWorld, Signed!rows, Signed!world, Signed!Resting
  <2>2. receipt' = receipt /\ platform' = platform
    BY <1>4 DEF Signed!HeadMoves, Signed!theirWorld, Signed!rows, Signed!world,
       Signed!Resting
  <2> QED
    BY <2>1, <2>2, TruthStays
<1>5. ASSUME Signed!AgentSigns PROVE Signed!ReceiptTellsTheTruth'
  <2>1. Onward
    BY <1>5, DaysGoBy, NothingTakenBack, PullMoves DEF Signed!AgentSigns,
       Signed!theirWorld, Signed!rows, Signed!world, Signed!Resting
  <2>2. receipt' = receipt /\ platform' = platform
    BY <1>5 DEF Signed!AgentSigns, Signed!theirWorld, Signed!rows, Signed!world,
       Signed!Resting
  <2> QED
    BY <2>1, <2>2, TruthStays
<1>6. ASSUME Signed!Report PROVE Signed!ReceiptTellsTheTruth'
  <2>1. Onward
    BY <1>6, DaysGoBy, NothingTakenBack, PullMoves DEF Signed!Report, Signed!theirWorld,
       Signed!rows, Signed!world, Signed!Resting
  <2>2. receipt' = receipt /\ platform' = platform
    BY <1>6 DEF Signed!Report, Signed!theirWorld, Signed!rows, Signed!world,
       Signed!Resting
  <2> QED
    BY <2>1, <2>2, TruthStays
<1>7. ASSUME NEW c \in Calls, Signed!Begin(c) PROVE Signed!ReceiptTellsTheTruth'
  <2>1. Onward
    BY <1>7, DaysGoBy, NothingTakenBack, PullMoves DEF Signed!Begin, Signed!theirWorld,
       Signed!rows, Signed!world, Signed!Resting
  <2>2. receipt' = receipt /\ platform' = platform
    BY <1>7 DEF Signed!Begin, Signed!theirWorld, Signed!rows, Signed!world,
       Signed!Resting
  <2> QED
    BY <2>1, <2>2, TruthStays
<1>8. ASSUME NEW c \in Calls, Signed!RunClocks(c) PROVE Signed!ReceiptTellsTheTruth'
  <2>1. Onward
    BY <1>8, DaysGoBy, NothingTakenBack, PullMoves DEF Signed!RunClocks,
       Signed!theirWorld, Signed!rows, Signed!world, Signed!Resting
  <2>2. receipt' = receipt /\ platform' = platform
    BY <1>8 DEF Signed!RunClocks, Signed!theirWorld, Signed!rows, Signed!world,
       Signed!Resting
  <2> QED
    BY <2>1, <2>2, TruthStays
<1>9. ASSUME NEW c \in Calls,
   Signed!AskBeforeDeeming(c) PROVE Signed!ReceiptTellsTheTruth'
  <2>1. Onward
    BY <1>9, DaysGoBy, NothingTakenBack, PullMoves DEF Signed!AskBeforeDeeming,
       Signed!theirWorld, Signed!rows, Signed!world, Signed!Resting
  <2>2. receipt' = receipt /\ platform' = platform
    BY <1>9 DEF Signed!AskBeforeDeeming, Signed!theirWorld, Signed!rows, Signed!world,
       Signed!Resting
  <2> QED
    BY <2>1, <2>2, TruthStays
<1>10. ASSUME NEW c \in Calls, Signed!Merge(c) PROVE Signed!ReceiptTellsTheTruth'
  <2>1. Onward
    BY <1>10, DaysGoBy, NothingTakenBack, PullMoves DEF Signed!Merge, Signed!theirWorld,
       Signed!rows, Signed!world, Signed!Resting
  <2>2. receipt' = receipt /\ platform' = platform
    BY <1>10 DEF Signed!Merge, Signed!theirWorld, Signed!rows, Signed!world,
       Signed!Resting
  <2> QED
    BY <2>1, <2>2, TruthStays
<1>11. ASSUME NEW c \in Calls, Signed!Read(c) PROVE Signed!ReceiptTellsTheTruth'
  <2>1. Onward
    BY <1>11, DaysGoBy, NothingTakenBack, PullMoves DEF Signed!Read, Signed!theirWorld,
       Signed!rows, Signed!world, Signed!Resting
  <2>2. receipt' = receipt /\ platform' = platform
    BY <1>11 DEF Signed!Read, Signed!theirWorld, Signed!rows, Signed!world,
       Signed!Resting
  <2> QED
    BY <2>1, <2>2, TruthStays
<1>12. ASSUME NEW c \in Calls, Signed!CitedClose(c) PROVE Signed!ReceiptTellsTheTruth'
  <2>1. Onward
    BY <1>12, DaysGoBy, NothingTakenBack, PullMoves DEF Signed!CitedClose,
       Signed!theirWorld, Signed!rows, Signed!world, Signed!Resting
  <2>2. receipt' = receipt /\ platform' = platform
    BY <1>12 DEF Signed!CitedClose, Signed!theirWorld, Signed!rows, Signed!world,
       Signed!Resting
  <2> QED
    BY <2>1, <2>2, TruthStays
<1>13. ASSUME NEW c \in Calls, Signed!NameKey(c) PROVE Signed!ReceiptTellsTheTruth'
  <2>1. Onward
    BY <1>13, DaysGoBy, NothingTakenBack, PullMoves DEF Signed!NameKey,
       Signed!theirWorld, Signed!rows, Signed!world, Signed!Resting
  <2>2. receipt' = receipt /\ platform' = platform
    BY <1>13 DEF Signed!NameKey, Signed!theirWorld, Signed!rows, Signed!world,
       Signed!Resting
  <2> QED
    BY <2>1, <2>2, TruthStays
<1>14. ASSUME NEW c \in Calls, Signed!Complete(c) PROVE Signed!ReceiptTellsTheTruth'
  <2>1. Onward
    BY <1>14, DaysGoBy, NothingTakenBack, PullMoves DEF Signed!Complete,
       Signed!theirWorld, Signed!rows, Signed!world, Signed!Resting
  <2>2. receipt' = receipt /\ platform' = platform
    BY <1>14 DEF Signed!Complete, Signed!theirWorld, Signed!rows, Signed!world,
       Signed!Resting
  <2> QED
    BY <2>1, <2>2, TruthStays
<1>15. ASSUME NEW c \in Calls, Signed!SaveHire(c) PROVE Signed!ReceiptTellsTheTruth'
  <2>1. /\ Onward /\ platform' = platform /\ pull' = pull
        /\ call[c] # None /\ call[c].at = "save"
    BY <1>15, NothingTakenBack DEF Signed!SaveHire, Signed!world
  <2>2. CASE receipt' = receipt
    BY <2>1, <2>2, TruthStays
  <2>3. CASE receipt' = Signed!SavedHire(c)
    <3>1. /\ receipt'.kind = "hire" /\ receipt'.mergedAt = call[c].merged
          /\ receipt'.signer = Signed!Signer
      BY <2>3 DEF Signed!SavedHire
    <3>2. Signed!Mergeable /\ pull.mergedAt \in {None, call[c].merged}
      BY <2>1 DEF CallsInOrder, InOrder
    <3> QED
      BY <2>1, <3>1, <3>2 DEF Signed!ReceiptTellsTheTruth, Signed!Mergeable,
         Signed!Signer
  <2> QED
    BY <1>15, <2>2, <2>3 DEF Signed!SaveHire
<1>16. ASSUME NEW c \in Calls, Signed!Lookup(c) PROVE Signed!ReceiptTellsTheTruth'
  <2>1. Onward
    BY <1>16, DaysGoBy, NothingTakenBack, PullMoves DEF Signed!Lookup,
       Signed!theirWorld, Signed!rows, Signed!world, Signed!Resting
  <2>2. receipt' = receipt /\ platform' = platform
    BY <1>16 DEF Signed!Lookup, Signed!theirWorld, Signed!rows, Signed!world,
       Signed!Resting
  <2> QED
    BY <2>1, <2>2, TruthStays
<1>17. ASSUME NEW c \in Calls, Signed!IssueDeemed(c) PROVE Signed!ReceiptTellsTheTruth'
  <2>1. /\ Onward /\ platform' = platform /\ pull' = pull /\ day' = day
        /\ call[c] # None /\ call[c].at = "issue"
    BY <1>17, NothingTakenBack DEF Signed!IssueDeemed, Signed!world
  <2>2. CASE receipt' = receipt
    BY <2>1, <2>2, TruthStays
  <2>3. CASE receipt' = Signed!SavedDeemed
    <3>1. receipt'.kind = "deemed" /\ receipt'.signer = Signed!Signer
      BY <2>3 DEF Signed!SavedDeemed
    <3>2. ~Signed!MergedInside
      BY <2>1 DEF CallsInOrder, InOrder, DeemedRightly
    <3> QED
      BY <2>1, <3>1, <3>2 DEF Signed!ReceiptTellsTheTruth, Signed!MergedInside,
         Signed!Mergeable, Signed!Signer
  <2> QED
    BY <1>17, <2>2, <2>3 DEF Signed!IssueDeemed
<1>18. ASSUME NEW c \in Calls,
   Signed!PersistDeemed(c) PROVE Signed!ReceiptTellsTheTruth'
  <2>1. Onward
    BY <1>18, DaysGoBy, NothingTakenBack, PullMoves DEF Signed!PersistDeemed,
       Signed!theirWorld, Signed!rows, Signed!world, Signed!Resting
  <2>2. receipt' = receipt /\ platform' = platform
    BY <1>18 DEF Signed!PersistDeemed, Signed!theirWorld, Signed!rows, Signed!world,
       Signed!Resting
  <2> QED
    BY <2>1, <2>2, TruthStays
<1>19. ASSUME NEW c \in Calls, Signed!SaveReview(c) PROVE Signed!ReceiptTellsTheTruth'
  <2>1. Onward
    BY <1>19, DaysGoBy, NothingTakenBack, PullMoves DEF Signed!SaveReview,
       Signed!theirWorld, Signed!rows, Signed!world, Signed!Resting
  <2>2. receipt' = receipt /\ platform' = platform
    BY <1>19 DEF Signed!SaveReview, Signed!theirWorld, Signed!rows, Signed!world,
       Signed!Resting
  <2> QED
    BY <2>1, <2>2, TruthStays
<1>20. ASSUME Signed!Restart PROVE Signed!ReceiptTellsTheTruth'
  <2>1. Onward /\ receipt' = receipt
    BY <1>20, NothingTakenBack DEF Signed!Restart, Signed!rows
  <2>2. platform'.seeded = platform.seeded /\ platform'.boot = platform.boot + 1
    BY <1>20 DEF Signed!Restart, Signed!TypeOK
  <2> QED
    BY <2>1, <2>2, TruthStays
<1> QED
  BY <1>1, <1>2, <1>3, <1>4, <1>5, <1>6, <1>7, <1>8, <1>9, <1>10, <1>11, <1>12, <1>13,
     <1>14, <1>15, <1>16, <1>17, <1>18, <1>19, <1>20 DEF Signed!Next

--------------------------------------------------------------------------------
(* The theorems.                                                                   *)

LEMMA ReceiptsBegin ==
    ASSUME Signed!Init
    PROVE  ReceiptInv
<1>1. 0 \in Signed!Days
  BY ReceiptsAssumption DEF Signed!Days
<1>2. Signed!TypeOK
  <2>1. /\ platform \in [seeded : BOOLEAN, holdsKey : BOOLEAN, boot : Nat]
        /\ pull \in [state : {"open", "closed", "merged"}, attested : BOOLEAN, mergedAt : Signed!Days \cup {None}]
    BY DEF Signed!Init
  <2>2. 0 \in 0..MaxCalls
    BY ReceiptsAssumption
  <2> QED
    BY <1>1, <2>1, <2>2 DEF Signed!Init, Signed!TypeOK
<1>3. CallsInOrder /\ Signed!ReceiptTellsTheTruth
  BY DEF Signed!Init, CallsInOrder, Signed!ReceiptTellsTheTruth
<1>4. RowsAgree
  BY DEF Signed!Init, RowsAgree, HireReceipt, DeemedReceipt
<1> QED
  BY <1>2, <1>3, <1>4 DEF ReceiptInv

LEMMA ReceiptsGoOn ==
    ASSUME ReceiptInv, [Signed!Next]_(Signed!vars)
    PROVE  ReceiptInv'
<1>1. CASE Signed!Next
  <2>1. Signed!TypeOK' /\ CallsInOrder' /\ RowsAgree'
    BY <1>1, SignedTypes, OrderStep, RowsStep DEF ReceiptInv
  <2>2. Signed!ReceiptTellsTheTruth'
    BY <1>1, <2>1, TruthStep DEF ReceiptInv
  <2> QED
    BY <2>1, <2>2 DEF ReceiptInv
<1>2. CASE UNCHANGED (Signed!vars)
  <2>1. Signed!TypeOK'
    BY <1>2 DEF ReceiptInv, Signed!vars, Signed!TypeOK
  <2>2. CallsInOrder' /\ RowsAgree'
    <3>1. Onward
      BY <1>2, NothingTakenBack DEF Signed!vars
    <3>2. CallsInOrder'
      BY <1>2, <3>1, AllStay DEF ReceiptInv, Signed!vars
    <3> QED
      BY <1>2, <3>1, <3>2, RowsStay DEF ReceiptInv, Signed!vars, IsAt
  <2>3. Signed!ReceiptTellsTheTruth'
    BY <1>2 DEF ReceiptInv, Signed!vars, Signed!ReceiptTellsTheTruth, Signed!Mergeable,
       Signed!MergedInside, Signed!InsideWindow, Signed!Signer
  <2> QED
    BY <2>1, <2>2, <2>3 DEF ReceiptInv
<1> QED
  BY <1>1, <1>2

\* What the invariant says of a receipt, and of a load that heals.
LEMMA ReceiptsTell ==
    ASSUME ReceiptInv
    PROVE  Signed!HonestOutcome /\ Signed!DeemedLoadHeals
<1>1. (\A c \in Calls : call[c] = None) => ~IsAt("save") /\ ~IsAt("persist")
  BY DEF IsAt
<1>2. receipt # None => receipt.kind \in {"hire", "deemed"}
  BY DEF ReceiptInv, Signed!TypeOK
<1>3. Signed!OneOutcome
  BY <1>1, <1>2 DEF ReceiptInv, RowsAgree, Signed!OneOutcome, HireReceipt, DeemedReceipt
<1>4. Signed!DeemedLoadHeals
  BY DEF ReceiptInv, CallsInOrder, InOrder, Signed!DeemedLoadHeals
<1> QED
  BY <1>3, <1>4 DEF Signed!HonestOutcome, ReceiptInv

\* A dispute stands: neither its report nor the receipt it disputes is taken back.
LEMMA DisputeStands ==
    ASSUME ReceiptInv, [Signed!Next]_(Signed!vars)
    PROVE  Signed!DisputeKept
<1> SUFFICES ASSUME Signed!Disputed PROVE Signed!Disputed'
  BY DEF Signed!DisputeKept
<1>1. receipt # None /\ receipt.kind = "hire" /\ Signed!DisputedBy(receipt) # {}
  BY DEF Signed!Disputed
<1>2. receipt' = receipt
  BY <1>1 DEF Signed!Next, Signed!vars, Signed!Tick, Signed!BuyerMerges,
     Signed!PullCloses, Signed!HeadMoves, Signed!AgentSigns, Signed!Report,
     Signed!Begin, Signed!RunClocks, Signed!AskBeforeDeeming, Signed!Merge, Signed!Read,
     Signed!CitedClose, Signed!NameKey, Signed!Complete, Signed!SaveHire, Signed!Lookup,
     Signed!IssueDeemed, Signed!PersistDeemed, Signed!SaveReview, Signed!Restart,
     Signed!theirWorld, Signed!rows, Signed!world, Signed!Resting
<1>3. reports \subseteq reports'
  BY DEF Signed!Next, Signed!vars, Signed!Tick, Signed!BuyerMerges, Signed!PullCloses,
     Signed!HeadMoves, Signed!AgentSigns, Signed!Report, Signed!Begin, Signed!RunClocks,
     Signed!AskBeforeDeeming, Signed!Merge, Signed!Read, Signed!CitedClose,
     Signed!NameKey, Signed!Complete, Signed!SaveHire, Signed!Lookup,
     Signed!IssueDeemed, Signed!PersistDeemed, Signed!SaveReview, Signed!Restart,
     Signed!theirWorld, Signed!rows, Signed!world, Signed!Resting
<1> QED
  BY <1>1, <1>2, <1>3 DEF Signed!Disputed, Signed!DisputedBy

\* Whatever overlaps, fails or dies, the invariant of the receipts holds.
THEOREM ReceiptsInvariant == Signed!Spec => []ReceiptInv
BY ReceiptsBegin, ReceiptsGoOn, PTL DEF Signed!Spec

\* A step of the scene of the receipts is a step of theirs.
LEMMA SceneGoesOn ==
    ASSUME scene = "receipts", [IdentityNext]_<<scene, vars, SignedVars>>
    PROVE  scene' = "receipts" /\ [Signed!Next]_(Signed!vars)
BY DEF IdentityNext, In, Receipted, SignedVars, Signed!vars, Signed!Next

ScenesHold == scene = "receipts" => ReceiptInv

LEMMA ScenesGoOn ==
    ASSUME ScenesHold, [IdentityNext]_<<scene, vars, SignedVars>>
    PROVE  ScenesHold' /\ (scene = "receipts" => Signed!DisputeKept)
<1>1. CASE scene = "receipts"
  BY <1>1, SceneGoesOn, ReceiptsGoOn, DisputeStands DEF ScenesHold
<1>2. CASE scene # "receipts"
  <2>1. scene' = scene
    BY <1>2 DEF IdentityNext, In, Receipted
  <2> QED
    BY <1>2, <2>1 DEF ScenesHold
<1> QED
  BY <1>1, <1>2

LEMMA ScenesInvariant == IdentitySpec => [](ScenesHold)
<1>1. IdentityInit => ScenesHold
  BY ReceiptsBegin DEF IdentityInit, ScenesHold
<1> QED
  BY <1>1, ScenesGoOn, PTL DEF IdentitySpec

\* A credential says what GitHub says, and once nothing is on its way the row, the
\* credential and the review tell one outcome, but where a pair of writes was cut in two:
\* whatever overlapped, failed or died (settleMergeOutcome, askGithubBeforeDeeming).
THEOREM ReceiptsAreHonest == IdentitySpec => []HonestOutcome
<1>1. ScenesHold => HonestOutcome
  BY ReceiptsTell DEF ScenesHold, HonestOutcome
<1> QED
  BY <1>1, ScenesInvariant, PTL

\* Whoever loads a deemed job and meets no failure leaves it with its credential
\* (issueDeemedCompletionCredentialIfMissing).
THEOREM DeemedLoadsHeal == IdentitySpec => []DeemedLoadHeals
<1>1. ScenesHold => DeemedLoadHeals
  BY ReceiptsTell DEF ScenesHold, DeemedLoadHeals
<1> QED
  BY <1>1, ScenesInvariant, PTL

\* Work once disputed is disputed for ever (disputedBy).
THEOREM DisputesAreKept == IdentitySpec => DisputesStand
<1>1. ScenesHold /\ [IdentityNext]_<<scene, vars, SignedVars>>
          => [scene = "receipts" => Signed!DisputeKept]_SignedVars
  BY ScenesGoOn
<1> QED
  BY <1>1, ScenesInvariant, PTL DEF IdentitySpec, DisputesStand
================================================================================
