------------------------------ MODULE CheckoutProofs ----------------------------
(* What Checkout promises of one leg paid from the pages of one device, for any   *)
(* number of tabs, transfers, sessions and presses.                               *)
EXTENDS Checkout, FiniteSetTheorems, TLAPS

--------------------------------------------------------------------------------
(* The inductive invariant. That nobody is charged twice is kept by what the page *)
(* knows when it asks the wallet for one transfer more, and the page knows what   *)
(* its device wrote down and what the server's half-paid row names: the invariant *)
(* says that between the two nothing that may still land is missing.             *)

\* What the browser wallet sent for one role and may still land; a transfer of the DID
\* wallet pays both roles at once.
Paying(r) == {t \in Transfers : sent[t].pays = {r} /\ Alive(t)}
PayingBoth == {t \in Transfers : sent[t].pays = Roles /\ Alive(t)}

\* A transfer pays what it was sent for, and a session that broadcast one holds it.
SentPays ==
    /\ \A t \in Transfers :
           IF sent[t].status = "unsent" THEN sent[t].pays = {}
           ELSE sent[t].pays \in {{"price"}, {"fee"}, Roles}
    /\ \A s \in Sessions : session[s].at = "broadcast" => session[s].tx # None

\* A transfer that is named for a role was sent for that role.
NamesPay(named) == \A r \in Roles : named[r] # None => sent[named[r]].pays = {r}

\* A half-paid row is there because one of its transfers has landed.
RowIsTrue(row) ==
    /\ NamesPay(row.named)
    /\ \A r \in row.landed : row.named[r] # None /\ sent[row.named[r]].status = "landed"
    /\ \A r \in Roles : row.named[r] # None => row.landed # {}

Records ==
    /\ NamesPay(stored)
    /\ RowIsTrue(half)
    /\ \A p \in Pages :
           /\ NamesPay(page[p].known) /\ RowIsTrue(page[p].half)
           /\ page[p].at = "asking" => Missing(page[p].known) # {}
           /\ page[p].at = "answered" /\ page[p].answer \in {"paid", "already"} => settled # None

--------------------------------------------------------------------------------
(* As long as one attempt is made at a time and the device keeps what it is told  *)
(* to keep.                                                                       *)

Careful == faults \cap {"two_at_once", "superseded", "forgotten"} = {}

OneAttempt ==
    /\ \A p, q \in Pages : Busy(p) /\ Busy(q) => p = q
    /\ \A s1, s2 \in Sessions : Answering(s1) /\ Answering(s2) => s1 = s2
    /\ \A p \in Pages, s \in Sessions : ~(Busy(p) /\ Answering(s))

\* Nothing is asked of a wallet any more.
NothingAsked ==
    /\ \A p \in Pages : page[p].at \notin {"choosing", "asking", "keeping"}
    /\ \A s \in Sessions : ~Answering(s)

\* What may still land is written down, or about to be.
Remembered ==
    \A r \in Roles : \A t \in Paying(r) :
        stored[r] = t \/ \E p \in Pages : page[p].at = "keeping" /\ page[p].known[r] = t

\* A page that asks for one transfer more knows all the others.
KnowsAll(p) == \A r \in Roles : \A t \in Paying(r) : page[p].known[r] = t

PaysOnce == \A r \in Roles : \A t1, t2 \in Paying(r) : t1 = t2

CarefulMoney ==
    /\ OneAttempt
    /\ settled # None => NothingAsked
    /\ settled = None => Remembered
    /\ \A p \in Pages : page[p].at \in {"asking", "keeping"} => KnowsAll(p)
    /\ PaysOnce

\* The other rail.
OtherRail ==
    /\ \A t \in PayingBoth :
           /\ settled # None \/ \E s \in Sessions : session[s].at = "broadcast" /\ session[s].tx = t
           /\ \A u \in Transfers : Alive(u) => u = t
    /\ \A s \in Sessions : session[s].at = "checked" => \A t \in Transfers : ~Alive(t)

IInv ==
    /\ TypeOK
    /\ SentPays
    /\ Records
    /\ Careful => CarefulMoney
    /\ faults = {} => OtherRail

--------------------------------------------------------------------------------
(* What the steps have in common.                                                *)

THEOREM NobodyWasCharged == Init => IInv
<1> SUFFICES ASSUME Init
             PROVE  IInv
  OBVIOUS
<1>1. Fresh \in Tabs /\ NoHalf \in HalfRows /\ Nothing \in [Roles -> Maybe(Transfers)]
  BY CheckoutAssumption DEF Fresh, Tabs, NoHalf, HalfRows, Nothing, Steps, Maybe, Roles
<1>2. TypeOK
  BY <1>1, CheckoutAssumption DEF Init, TypeOK, Maybe
<1>3. SentPays
  BY DEF Init, SentPays
<1>4. \A t \in Transfers : ~Alive(t)
  BY DEF Init, Alive
<1>5. Records
  BY DEF Init, Records, NamesPay, RowIsTrue, Nothing, NoHalf, Fresh
<1>6. CarefulMoney
  BY <1>4 DEF Init, CarefulMoney, OneAttempt, NothingAsked, Remembered, KnowsAll, PaysOnce,
              Paying, Busy, Answering, Fresh
<1>7. OtherRail
  BY <1>4 DEF Init, OtherRail, PayingBoth
<1> QED
  BY <1>2, <1>3, <1>5, <1>6, <1>7 DEF IInv

\* Nothing that was asked for in vain is asked for again: what is wrong stays wrong.
LEMMA FaultsStay ==
    ASSUME faults \subseteq faults'
    PROVE  /\ Careful' => Careful
           /\ faults' = {} => faults = {}
BY DEF Careful

\* A tab moves, and perhaps what the server or the device keeps with it; nothing is sent
\* and nothing more is written down. This is every step of a page but the three that send
\* or keep.
PageMoves(p, state) ==
    /\ page' = [page EXCEPT ![p] = state]
    /\ sent' = sent /\ session' = session
    /\ presses' \in 0..MaxPresses
    /\ faults \subseteq faults' /\ faults' \subseteq Faults
    /\ stored' = stored \/ (stored' = Nothing /\ settled # None)
    /\ half' \in HalfRows /\ RowIsTrue(half')
    /\ settled' \in Maybe(Settlements)
    /\ settled # None => settled' # None
    /\ settled' # None => settled # None \/ Busy(p)

\* What the tab has become is sound.
StateIsSound(p, state) ==
    /\ state \in Tabs
    /\ NamesPay(state.known) /\ RowIsTrue(state.half)
    /\ state.at = "asking" => Missing(state.known) # {}
    /\ state.at = "answered" /\ state.answer \in {"paid", "already"} => settled' # None
    /\ Careful' =>
        /\ state.at \notin {"open", "stuck"} => Busy(p) \/ ~OthersPay(p)
        /\ state.at \in {"choosing", "asking"} => settled' = None
        /\ state.at # "keeping" /\ page[p].at # "keeping"
        /\ state.at = "asking" => \A r \in Roles : \A t \in Paying(r) : state.known[r] = t

LEMMA PageMovesPreserve ==
    ASSUME IInv, NEW p \in Pages, NEW state, PageMoves(p, state), StateIsSound(p, state)
    PROVE  IInv'
<1>1. /\ TypeOK /\ SentPays /\ Records
      /\ Careful' => CarefulMoney
      /\ faults' = {} => OtherRail
  BY FaultsStay DEF IInv, PageMoves
<1>2. page'[p] = state /\ \A q \in Pages \ {p} : page'[q] = page[q]
  BY <1>1 DEF PageMoves, TypeOK
<1>3. Nothing \in [Roles -> Maybe(Transfers)] /\ NamesPay(Nothing)
  BY DEF Nothing, Maybe, NamesPay
<1>4. TypeOK'
  BY <1>1, <1>3 DEF TypeOK, PageMoves, StateIsSound
<1>5. SentPays'
  BY <1>1 DEF SentPays, PageMoves
<1>6. Records'
  <2>1. NamesPay(stored)'
    BY <1>1, <1>3 DEF Records, NamesPay, PageMoves
  <2>2. RowIsTrue(half)'
    BY DEF RowIsTrue, NamesPay, PageMoves
  <2>3. ASSUME NEW q \in Pages
        PROVE  /\ NamesPay(page[q].known)' /\ RowIsTrue(page[q].half)'
               /\ (page[q].at = "asking" => Missing(page[q].known) # {})'
               /\ (page[q].at = "answered" /\ page[q].answer \in {"paid", "already"} => settled # None)'
    <3>1. CASE q = p
      BY <1>2, <3>1 DEF StateIsSound, PageMoves, NamesPay, RowIsTrue, Missing
    <3>2. CASE q # p
      BY <1>1, <1>2, <3>2 DEF Records, PageMoves, NamesPay, RowIsTrue, Missing
    <3> QED
      BY <3>1, <3>2
  <2> QED
    BY <2>1, <2>2, <2>3 DEF Records
<1>7. ASSUME Careful'
      PROVE  CarefulMoney'
  <2> USE <1>7
  <2>1. CarefulMoney
    BY <1>1
  <2>2. /\ state.at \notin {"open", "stuck"} => Busy(p) \/ ~OthersPay(p)
        /\ state.at \in {"choosing", "asking"} => settled' = None
        /\ state.at # "keeping" /\ page[p].at # "keeping"
        /\ state.at = "asking" => \A r \in Roles : \A t \in Paying(r) : state.known[r] = t
    BY DEF StateIsSound
  <2>3. \A q \in Pages : q # p /\ Busy(q)' => ~Busy(p)' /\ Busy(q)
    <3> SUFFICES ASSUME NEW q \in Pages, q # p, Busy(q)', Busy(p)'
                 PROVE  FALSE
      BY <1>2 DEF Busy
    <3>1. Busy(q) /\ state.at \notin {"open", "stuck"}
      BY <1>2 DEF Busy
    <3>2. OthersPay(p)
      BY <3>1 DEF OthersPay
    <3> QED
      BY <2>1, <2>2, <3>1, <3>2 DEF CarefulMoney, OneAttempt
  <2>4. \A s \in Sessions : ~(Busy(p)' /\ Answering(s)')
    <3> SUFFICES ASSUME NEW s \in Sessions, Busy(p)', Answering(s)'
                 PROVE  FALSE
      OBVIOUS
    <3>1. Answering(s) /\ state.at \notin {"open", "stuck"} /\ s # p
      BY <1>2, CheckoutAssumption DEF Busy, Answering, PageMoves
    <3>2. OthersPay(p)
      BY <3>1 DEF OthersPay
    <3> QED
      BY <2>1, <2>2, <3>1, <3>2 DEF CarefulMoney, OneAttempt
  <2>5. OneAttempt'
    <3>1. \A s1, s2 \in Sessions : Answering(s1)' /\ Answering(s2)' => s1 = s2
      BY <2>1 DEF CarefulMoney, OneAttempt, Answering, PageMoves
    <3>2. \A q, q2 \in Pages : Busy(q)' /\ Busy(q2)' => q = q2
      BY <2>1, <2>3 DEF CarefulMoney, OneAttempt
    <3>3. \A q \in Pages, s \in Sessions : ~(Busy(q)' /\ Answering(s)')
      BY <2>1, <2>3, <2>4 DEF CarefulMoney, OneAttempt, Answering, PageMoves
    <3> QED
      BY <3>1, <3>2, <3>3 DEF OneAttempt
  <2>6. settled' # None => NothingAsked'
    <3> SUFFICES ASSUME settled' # None
                 PROVE  NothingAsked'
      OBVIOUS
    <3>1. /\ \A q \in Pages \ {p} : page[q].at \notin {"choosing", "asking", "keeping"}
          /\ \A s \in Sessions : ~Answering(s)
      <4>1. CASE settled # None
        BY <2>1, <4>1 DEF CarefulMoney, NothingAsked
      <4>2. CASE Busy(p)
        BY <2>1, <4>2 DEF CarefulMoney, OneAttempt, Busy
      <4> QED
        BY <4>1, <4>2 DEF PageMoves
    <3>2. state.at \notin {"choosing", "asking", "keeping"}
      BY <2>2
    <3> QED
      BY <1>2, <3>1, <3>2 DEF NothingAsked, Answering, PageMoves
  <2>7. settled' = None => Remembered'
    <3> SUFFICES ASSUME settled' = None, NEW r \in Roles, NEW t \in Paying(r)'
                 PROVE  stored'[r] = t \/ \E q \in Pages : page'[q].at = "keeping" /\ page'[q].known[r] = t
      BY DEF Remembered
    <3>1. settled = None /\ stored' = stored /\ t \in Paying(r)
      BY DEF PageMoves, Paying, Alive
    <3>2. stored[r] = t \/ \E q \in Pages : page[q].at = "keeping" /\ page[q].known[r] = t
      BY <2>1, <3>1 DEF CarefulMoney, Remembered
    <3> QED
      BY <1>2, <2>2, <3>1, <3>2
  <2>8. \A q \in Pages : page'[q].at \in {"asking", "keeping"} => KnowsAll(q)'
    <3> SUFFICES ASSUME NEW q \in Pages, page'[q].at \in {"asking", "keeping"},
                        NEW r \in Roles, NEW t \in Paying(r)'
                 PROVE  page'[q].known[r] = t
      BY DEF KnowsAll
    <3>1. t \in Paying(r)
      BY DEF PageMoves, Paying, Alive
    <3> QED
      BY <1>2, <2>1, <2>2, <3>1 DEF CarefulMoney, KnowsAll
  <2>9. PaysOnce'
    BY <2>1 DEF CarefulMoney, PaysOnce, Paying, Alive, PageMoves
  <2> QED
    BY <2>5, <2>6, <2>7, <2>8, <2>9 DEF CarefulMoney
<1>8. ASSUME faults' = {}
      PROVE  OtherRail'
  BY <1>1, <1>8 DEF OtherRail, PayingBoth, Alive, PageMoves
<1> QED
  BY <1>4, <1>5, <1>6, <1>7, <1>8 DEF IInv

--------------------------------------------------------------------------------
(* The steps of a tab that move no money.                                        *)

LEMMA BlankTabs ==
    /\ Fresh \in Tabs
    /\ \A press \in {"none", "retry", "resend", "check"}, role \in Maybe(Roles) :
           /\ Open(press, role) \in Tabs
           /\ Open(press, role).at = "open"
           /\ Open(press, role).known = Nothing /\ Open(press, role).half = NoHalf
    /\ NamesPay(Nothing) /\ RowIsTrue(NoHalf)
    /\ NoHalf \in HalfRows /\ Nothing \in [Roles -> Maybe(Transfers)]
BY DEF Fresh, Open, Tabs, NoHalf, HalfRows, Nothing, Steps, Maybe, Roles, NamesPay, RowIsTrue

\* A tab that is open or stuck, with nothing in its hands, is sound whatever it was doing,
\* save that it was just about to write something down.
LEMMA BlankIsSound ==
    ASSUME NEW p \in Pages, NEW state \in Tabs, state.at \in {"open", "stuck"},
           state.known = Nothing, state.half = NoHalf,
           Careful' => page[p].at # "keeping"
    PROVE  StateIsSound(p, state)
BY BlankTabs DEF StateIsSound

LEMMA PressPreserves ==
    ASSUME IInv, NEW p \in Pages, Presses(p),
           NEW state \in Tabs, Moves(p, state), UNCHANGED <<sent, stored, half, settled, session>>,
           state.at \in {"open", "starting", "polling"}, NamesPay(state.known), state.half = NoHalf
    PROVE  IInv'
<1>1. page[p].at = "open" /\ RowIsTrue(half) /\ RowIsTrue(NoHalf) /\ half \in HalfRows
  BY BlankTabs DEF Presses, IInv, Records, TypeOK
<1>2. presses' \in 0..MaxPresses /\ faults \subseteq faults' /\ faults' \subseteq Faults
  BY CheckoutAssumption DEF Presses, IInv, TypeOK, Under, Faults
<1>3. Careful' => ~OthersPay(p)
  BY DEF Presses, Under, Careful
<1>4. PageMoves(p, state)
  BY <1>1, <1>2 DEF PageMoves, Moves, IInv, TypeOK
<1>5. StateIsSound(p, state)
  BY <1>1, <1>3 DEF StateIsSound
<1> QED
  BY <1>4, <1>5, PageMovesPreserve

LEMMA PayPreserves ==
    ASSUME IInv, NEW p \in Pages, Pay(p) \/ Resend(p) \/ Check(p)
    PROVE  IInv'
<1>1. page[p] \in Tabs /\ NamesPay(stored) /\ stored \in [Roles -> Maybe(Transfers)]
  BY DEF IInv, TypeOK, Records
<1>2. CASE Pay(p)
  <2> DEFINE tab == [Fresh EXCEPT !.at = "starting"]
  <2>1. tab \in Tabs /\ tab.at = "starting" /\ tab.known = Nothing /\ tab.half = NoHalf
    BY BlankTabs DEF Fresh, Tabs, Steps
  <2>2. Presses(p) /\ Moves(p, tab) /\ UNCHANGED <<sent, stored, half, settled, session>>
    BY <1>2 DEF Pay
  <2> HIDE DEF tab
  <2> QED
    BY <2>1, <2>2, BlankTabs, PressPreserves
<1>3. CASE Resend(p)
  <2> DEFINE tab == [Fresh EXCEPT !.at = "starting", !.again = page[p].again]
  <2>1. tab \in Tabs /\ tab.at = "starting" /\ tab.known = Nothing /\ tab.half = NoHalf
    BY <1>1, BlankTabs DEF Fresh, Tabs, Steps
  <2>2. Presses(p) /\ Moves(p, tab) /\ UNCHANGED <<sent, stored, half, settled, session>>
    BY <1>3 DEF Resend
  <2> HIDE DEF tab
  <2> QED
    BY <2>1, <2>2, BlankTabs, PressPreserves
<1>4. CASE Check(p)
  <2>1. Presses(p) /\ UNCHANGED <<sent, stored, half, settled, session>>
    BY <1>4 DEF Check
  <2>2. CASE stored["price"] = None
    <3>1. Moves(p, Open("none", None))
      BY <1>4, <2>2 DEF Check
    <3>2. Open("none", None) \in Tabs /\ Open("none", None).at = "open"
          /\ Open("none", None).known = Nothing /\ Open("none", None).half = NoHalf
      BY BlankTabs DEF Maybe
    <3> QED
      BY <2>1, <3>1, <3>2, BlankTabs, PressPreserves
  <2>3. CASE stored["price"] # None
    <3> DEFINE tab == [Fresh EXCEPT !.at = "polling", !.known = stored]
    <3>1. tab \in Tabs /\ tab.at = "polling" /\ tab.known = stored /\ tab.half = NoHalf
      BY <1>1, BlankTabs DEF Fresh, Tabs, Steps
    <3>2. Moves(p, tab)
      BY <1>4, <2>3 DEF Check
    <3> HIDE DEF tab
    <3> QED
      BY <1>1, <2>1, <3>1, <3>2, PressPreserves
  <2> QED
    BY <2>2, <2>3
<1> QED
  BY <1>2, <1>3, <1>4

\* The steps that leave the server's records and the device's alone.
LEMMA TabMovesPreserve ==
    ASSUME IInv, NEW p \in Pages, NEW state, Moves(p, state), StateIsSound(p, state),
           UNCHANGED <<sent, stored, half, settled, session, presses>>,
           faults \subseteq faults', faults' \subseteq Faults
    PROVE  IInv'
<1>1. PageMoves(p, state)
  BY DEF PageMoves, Moves, IInv, TypeOK, Records
<1> QED
  BY <1>1, PageMovesPreserve

LEMMA StepBackPreserves ==
    ASSUME IInv, NEW p \in Pages, StartFails(p) \/ PollFails(p) \/ Close(p)
    PROVE  IInv'
<1>1. faults \subseteq Faults
  BY DEF IInv, TypeOK
<1>2. CASE StartFails(p)
  <2>1. Open("retry", None) \in Tabs /\ Open("retry", None).at = "open"
        /\ Open("retry", None).known = Nothing /\ Open("retry", None).half = NoHalf
    BY BlankTabs DEF Maybe
  <2>2. StateIsSound(p, Open("retry", None))
    BY <1>2, <2>1, BlankIsSound DEF StartFails
  <2> QED
    BY <1>1, <1>2, <2>2, TabMovesPreserve DEF StartFails
<1>3. CASE PollFails(p)
  <2> DEFINE tab == [Fresh EXCEPT !.at = "stuck"]
  <2>1. tab \in Tabs /\ tab.at = "stuck" /\ tab.known = Nothing /\ tab.half = NoHalf
    BY BlankTabs DEF Fresh, Tabs, Steps
  <2>2. Moves(p, tab) /\ page[p].at = "polling"
        /\ UNCHANGED <<sent, stored, half, settled, session, presses, faults>>
    BY <1>3 DEF PollFails
  <2> HIDE DEF tab
  <2>3. StateIsSound(p, tab)
    BY <2>1, <2>2, BlankIsSound
  <2> QED
    BY <1>1, <2>2, <2>3, TabMovesPreserve
<1>4. CASE Close(p)
  <2>1. Fresh.at = "open" /\ Fresh.known = Nothing /\ Fresh.half = NoHalf
    BY DEF Fresh
  <2>2. Careful' => page[p].at # "keeping"
    BY <1>4 DEF Close, Under, Careful
  <2>3. faults \subseteq faults' /\ faults' \subseteq Faults
    BY <1>1, <1>4 DEF Close, Under, Faults
  <2>4. StateIsSound(p, Fresh)
    BY <2>1, <2>2, BlankTabs, BlankIsSound
  <2> QED
    BY <1>4, <2>3, <2>4, TabMovesPreserve DEF Close
<1> QED
  BY <1>2, <1>3, <1>4

LEMMA StartPreserves ==
    ASSUME IInv, NEW p \in Pages, Start(p)
    PROVE  IInv'
<1>1. page[p] \in Tabs /\ page[p].at = "starting" /\ half \in HalfRows /\ RowIsTrue(half)
      /\ NamesPay(page[p].known) /\ faults \subseteq Faults
  BY DEF IInv, TypeOK, Records, Start
<1>2. CASE settled = None
  <2> DEFINE tab == [page[p] EXCEPT !.at = "choosing", !.half = half]
  <2>1. tab \in Tabs /\ tab.at = "choosing" /\ tab.known = page[p].known /\ tab.half = half
    BY <1>1 DEF Tabs, Steps
  <2>2. Moves(p, tab) /\ UNCHANGED <<sent, stored, half, settled, session, presses, faults>>
    BY <1>2 DEF Start
  <2> HIDE DEF tab
  <2>3. StateIsSound(p, tab)
    BY <1>1, <1>2, <2>1, <2>2 DEF StateIsSound, Busy
  <2> QED
    BY <1>1, <2>2, <2>3, TabMovesPreserve
<1>3. CASE settled # None
  <2>1. Open("none", None) \in Tabs /\ Open("none", None).at = "open"
        /\ Open("none", None).known = Nothing /\ Open("none", None).half = NoHalf
    BY BlankTabs DEF Maybe
  <2>2. StateIsSound(p, Open("none", None))
    BY <1>1, <2>1, BlankIsSound
  <2>3. PageMoves(p, Open("none", None))
    BY <1>1, <1>3 DEF PageMoves, Start, Moves, IInv, TypeOK
  <2> QED
    BY <2>2, <2>3, PageMovesPreserve
<1> QED
  BY <1>2, <1>3

LEMMA RefusePreserves ==
    ASSUME IInv, NEW p \in Pages, Refuse(p)
    PROVE  IInv'
<1>1. page[p] \in Tabs /\ page[p].at = "asking" /\ RowIsTrue(page[p].half)
      /\ NamesPay(page[p].known) /\ faults \subseteq Faults
  BY DEF IInv, TypeOK, Records, Refuse
<1>2. CASE page[p].known["price"] = None
  <2>1. Open("retry", None) \in Tabs /\ Open("retry", None).at = "open"
        /\ Open("retry", None).known = Nothing /\ Open("retry", None).half = NoHalf
    BY BlankTabs DEF Maybe
  <2>2. StateIsSound(p, Open("retry", None))
    BY <1>1, <2>1, BlankIsSound
  <2> QED
    BY <1>1, <1>2, <2>2, TabMovesPreserve DEF Refuse
<1>3. CASE page[p].known["price"] # None
  <2> DEFINE tab == [page[p] EXCEPT !.at = "polling"]
  <2>1. tab \in Tabs /\ tab.at = "polling" /\ tab.known = page[p].known /\ tab.half = page[p].half
    BY <1>1 DEF Tabs, Steps
  <2>2. Moves(p, tab) /\ UNCHANGED <<sent, stored, half, settled, session, presses, faults>>
    BY <1>3 DEF Refuse, Goes
  <2> HIDE DEF tab
  <2>3. StateIsSound(p, tab)
    BY <1>1, <2>1 DEF StateIsSound, Busy
  <2> QED
    BY <1>1, <2>2, <2>3, TabMovesPreserve
<1> QED
  BY <1>2, <1>3

LEMMA PollPreserves ==
    ASSUME IInv, NEW p \in Pages, Poll(p)
    PROVE  IInv'
<1>1. page[p] \in Tabs /\ page[p].at = "polling" /\ RowIsTrue(page[p].half)
      /\ NamesPay(page[p].known) /\ faults \subseteq Faults
  BY DEF IInv, TypeOK, Records, Poll
<1>2. PICK seen \in SUBSET Receipts(page[p].known) :
          Moves(p, [page[p] EXCEPT !.at = "reporting", !.seen = seen])
  BY DEF Poll
<1>3. seen \subseteq Roles \X {"landed", "failed"}
  BY <1>2 DEF Receipts
<1> DEFINE tab == [page[p] EXCEPT !.at = "reporting", !.seen = seen]
<1>4. tab \in Tabs /\ tab.at = "reporting" /\ tab.known = page[p].known /\ tab.half = page[p].half
  BY <1>1, <1>3 DEF Tabs, Steps
<1>5. Moves(p, tab)
  BY <1>2
<1> HIDE DEF tab
<1>6. StateIsSound(p, tab)
  BY <1>1, <1>4 DEF StateIsSound, Busy
<1> QED
  BY <1>1, <1>5, <1>6, TabMovesPreserve DEF Poll

--------------------------------------------------------------------------------
(* What is asked of the wallet, sent, and written down.                          *)

\* A tab that goes on to ask the wallet, while every transfer that is sent again has
\* failed, knows what may still land: it is in the device's record, and the server's row
\* disagrees with the record on no transfer that is alive.
LEMMA ChoiceKnowsAll ==
    ASSUME IInv, Careful, NEW p \in Pages, page[p].at = "choosing",
           LET again == page[p].again IN again # None => stored[again] = None \/ ~Alive(stored[again]),
           NextStep(Known(page[p].half, page[p].again)) = "asking",
           NEW r \in Roles, NEW t \in Paying(r)
    PROVE  Known(page[p].half, page[p].again)[r] = t
<1> DEFINE row == page[p].half
           again == page[p].again
<1>1. /\ page[p] \in Tabs /\ row \in HalfRows /\ again \in Maybe(Roles)
      /\ RowIsTrue(row) /\ CarefulMoney
      /\ stored \in [Roles -> Maybe(Transfers)]
  BY DEF IInv, TypeOK, Records, Tabs
<1>2. settled = None /\ \A q \in Pages : page[q].at # "keeping"
  BY <1>1 DEF CarefulMoney, OneAttempt, NothingAsked, Busy
<1>3. \A o \in Roles : \A u \in Paying(o) : stored[o] = u /\ o # again
  <2> SUFFICES ASSUME NEW o \in Roles, NEW u \in Paying(o)
               PROVE  stored[o] = u /\ o # again
    OBVIOUS
  <2>1. stored[o] = u
    BY <1>1, <1>2 DEF CarefulMoney, Remembered
  <2>2. u # None /\ o # None /\ Alive(u)
    BY CheckoutAssumption, RowsAssumption DEF Paying
  <2> QED
    BY <2>1, <2>2
<1>4. Known(row, again)[r] = IF row.named[r] # None THEN row.named[r] ELSE t
  BY <1>3 DEF Known, KnownFrom
<1>5. \A o \in row.landed : o \in Roles /\ row.named[o] \in Paying(o)
  <2> SUFFICES ASSUME NEW o \in row.landed
               PROVE  o \in Roles /\ row.named[o] \in Paying(o)
    OBVIOUS
  <2>1. o \in Roles /\ row.named[o] \in Transfers
    BY <1>1 DEF HalfRows, Maybe, RowIsTrue
  <2> QED
    BY <1>1, <2>1 DEF RowIsTrue, NamesPay, Paying, Alive
<1>6. CASE row.named[r] # None
  <2>1. PICK o \in row.landed : TRUE
    BY <1>1, <1>6 DEF RowIsTrue
  <2>2. o \in Roles /\ row.named[o] \in Paying(o) /\ o # again /\ row.named[o] # None
    BY <1>1, <1>3, <1>5 DEF RowIsTrue
  <2>3. CASE o = r
    BY <1>3, <1>4, <2>2, <2>3
  <2>4. CASE o # r
    <3>1. Known(row, again)[r] # None /\ Known(row, again)[o] # None
      BY <1>3, <1>4, <1>6, <2>2 DEF Known, KnownFrom
    <3>2. \A q \in Roles : q = r \/ q = o
      BY <2>2, <2>4 DEF Roles
    <3>3. Missing(Known(row, again)) = {}
      BY <3>1, <3>2 DEF Missing
    <3> QED
      BY <3>3 DEF NextStep
  <2> QED
    BY <2>3, <2>4
<1> QED
  BY <1>4, <1>6

LEMMA ChoosePreserves ==
    ASSUME IInv, NEW p \in Pages, Choose(p)
    PROVE  IInv'
<1> DEFINE row == page[p].half
           again == page[p].again
           known == Known(row, again)
           tab == [page[p] EXCEPT !.at = NextStep(known), !.known = known, !.half = NoHalf]
<1>1. /\ page[p] \in Tabs /\ page[p].at = "choosing" /\ row \in HalfRows /\ RowIsTrue(row)
      /\ NamesPay(stored) /\ stored \in [Roles -> Maybe(Transfers)] /\ faults \subseteq Faults
  BY DEF IInv, TypeOK, Records, Choose, Tabs
<1>2. known \in [Roles -> Maybe(Transfers)] /\ NamesPay(known)
  BY <1>1 DEF Known, KnownFrom, HalfRows, Maybe, RowIsTrue, NamesPay
<1>3. NextStep(known) \in {"asking", "polling"}
  BY DEF NextStep
<1>4. tab \in Tabs /\ tab.at = NextStep(known) /\ tab.known = known /\ tab.half = NoHalf
  BY <1>1, <1>2, <1>3, BlankTabs DEF Tabs, Steps
<1>5. /\ Moves(p, tab) /\ UNCHANGED <<sent, stored, half, settled, session, presses>>
      /\ faults' = faults \cup Under(again # None /\ stored[again] # None /\ Alive(stored[again]), "superseded")
  BY DEF Choose
<1>6. faults \subseteq faults' /\ faults' \subseteq Faults
  BY <1>1, <1>5 DEF Under, Faults
<1> HIDE DEF tab
<1>7. Careful' => (again # None => stored[again] = None \/ ~Alive(stored[again]))
  BY <1>5 DEF Under, Careful
<1>8. Careful' => Careful
  BY <1>6, FaultsStay
<1>9. Careful' => settled = None
  BY <1>1, <1>8 DEF IInv, CarefulMoney, NothingAsked
<1>10. ASSUME Careful', tab.at = "asking", NEW r \in Roles, NEW t \in Paying(r)
       PROVE  tab.known[r] = t
  BY <1>1, <1>4, <1>7, <1>8, <1>10, ChoiceKnowsAll
<1>11. tab.at = "asking" => Missing(tab.known) # {}
  BY <1>4 DEF NextStep
<1>12. StateIsSound(p, tab)
  BY <1>1, <1>2, <1>3, <1>4, <1>5, <1>9, <1>10, <1>11, BlankTabs DEF StateIsSound, Busy
<1> QED
  BY <1>5, <1>6, <1>12, TabMovesPreserve

LEMMA ApprovePreserves ==
    ASSUME IInv, NEW p \in Pages, NEW t \in Transfers, Approve(p, t)
    PROVE  IInv'
<1> DEFINE role == NextRole(page[p].known)
           known == [page[p].known EXCEPT ![role] = t]
<1>1. /\ TypeOK /\ SentPays /\ Records
      /\ Careful => CarefulMoney
      /\ faults = {} => OtherRail
  BY DEF IInv
<1>2. /\ page[p].at = "asking" /\ sent[t].status = "unsent" /\ sent[t].pays = {}
      /\ sent' = [sent EXCEPT ![t] = [pays |-> {role}, status |-> "pending"]]
      /\ UNCHANGED <<stored, half, settled, session, presses, faults>>
  BY <1>1 DEF Approve, SentPays
<1>3. page[p] \in Tabs /\ role \in Roles
  BY <1>1 DEF TypeOK, NextRole, Roles
<1>4. /\ page' = [page EXCEPT ![p] = [page[p] EXCEPT !.at = "keeping", !.known[role] = t]]
      /\ known \in [Roles -> Maybe(Transfers)]
  BY <1>3 DEF Approve, Moves, Tabs, Maybe
<1>5. /\ page'[p] \in Tabs /\ page'[p].at = "keeping" /\ page'[p].known = known
      /\ page'[p].half = page[p].half
  BY <1>1, <1>3, <1>4 DEF Tabs, Steps, TypeOK
<1>6. \A q \in Pages \ {p} : page'[q] = page[q]
  BY <1>1, <1>4 DEF TypeOK
<1>7. /\ sent'[t].pays = {role} /\ sent'[t].status = "pending"
      /\ \A u \in Transfers \ {t} : sent'[u] = sent[u]
  BY <1>1, <1>2 DEF TypeOK
<1>8. TypeOK'
  <2>1. page' \in [Pages -> Tabs]
    BY <1>1, <1>4, <1>5 DEF TypeOK
  <2>2. sent' \in [Transfers -> [pays : SUBSET Roles, status : {"unsent", "pending", "landed", "failed"}]]
    BY <1>1, <1>2, <1>3 DEF TypeOK
  <2> QED
    BY <1>1, <1>2, <2>1, <2>2 DEF TypeOK
<1>9. SentPays'
  BY <1>1, <1>2, <1>3, <1>7 DEF SentPays, Roles
\* No record names a transfer that was not sent.
<1>10. ASSUME NEW named \in [Roles -> Maybe(Transfers)], NamesPay(named), NEW r \in Roles, named[r] # None
       PROVE  /\ named[r] \in Transfers /\ named[r] # t
              /\ sent'[named[r]] = sent[named[r]] /\ sent[named[r]].pays = {r}
  BY <1>2, <1>7, <1>10, CheckoutAssumption DEF NamesPay, Maybe
<1>11. ASSUME NEW row \in HalfRows, RowIsTrue(row)
       PROVE  /\ \A r \in Roles : row.named[r] # None => sent'[row.named[r]].pays = {r}
              /\ \A r \in row.landed : row.named[r] # None /\ sent'[row.named[r]].status = "landed"
              /\ \A r \in Roles : row.named[r] # None => row.landed # {}
  <2>1. row.named \in [Roles -> Maybe(Transfers)] /\ row.landed \subseteq Roles
    BY DEF HalfRows
  <2>2. NamesPay(row.named)
    BY <1>11 DEF RowIsTrue
  <2> QED
    BY <1>10, <1>11, <2>1, <2>2 DEF RowIsTrue
<1>12. Records'
  <2>1. \A r \in Roles : stored'[r] # None => sent'[stored'[r]].pays = {r}
    BY <1>1, <1>2, <1>10 DEF Records, TypeOK
  <2>2. half' \in HalfRows /\ half' = half /\ RowIsTrue(half)
    BY <1>1, <1>2 DEF Records, TypeOK
  <2>3. ASSUME NEW q \in Pages
        PROVE  /\ page[q].known \in [Roles -> Maybe(Transfers)] /\ page[q].half \in HalfRows
               /\ NamesPay(page[q].known) /\ RowIsTrue(page[q].half)
    BY <1>1 DEF Records, TypeOK, Tabs
  <2>4. \A r \in Roles : known[r] # None => sent'[known[r]].pays = {r}
    <3>1. \A r \in Roles : known[r] = IF r = role THEN t ELSE page[p].known[r]
      BY <2>3
    <3>2. \A r \in Roles \ {role} : known[r] # None => sent'[known[r]].pays = {r}
      BY <1>10, <2>3, <3>1
    <3> QED
      BY <1>7, <3>1, <3>2
  <2>5. ASSUME NEW q \in Pages
        PROVE  \A r \in Roles : page'[q].known[r] # None => sent'[page'[q].known[r]].pays = {r}
    <3>1. CASE q = p
      BY <1>5, <2>4, <3>1
    <3>2. CASE q # p
      BY <1>6, <1>10, <2>3, <3>2
    <3> QED
      BY <3>1, <3>2
  <2>6. ASSUME NEW q \in Pages
        PROVE  /\ page'[q].half = page[q].half
               /\ page'[q].at = "asking" => Missing(page'[q].known) # {}
               /\ page'[q].at = "answered" /\ page'[q].answer \in {"paid", "already"} => settled' # None
    BY <1>1, <1>2, <1>5, <1>6 DEF Records
  <2>7. NamesPay(stored)' /\ \A q \in Pages : NamesPay(page[q].known)'
    BY <2>1, <2>5 DEF NamesPay
  <2>8. RowIsTrue(half)'
    BY <1>11, <2>2 DEF RowIsTrue, NamesPay
  <2>9. ASSUME NEW q \in Pages
        PROVE  RowIsTrue(page[q].half)'
    <3> DEFINE row == page'[q].half
    <3>1. row = page[q].half /\ row \in HalfRows /\ RowIsTrue(row)
      BY <2>3, <2>6
    <3>2. /\ \A r \in Roles : row.named[r] # None => sent'[row.named[r]].pays = {r}
          /\ \A r \in row.landed : row.named[r] # None /\ sent'[row.named[r]].status = "landed"
          /\ \A r \in Roles : row.named[r] # None => row.landed # {}
      <4> HIDE DEF row
      <4> QED
        BY <1>11, <3>1
    <3> QED
      BY <3>2 DEF RowIsTrue, NamesPay
  <2>10. \A q \in Pages :
             /\ (page[q].at = "asking" => Missing(page[q].known) # {})'
             /\ (page[q].at = "answered" /\ page[q].answer \in {"paid", "already"} => settled # None)'
    BY <2>6 DEF Missing
  <2> QED
    BY <2>7, <2>8, <2>9, <2>10 DEF Records
<1>13. Busy(p) /\ (Busy(p)' /\ \A q \in Pages : Busy(q)' <=> Busy(q)) /\ \A s \in Sessions : Answering(s)' <=> Answering(s)
  BY <1>2, <1>5, <1>6 DEF Busy, Answering
<1>14. ASSUME Careful'
       PROVE  CarefulMoney'
  <2>1. CarefulMoney
    BY <1>1, <1>2, <1>14 DEF Careful
  <2>2. OneAttempt'
    BY <1>13, <2>1 DEF CarefulMoney, OneAttempt
  <2>3. settled = None
    BY <1>2, <2>1 DEF CarefulMoney, NothingAsked
  <2>4. page[p].known[role] = None
    BY <1>1, <1>2 DEF Records, Missing, NextRole, Roles
  <2>5. Paying(role) = {}
    BY <1>2, <1>3, <2>1, <2>4, CheckoutAssumption DEF CarefulMoney, KnowsAll, Paying
  <2>6. \A r \in Roles : Paying(r)' = Paying(r) \cup (IF r = role THEN {t} ELSE {})
    BY <1>2, <1>3, <1>7 DEF Paying, Alive
  <2>7. KnowsAll(p)'
    BY <1>2, <1>3, <1>4, <1>5, <2>1, <2>5, <2>6 DEF CarefulMoney, KnowsAll, Tabs
  <2>8. \A q \in Pages : page'[q].at \in {"asking", "keeping"} => q = p
    BY <1>13, <2>1 DEF CarefulMoney, OneAttempt, Busy
  <2>9. Remembered'
    <3> SUFFICES ASSUME NEW r \in Roles, NEW u \in Paying(r)'
                 PROVE  page'[p].at = "keeping" /\ page'[p].known[r] = u
      BY DEF Remembered
    <3> QED
      BY <1>5, <2>7 DEF KnowsAll
  <2>10. PaysOnce'
    BY <2>1, <2>5, <2>6 DEF CarefulMoney, PaysOnce
  <2> QED
    BY <1>2, <2>2, <2>3, <2>7, <2>8, <2>9, <2>10 DEF CarefulMoney
<1>15. ASSUME faults' = {}
       PROVE  OtherRail'
  <2>1. CarefulMoney /\ OtherRail
    BY <1>1, <1>2, <1>15 DEF Careful
  <2>2. settled = None /\ \A s \in Sessions : ~Answering(s)
    BY <1>2, <1>13, <2>1 DEF CarefulMoney, OneAttempt, NothingAsked
  <2>3. PayingBoth = {}
    BY <2>1, <2>2 DEF OtherRail, Answering
  <2>4. PayingBoth' = {}
    BY <1>2, <1>3, <1>7, <2>3 DEF PayingBoth, Alive, Roles
  <2> QED
    BY <1>2, <2>2, <2>4 DEF OtherRail, Answering
<1> QED
  BY <1>8, <1>9, <1>12, <1>14, <1>15 DEF IInv

\* The device writes down what was sent, or fails to.
LEMMA KeepPreserves ==
    ASSUME IInv, NEW p \in Pages, Keep(p)
    PROVE  IInv'
<1> DEFINE next == NextStep(page[p].known)
           tab == [page[p] EXCEPT !.at = next]
<1>1. /\ TypeOK /\ SentPays /\ Records
      /\ Careful => CarefulMoney
      /\ faults = {} => OtherRail
  BY DEF IInv
<1>2. /\ page[p].at = "keeping" /\ page' = [page EXCEPT ![p] = tab]
      /\ UNCHANGED <<sent, half, settled, session, presses>>
      /\ \/ stored' = page[p].known /\ faults' = faults
         \/ stored' = stored /\ faults' = faults \cup {"forgotten"}
  <2>1. page[p].at = "keeping" /\ UNCHANGED <<sent, half, settled, session, presses>>
    BY DEF Keep
  <2>2. page' = [page EXCEPT ![p] = tab]
    BY Zenon DEF Keep, Goes, Moves
  <2>3. \/ stored' = page[p].known /\ faults' = faults
        \/ stored' = stored /\ faults' = faults \cup {"forgotten"}
    BY DEF Keep
  <2> QED
    BY <2>1, <2>2, <2>3
<1>3. page[p] \in Tabs /\ next \in {"asking", "polling"} /\ NamesPay(page[p].known) /\ RowIsTrue(page[p].half)
  BY <1>1 DEF TypeOK, Records, NextStep
<1>4. tab \in Tabs /\ tab.at = next /\ tab.known = page[p].known /\ tab.half = page[p].half
      /\ page[p].known \in [Roles -> Maybe(Transfers)]
  BY <1>3 DEF Tabs, Steps
<1> HIDE DEF tab
<1>5. page'[p] = tab /\ \A q \in Pages \ {p} : page'[q] = page[q]
  BY <1>1, <1>2 DEF TypeOK
<1>6. TypeOK'
  BY <1>1, <1>2, <1>4 DEF TypeOK, Faults
<1>7. SentPays'
  BY <1>1, <1>2 DEF SentPays
<1>8. Records'
  <2>1. NamesPay(stored)'
    BY <1>1, <1>2, <1>3 DEF Records, NamesPay
  <2>2. RowIsTrue(half)'
    BY <1>1, <1>2 DEF Records, RowIsTrue, NamesPay
  <2>3. ASSUME NEW q \in Pages
        PROVE  /\ NamesPay(page[q].known)' /\ RowIsTrue(page[q].half)'
               /\ (page[q].at = "asking" => Missing(page[q].known) # {})'
               /\ (page[q].at = "answered" /\ page[q].answer \in {"paid", "already"} => settled # None)'
    <3>1. CASE q = p
      BY <1>2, <1>3, <1>4, <1>5, <3>1 DEF NamesPay, RowIsTrue, Missing, NextStep
    <3>2. CASE q # p
      <4>1. page'[q] = page[q] /\ sent' = sent /\ settled' = settled
        BY <1>2, <1>5, <3>2
      <4>2. /\ NamesPay(page[q].known) /\ RowIsTrue(page[q].half)
            /\ page[q].at = "asking" => Missing(page[q].known) # {}
            /\ page[q].at = "answered" /\ page[q].answer \in {"paid", "already"} => settled # None
        BY <1>1 DEF Records
      <4> QED
        BY <4>1, <4>2 DEF NamesPay, RowIsTrue, Missing
    <3> QED
      BY <3>1, <3>2
  <2> QED
    BY <2>1, <2>2, <2>3 DEF Records
<1>9. ASSUME Careful'
      PROVE  CarefulMoney'
  <2>1. stored' = page[p].known /\ faults' = faults
    BY <1>2, <1>9 DEF Careful
  <2>2. CarefulMoney
    BY <1>1, <1>9, <2>1 DEF Careful
  <2>3. settled = None /\ settled' = None
    BY <1>2, <2>2 DEF CarefulMoney, NothingAsked
  <2>4. \A q \in Pages : Busy(q)' <=> Busy(q)
    BY <1>2, <1>3, <1>4, <1>5 DEF Busy
  <2>5. OneAttempt'
    BY <1>2, <2>2, <2>4 DEF CarefulMoney, OneAttempt, Answering
  <2>6. \A r \in Roles : Paying(r)' = Paying(r)
    BY <1>2 DEF Paying, Alive
  <2>7. \A r \in Roles : \A t \in Paying(r) : page[p].known[r] = t
    BY <1>2, <2>2 DEF CarefulMoney, KnowsAll
  <2>8. Remembered'
    BY <2>1, <2>6, <2>7 DEF Remembered
  <2>9. \A q \in Pages : page'[q].at \in {"asking", "keeping"} => q = p
    BY <1>2, <1>5, <2>2 DEF CarefulMoney, OneAttempt, Busy
  <2>10. KnowsAll(p)'
    BY <1>4, <1>5, <2>6, <2>7 DEF KnowsAll
  <2>11. PaysOnce'
    BY <2>2, <2>6 DEF CarefulMoney, PaysOnce
  <2> QED
    BY <2>3, <2>5, <2>8, <2>9, <2>10, <2>11 DEF CarefulMoney
<1>10. ASSUME faults' = {}
       PROVE  OtherRail'
  BY <1>1, <1>2, <1>10 DEF OtherRail, PayingBoth, Alive
<1> QED
  BY <1>6, <1>7, <1>8, <1>9, <1>10 DEF IInv

--------------------------------------------------------------------------------
(* The answer of the server.                                                     *)

LEMMA AnswerIsSound ==
    ASSUME IInv, NEW p \in Pages, page[p].at = "reporting", NEW state \in Tabs,
           state.at = "answered", state.known = page[p].known, state.half = page[p].half,
           state.answer \in {"paid", "already"} => settled' # None
    PROVE  StateIsSound(p, state)
BY DEF StateIsSound, IInv, Records, Busy

LEMMA LandedIsTrue ==
    ASSUME IInv, NEW p \in Pages
    PROVE  /\ Landed(page[p].known) \in SUBSET Roles
           /\ Landed(page[p].known) # {} =>
                  /\ [named |-> page[p].known, landed |-> Landed(page[p].known)] \in HalfRows
                  /\ RowIsTrue([named |-> page[p].known, landed |-> Landed(page[p].known)])
           /\ Landed(page[p].known) = Roles => page[p].known \in [Roles -> Transfers]
<1>1. NamesPay(page[p].known) /\ page[p].known \in [Roles -> Maybe(Transfers)]
  BY DEF IInv, Records, TypeOK, Tabs
<1> QED
  BY <1>1 DEF Landed, RowIsTrue, HalfRows, Maybe

LEMMA AnsweredMoves ==
    ASSUME IInv, NEW p \in Pages, NEW answer \in {"refused", "paid", "already", "legs"},
           NEW landed \in SUBSET Roles, Answered(p, answer, landed),
           page[p].at = "reporting", answer \in {"paid", "already"} => settled' # None
    PROVE  \E state : Moves(p, state) /\ StateIsSound(p, state)
<1>1. PICK kind \in {answer, "unreachable"} :
          Moves(p, [page[p] EXCEPT !.at = "answered", !.answer = kind,
                                   !.landed = IF kind = "legs" THEN landed ELSE {}])
  BY DEF Answered
<1> DEFINE state == [page[p] EXCEPT !.at = "answered", !.answer = kind,
                                    !.landed = IF kind = "legs" THEN landed ELSE {}]
<1>2. page[p] \in Tabs
  BY DEF IInv, TypeOK
<1>3. state \in Tabs /\ state.at = "answered" /\ state.answer = kind
      /\ state.known = page[p].known /\ state.half = page[p].half
  BY <1>2 DEF Tabs, Steps
<1>4. Moves(p, state)
  BY <1>1
<1> HIDE DEF state
<1>5. StateIsSound(p, state)
  BY <1>3, AnswerIsSound
<1> QED
  BY <1>4, <1>5

LEMMA ReportPreserves ==
    ASSUME IInv, NEW p \in Pages, Report(p)
    PROVE  IInv'
<1> DEFINE known == page[p].known
           landed == Landed(known)
<1>1. /\ page[p].at = "reporting" /\ settled = None
      /\ half' = IF Cardinality(landed) = 1 THEN [named |-> known, landed |-> landed] ELSE NoHalf
      /\ settled' = IF landed = Roles THEN [rail |-> "usdc", pays |-> known] ELSE None
      /\ Answered(p, IF landed = Roles THEN "paid" ELSE "legs", landed)
      /\ UNCHANGED <<sent, stored, session, presses, faults>>
  BY DEF Report
<1>2. Cardinality(landed) = 1 => landed # {}
  BY FS_EmptySet
<1>3. half' \in HalfRows /\ RowIsTrue(half')
  BY <1>1, <1>2, LandedIsTrue, BlankTabs
<1>4. settled' \in Maybe(Settlements) /\ (landed = Roles => settled' # None)
  <2>1. CASE landed = Roles
    <3>1. known \in [Roles -> Transfers] /\ settled' = [rail |-> "usdc", pays |-> known]
      BY <1>1, <2>1, LandedIsTrue
    <3>2. settled' \in Settlements
      BY <3>1 DEF Settlements
    <3> QED
      BY <3>2, RowsAssumption DEF Maybe
  <2>2. CASE landed # Roles
    BY <1>1, <2>2 DEF Maybe
  <2> QED
    BY <2>1, <2>2
<1>5. PICK state : Moves(p, state) /\ StateIsSound(p, state)
  <2>1. CASE landed = Roles
    BY <1>1, <1>4, <2>1, LandedIsTrue, AnsweredMoves
  <2>2. CASE landed # Roles
    BY <1>1, <2>2, LandedIsTrue, AnsweredMoves
  <2> QED
    BY <2>1, <2>2
<1>6. PageMoves(p, state)
  BY <1>1, <1>3, <1>4, <1>5 DEF PageMoves, Moves, IInv, TypeOK, Busy
<1> QED
  BY <1>5, <1>6, PageMovesPreserve

LEMMA ReportSettledPreserves ==
    ASSUME IInv, NEW p \in Pages, ReportSettled(p)
    PROVE  IInv'
<1> DEFINE answer == IF settled.rail = "abt" THEN "refused"
                     ELSE IF settled.pays = page[p].known THEN "paid" ELSE "already"
<1>1. /\ page[p].at = "reporting" /\ settled # None /\ Answered(p, answer, {})
      /\ UNCHANGED <<sent, stored, half, settled, session, presses, faults>>
  BY DEF ReportSettled
<1>2. answer \in {"refused", "paid", "already", "legs"} /\ {} \in SUBSET Roles
  OBVIOUS
<1> HIDE DEF answer
<1>3. PICK state : Moves(p, state) /\ StateIsSound(p, state)
  BY <1>1, <1>2, AnsweredMoves
<1> QED
  BY <1>1, <1>3, TabMovesPreserve DEF IInv, TypeOK

LEMMA ReportFailsPreserves ==
    ASSUME IInv, NEW p \in Pages, ReportFails(p)
    PROVE  IInv'
<1> DEFINE state == [page[p] EXCEPT !.at = "answered", !.answer = "unreachable"]
<1>1. page[p] \in Tabs /\ page[p].at = "reporting"
  BY DEF IInv, TypeOK, ReportFails
<1>2. state \in Tabs /\ state.at = "answered" /\ state.answer = "unreachable"
      /\ state.known = page[p].known /\ state.half = page[p].half
  BY <1>1 DEF Tabs, Steps
<1>3. Moves(p, state) /\ UNCHANGED <<sent, stored, settled, session, presses, faults>>
      /\ (half' = half \/ half' = NoHalf)
  BY DEF ReportFails
<1> HIDE DEF state
<1>4. StateIsSound(p, state)
  BY <1>1, <1>2, AnswerIsSound
<1>5. half' \in HalfRows /\ RowIsTrue(half')
  BY <1>3, BlankTabs DEF IInv, TypeOK, Records
<1>6. PageMoves(p, state)
  BY <1>3, <1>5 DEF PageMoves, Moves, IInv, TypeOK
<1> QED
  BY <1>4, <1>6, PageMovesPreserve

LEMMA SettlePreserves ==
    ASSUME IInv, NEW p \in Pages, Settle(p)
    PROVE  IInv'
<1> DEFINE state == Outcome(page[p])
<1>1. /\ page[p].at = "answered" /\ Moves(p, state)
      /\ stored' = IF page[p].answer \in {"paid", "already"} THEN Nothing ELSE stored
      /\ UNCHANGED <<sent, half, settled, session, presses, faults>>
  BY DEF Settle, Clearing, Clears
<1>2. state \in Tabs /\ state.at = "open" /\ state.known = Nothing /\ state.half = NoHalf
  BY BlankTabs DEF Outcome, Maybe, Roles
<1> HIDE DEF state
<1>3. StateIsSound(p, state)
  BY <1>1, <1>2, BlankIsSound
<1>4. stored' = stored \/ (stored' = Nothing /\ settled # None)
  BY <1>1 DEF IInv, Records
<1>5. PageMoves(p, state)
  BY <1>1, <1>4 DEF PageMoves, Moves, IInv, TypeOK, Records
<1> QED
  BY <1>3, <1>5, PageMovesPreserve

--------------------------------------------------------------------------------
(* The chain, and the DID wallet.                                                *)

LEMMA MinePreserves ==
    ASSUME IInv, NEW t \in Transfers, Mine(t)
    PROVE  IInv'
<1>1. /\ TypeOK /\ SentPays /\ Records
      /\ Careful => CarefulMoney
      /\ faults = {} => OtherRail
  BY DEF IInv
<1>2. PICK status \in {"landed", "failed"} : sent' = [sent EXCEPT ![t].status = status]
  BY DEF Mine
<1>3. sent[t].status = "pending" /\ UNCHANGED <<stored, half, settled, page, session, presses, faults>>
  BY DEF Mine
<1>4. sent' \in [Transfers -> [pays : SUBSET Roles, status : {"unsent", "pending", "landed", "failed"}]]
  BY <1>1, <1>2 DEF TypeOK
<1>5. \A u \in Transfers : /\ sent'[u].pays = sent[u].pays
                           /\ u # t => sent'[u] = sent[u]
                           /\ sent[u].status = "landed" => sent'[u].status = "landed"
                           /\ sent'[u].status = "unsent" <=> sent[u].status = "unsent"
                           /\ Alive(u)' => Alive(u)
  BY <1>1, <1>2, <1>3 DEF TypeOK, Alive
<1>6. TypeOK'
  BY <1>1, <1>3, <1>4 DEF TypeOK
<1>7. SentPays'
  BY <1>1, <1>3, <1>5 DEF SentPays
<1>8. \A r \in Roles : Paying(r)' \subseteq Paying(r)
  BY <1>5 DEF Paying
<1>9. PayingBoth' \subseteq PayingBoth
  BY <1>5 DEF PayingBoth
<1>10. ASSUME NEW named \in [Roles -> Maybe(Transfers)], NamesPay(named)
       PROVE  \A r \in Roles : named[r] # None => sent'[named[r]].pays = {r}
  BY <1>5, <1>10 DEF NamesPay, Maybe
<1>11. ASSUME NEW row \in HalfRows, RowIsTrue(row)
       PROVE  /\ \A r \in Roles : row.named[r] # None => sent'[row.named[r]].pays = {r}
              /\ \A r \in row.landed : row.named[r] # None /\ sent'[row.named[r]].status = "landed"
              /\ \A r \in Roles : row.named[r] # None => row.landed # {}
  BY <1>5, <1>11 DEF RowIsTrue, NamesPay, HalfRows, Maybe
<1>12. Records'
  <2>1. NamesPay(stored)'
    BY <1>1, <1>3, <1>10 DEF Records, NamesPay, TypeOK
  <2>2. RowIsTrue(half)'
    BY <1>1, <1>3, <1>11 DEF Records, RowIsTrue, NamesPay, TypeOK
  <2>3. ASSUME NEW q \in Pages
        PROVE  /\ NamesPay(page[q].known)' /\ RowIsTrue(page[q].half)'
               /\ (page[q].at = "asking" => Missing(page[q].known) # {})'
               /\ (page[q].at = "answered" /\ page[q].answer \in {"paid", "already"} => settled # None)'
    <3>1. /\ page[q].known \in [Roles -> Maybe(Transfers)] /\ page[q].half \in HalfRows
          /\ NamesPay(page[q].known) /\ RowIsTrue(page[q].half)
      BY <1>1 DEF TypeOK, Tabs, Records
    <3>2. NamesPay(page[q].known)'
      BY <1>3, <1>10, <3>1 DEF NamesPay
    <3>3. RowIsTrue(page[q].half)'
      BY <1>3, <1>11, <3>1 DEF RowIsTrue, NamesPay
    <3> QED
      BY <1>1, <1>3, <3>2, <3>3 DEF Records, Missing
  <2> QED
    BY <2>1, <2>2, <2>3 DEF Records
<1>13. ASSUME Careful'
       PROVE  CarefulMoney'
  <2>1. CarefulMoney
    BY <1>1, <1>3, <1>13 DEF Careful
  <2>2. OneAttempt' /\ (settled' # None => NothingAsked')
    BY <1>3, <2>1 DEF CarefulMoney, OneAttempt, NothingAsked, Busy, Answering
  <2>3. settled' = None => Remembered'
    BY <1>3, <1>8, <2>1 DEF CarefulMoney, Remembered
  <2>4. \A p \in Pages : page'[p].at \in {"asking", "keeping"} => KnowsAll(p)'
    BY <1>3, <1>8, <2>1 DEF CarefulMoney, KnowsAll
  <2>5. PaysOnce'
    BY <1>8, <2>1 DEF CarefulMoney, PaysOnce
  <2> QED
    BY <2>2, <2>3, <2>4, <2>5 DEF CarefulMoney
<1>14. ASSUME faults' = {}
       PROVE  OtherRail'
  BY <1>1, <1>3, <1>5, <1>9, <1>14 DEF OtherRail
<1> QED
  BY <1>6, <1>7, <1>12, <1>13, <1>14 DEF IInv

SessionStates == [at : {"none", "started", "asked", "checked", "broadcast", "over"},
                  live : BOOLEAN, tx : Maybe(Transfers)]

\* A session moves, and perhaps the leg settles; nothing is broadcast.
LEMMA SessionMovesPreserve ==
    ASSUME IInv, NEW s \in Sessions, NEW state \in SessionStates,
           session' = [session EXCEPT ![s] = state], state.at = "broadcast" => state.tx # None,
           UNCHANGED <<sent, stored, half, page>>, presses' \in 0..MaxPresses,
           faults \subseteq faults', faults' \subseteq Faults,
           settled' \in Maybe(Settlements), settled # None => settled' # None,
           settled' # None => settled # None \/ Answering(s),
           Careful' /\ state.at \in {"checked", "broadcast"} =>
               settled' = None /\ (Answering(s) \/ ~OthersPay(s)),
           faults' = {} =>
               /\ session[s].at = "broadcast" =>
                      settled' # None \/ (state.at = "broadcast" /\ state.tx = session[s].tx)
               /\ state.at = "checked" => \A t \in Transfers : ~Alive(t)
    PROVE  IInv'
<1>1. /\ TypeOK /\ SentPays /\ Records
      /\ Careful' => CarefulMoney
      /\ faults' = {} => OtherRail
  BY FaultsStay DEF IInv
<1>2. session'[s] = state /\ \A s2 \in Sessions \ {s} : session'[s2] = session[s2]
  BY <1>1 DEF TypeOK
<1>3. TypeOK'
  BY <1>1 DEF TypeOK, SessionStates
<1>4. SentPays'
  BY <1>1, <1>2 DEF SentPays
<1>5. Records'
  BY <1>1 DEF Records, NamesPay, RowIsTrue, Missing
<1>6. ASSUME Careful'
      PROVE  CarefulMoney'
  <2>1. CarefulMoney
    BY <1>1, <1>6
  <2>2. \A p \in Pages : Busy(p)' <=> Busy(p)
    BY DEF Busy
  <2>3. \A s2 \in Sessions \ {s} : Answering(s2)' <=> Answering(s2)
    BY <1>2 DEF Answering
  <2>4. Answering(s)' => /\ settled' = None
                         /\ \A p \in Pages : ~Busy(p)
                         /\ \A s2 \in Sessions \ {s} : ~Answering(s2)
    <3> SUFFICES ASSUME Answering(s)'
                 PROVE  /\ settled' = None
                        /\ \A p \in Pages : ~Busy(p)
                        /\ \A s2 \in Sessions \ {s} : ~Answering(s2)
      OBVIOUS
    <3>1. settled' = None /\ (Answering(s) \/ ~OthersPay(s))
      BY <1>2, <1>6 DEF Answering
    <3>2. \A p \in Pages : p # s
      BY CheckoutAssumption
    <3> QED
      BY <2>1, <3>1, <3>2 DEF OthersPay, CarefulMoney, OneAttempt
  <2>5. OneAttempt'
    BY <2>1, <2>2, <2>3, <2>4 DEF CarefulMoney, OneAttempt
  <2>6. settled' # None => NothingAsked'
    <3> SUFFICES ASSUME settled' # None
                 PROVE  NothingAsked'
      OBVIOUS
    <3>1. ~Answering(s)'
      BY <2>4
    <3>2. /\ \A p \in Pages : page[p].at \notin {"choosing", "asking", "keeping"}
          /\ \A s2 \in Sessions \ {s} : ~Answering(s2)
      BY <2>1 DEF CarefulMoney, NothingAsked, OneAttempt, Busy
    <3> QED
      BY <2>3, <3>1, <3>2 DEF NothingAsked
  <2>7. \A r \in Roles : Paying(r)' = Paying(r)
    BY DEF Paying, Alive
  <2>8. settled' = None => Remembered'
    BY <2>1, <2>7 DEF CarefulMoney, Remembered
  <2>9. \A p \in Pages : page'[p].at \in {"asking", "keeping"} => KnowsAll(p)'
    BY <2>1, <2>7 DEF CarefulMoney, KnowsAll
  <2>10. PaysOnce'
    BY <2>1, <2>7 DEF CarefulMoney, PaysOnce
  <2> QED
    BY <2>5, <2>6, <2>8, <2>9, <2>10 DEF CarefulMoney
<1>7. ASSUME faults' = {}
      PROVE  OtherRail'
  <2>1. OtherRail
    BY <1>1, <1>7
  <2>2. \A t \in Transfers : Alive(t)' <=> Alive(t)
    BY DEF Alive
  <2>3. PayingBoth' = PayingBoth
    BY DEF PayingBoth, Alive
  <2>4. ASSUME NEW t \in PayingBoth
        PROVE  settled' # None \/ \E s2 \in Sessions : session'[s2].at = "broadcast" /\ session'[s2].tx = t
    <3>1. CASE settled # None
      BY <3>1
    <3>2. CASE \E s2 \in Sessions : session[s2].at = "broadcast" /\ session[s2].tx = t
      <4>1. PICK s2 \in Sessions : session[s2].at = "broadcast" /\ session[s2].tx = t
        BY <3>2
      <4>2. CASE s2 = s
        BY <1>2, <1>7, <4>1, <4>2
      <4>3. CASE s2 # s
        BY <1>2, <4>1, <4>3
      <4> QED
        BY <4>2, <4>3
    <3> QED
      BY <2>1, <3>1, <3>2 DEF OtherRail
  <2>5. \A s2 \in Sessions : session'[s2].at = "checked" => \A t \in Transfers : ~Alive(t)
    <3> SUFFICES ASSUME NEW s2 \in Sessions, session'[s2].at = "checked"
                 PROVE  \A t \in Transfers : ~Alive(t)
      OBVIOUS
    <3>1. CASE s2 = s
      BY <1>2, <1>7, <3>1
    <3>2. CASE s2 # s
      BY <1>2, <2>1, <3>2 DEF OtherRail
    <3> QED
      BY <3>1, <3>2
  <2> QED
    BY <2>1, <2>2, <2>3, <2>4, <2>5 DEF OtherRail
<1> QED
  BY <1>3, <1>4, <1>5, <1>6, <1>7 DEF IInv

\* The steps that only move the session on.
LEMMA SessionStepPreserves ==
    ASSUME IInv, NEW s \in Sessions, NEW from, NEW to, Session(s, from, to),
           from \in {"started", "asked", "checked", "broadcast"},
           to \in {"asked", "checked", "over"}, to = "checked" => from = "asked",
           UNCHANGED <<sent, stored, half, page, presses>>,
           faults \subseteq faults', faults' \subseteq Faults,
           settled' \in Maybe(Settlements), settled # None => settled' # None,
           settled' # None => settled # None \/ Answering(s),
           Careful' /\ to = "checked" => settled' = None /\ ~OthersPay(s),
           faults' = {} =>
               /\ from = "broadcast" => settled' # None
               /\ to = "checked" => \A t \in Transfers : ~Alive(t)
    PROVE  IInv'
<1> DEFINE state == [session[s] EXCEPT !.at = to]
<1>1. session[s] \in SessionStates /\ presses \in 0..MaxPresses
  BY DEF IInv, TypeOK, SessionStates
<1>2. state \in SessionStates /\ state.at = to
  BY <1>1 DEF SessionStates
<1>3. session[s].at = from /\ session' = [session EXCEPT ![s] = state]
  BY DEF Session
<1> HIDE DEF state
<1>4. presses' \in 0..MaxPresses
  BY <1>1
<1>5. Careful' /\ state.at \in {"checked", "broadcast"} =>
          settled' = None /\ (Answering(s) \/ ~OthersPay(s))
  BY <1>2
<1>6. faults' = {} =>
          /\ session[s].at = "broadcast" =>
                 settled' # None \/ (state.at = "broadcast" /\ state.tx = session[s].tx)
          /\ state.at = "checked" => \A t \in Transfers : ~Alive(t)
  BY <1>2, <1>3
<1> QED
  BY <1>2, <1>3, <1>4, <1>5, <1>6, SessionMovesPreserve

LEMMA SessionsPreserve ==
    ASSUME IInv, NEW s \in Sessions,
           PrepareTx(s) \/ OnAuth(s) \/ BroadcastFails(s) \/ RecordPayment(s) \/ RecordFails(s)
    PROVE  IInv'
<1>1. faults \subseteq Faults /\ settled \in Maybe(Settlements) /\ session[s] \in SessionStates
  BY DEF IInv, TypeOK, SessionStates
<1>2. CASE PrepareTx(s)
  <2> DEFINE to == IF session[s].live THEN "asked" ELSE "over"
  <2>1. Session(s, "started", to) /\ to \in {"asked", "over"}
        /\ UNCHANGED <<sent, stored, half, settled, page, presses, faults>>
    BY <1>2 DEF PrepareTx
  <2> HIDE DEF to
  <2> QED
    BY <1>1, <2>1, SessionStepPreserves
<1>3. CASE OnAuth(s)
  <2>1. CASE DoorShut
    BY <1>1, <1>3, <2>1, SessionStepPreserves DEF OnAuth, DoorAtAnswer, Under
  <2>2. CASE ~DoorShut
    <3>1. Session(s, "asked", "checked") /\ UNCHANGED <<sent, stored, half, settled, page, presses>>
      BY <1>3, <2>2 DEF OnAuth, DoorAtAnswer
    <3>2. settled = None /\ settled' = None
      BY <2>2, <3>1 DEF DoorShut
    <3>3. faults' = faults \cup Under(OthersPay(s), "two_at_once")
                           \cup Under(\E t \in Transfers : Alive(t), "other_rail")
      BY <1>3, <2>2, <3>2 DEF OnAuth, DoorAtAnswer, Under
    <3>4. faults \subseteq faults' /\ faults' \subseteq Faults
      BY <1>1, <3>3 DEF Under, Faults
    <3>5. Careful' => ~OthersPay(s)
      BY <3>3 DEF Under, Careful
    <3>6. faults' = {} => \A t \in Transfers : ~Alive(t)
      BY <3>3 DEF Under
    <3> QED
      BY <1>1, <3>1, <3>2, <3>4, <3>5, <3>6, SessionStepPreserves
  <2> QED
    BY <2>1, <2>2
<1>4. CASE BroadcastFails(s)
  BY <1>1, <1>4, SessionStepPreserves DEF BroadcastFails
<1>5. CASE RecordPayment(s)
  <2>1. /\ Session(s, "broadcast", "over") /\ UNCHANGED <<sent, stored, half, page, presses, faults>>
        /\ settled' = [rail |-> "abt", pays |-> [r \in Roles |-> session[s].tx]]
    BY <1>5 DEF RecordPayment
  <2>2. Answering(s) /\ session[s].tx \in Transfers
    BY <2>1 DEF Session, Answering, IInv, TypeOK, SentPays, Maybe
  <2>3. settled' \in Settlements
    BY <2>1, <2>2 DEF Settlements
  <2>4. settled' \in Maybe(Settlements) /\ settled' # None
    BY <2>3, RowsAssumption DEF Maybe
  <2> QED
    BY <1>1, <2>1, <2>2, <2>4, SessionStepPreserves
<1>6. CASE RecordFails(s)
  BY <1>1, <1>6, SessionStepPreserves DEF RecordFails, Faults
<1> QED
  BY <1>2, <1>3, <1>4, <1>5, <1>6

LEMMA OpeningPreserves ==
    ASSUME IInv, NEW s \in Sessions, Expire(s) \/ \E p \in Pages : StartSession(p, s)
    PROVE  IInv'
<1>1. /\ session \in [Sessions -> SessionStates] /\ session[s] \in SessionStates
      /\ presses \in 0..MaxPresses /\ settled \in Maybe(Settlements) /\ faults \subseteq Faults
  BY DEF IInv, TypeOK, SessionStates
<1>2. CASE Expire(s)
  <2> DEFINE state == [session[s] EXCEPT !.live = FALSE]
  <2>1. state \in SessionStates /\ state.at = session[s].at /\ state.tx = session[s].tx
    BY <1>1 DEF SessionStates
  <2>2. session' = [session EXCEPT ![s] = state]
        /\ UNCHANGED <<sent, stored, half, settled, page, presses, faults>>
    BY <1>2 DEF Expire
  <2> HIDE DEF state
  <2>3. state.at = "broadcast" => state.tx # None
    BY <2>1 DEF IInv, SentPays
  <2>4. Careful' /\ state.at \in {"checked", "broadcast"} =>
            settled' = None /\ (Answering(s) \/ ~OthersPay(s))
    BY <2>1, <2>2 DEF Careful, IInv, CarefulMoney, NothingAsked, Answering
  <2>5. faults' = {} =>
            /\ session[s].at = "broadcast" =>
                   settled' # None \/ (state.at = "broadcast" /\ state.tx = session[s].tx)
            /\ state.at = "checked" => \A t \in Transfers : ~Alive(t)
    BY <2>1, <2>2 DEF IInv, OtherRail
  <2> QED
    BY <1>1, <2>1, <2>2, <2>3, <2>4, <2>5, SessionMovesPreserve
<1>3. ASSUME NEW p \in Pages, StartSession(p, s)
      PROVE  IInv'
  <2> DEFINE state == [session[s] EXCEPT !.at = "started", !.live = TRUE]
  <2>1. state \in SessionStates /\ state.at = "started"
    BY <1>1 DEF SessionStates
  <2>2. session' = [session EXCEPT ![s] = state]
    <3>1. session' = [session EXCEPT ![s].at = "started", ![s].live = TRUE]
      BY <1>3 DEF StartSession
    <3> QED
      BY <1>1, <3>1
  <2>3. session[s].at = "none" /\ Presses(p) /\ UNCHANGED <<sent, stored, half, settled, page>>
    BY <1>3 DEF StartSession
  <2> HIDE DEF state
  <2>4. presses' \in 0..MaxPresses /\ faults \subseteq faults' /\ faults' \subseteq Faults
    BY <1>1, <2>3, CheckoutAssumption DEF Presses, Under, Faults
  <2> QED
    BY <1>1, <2>1, <2>2, <2>3, <2>4, SessionMovesPreserve
<1> QED
  BY <1>2, <1>3

LEMMA BroadcastPreserves ==
    ASSUME IInv, NEW s \in Sessions, NEW t \in Transfers, Broadcast(s, t)
    PROVE  IInv'
<1> DEFINE state == [session[s] EXCEPT !.at = "broadcast", !.tx = t]
<1>1. /\ TypeOK /\ SentPays /\ Records
      /\ Careful => CarefulMoney
      /\ faults = {} => OtherRail
      /\ session \in [Sessions -> SessionStates] /\ session[s] \in SessionStates
  BY DEF IInv, TypeOK, SessionStates
<1>2. /\ session[s].at = "checked" /\ sent[t].status = "unsent" /\ sent[t].pays = {}
      /\ sent' = [sent EXCEPT ![t] = [pays |-> Roles, status |-> "landed"]]
      /\ UNCHANGED <<stored, half, settled, page, presses, faults>>
  BY <1>1 DEF Broadcast, SentPays
<1>3. state \in SessionStates /\ state.at = "broadcast" /\ state.tx = t /\ t # None
  BY <1>1, CheckoutAssumption DEF SessionStates, Maybe
<1>4. session' = [session EXCEPT ![s] = state]
  <2>1. session' = [session EXCEPT ![s].at = "broadcast", ![s].tx = t]
    BY DEF Broadcast
  <2> QED
    BY <1>1, <2>1
<1> HIDE DEF state
<1>5. session'[s] = state /\ \A s2 \in Sessions \ {s} : session'[s2] = session[s2]
  BY <1>1, <1>4
<1>6. /\ sent'[t].pays = Roles /\ sent'[t].status = "landed"
      /\ \A u \in Transfers \ {t} : sent'[u] = sent[u]
  BY <1>1, <1>2 DEF TypeOK
<1>7. TypeOK'
  <2>1. sent' \in [Transfers -> [pays : SUBSET Roles, status : {"unsent", "pending", "landed", "failed"}]]
    BY <1>1, <1>2 DEF TypeOK
  <2>2. session' \in [Sessions -> SessionStates]
    BY <1>1, <1>3, <1>4
  <2> QED
    BY <1>1, <1>2, <2>1, <2>2 DEF TypeOK, SessionStates
<1>8. SentPays'
  BY <1>1, <1>3, <1>5, <1>6 DEF SentPays
<1>9. ASSUME NEW named \in [Roles -> Maybe(Transfers)], NamesPay(named), NEW r \in Roles, named[r] # None
      PROVE  sent'[named[r]] = sent[named[r]] /\ sent[named[r]].pays = {r}
  BY <1>2, <1>6, <1>9 DEF NamesPay, Maybe
<1>10. ASSUME NEW row \in HalfRows, RowIsTrue(row)
       PROVE  /\ \A r \in Roles : row.named[r] # None => sent'[row.named[r]].pays = {r}
              /\ \A r \in row.landed : row.named[r] # None /\ sent'[row.named[r]].status = "landed"
              /\ \A r \in Roles : row.named[r] # None => row.landed # {}
  <2>1. row.named \in [Roles -> Maybe(Transfers)] /\ row.landed \subseteq Roles /\ NamesPay(row.named)
    BY <1>10 DEF HalfRows, RowIsTrue
  <2> QED
    BY <1>9, <1>10, <2>1 DEF RowIsTrue
<1>11. Records'
  <2>1. NamesPay(stored)'
    BY <1>1, <1>2, <1>9 DEF Records, NamesPay, TypeOK
  <2>2. RowIsTrue(half)'
    <3>1. half \in HalfRows /\ RowIsTrue(half) /\ half' = half
      BY <1>1, <1>2 DEF Records, TypeOK
    <3>2. /\ \A r \in Roles : half.named[r] # None => sent'[half.named[r]].pays = {r}
          /\ \A r \in half.landed : half.named[r] # None /\ sent'[half.named[r]].status = "landed"
          /\ \A r \in Roles : half.named[r] # None => half.landed # {}
      BY <1>10, <3>1
    <3> QED
      BY <3>1, <3>2 DEF RowIsTrue, NamesPay
  <2>3. ASSUME NEW q \in Pages
        PROVE  /\ NamesPay(page[q].known)' /\ RowIsTrue(page[q].half)'
               /\ (page[q].at = "asking" => Missing(page[q].known) # {})'
               /\ (page[q].at = "answered" /\ page[q].answer \in {"paid", "already"} => settled # None)'
    <3>1. /\ page[q].known \in [Roles -> Maybe(Transfers)] /\ page[q].half \in HalfRows
          /\ NamesPay(page[q].known) /\ RowIsTrue(page[q].half)
      BY <1>1 DEF TypeOK, Tabs, Records
    <3>2. NamesPay(page[q].known)'
      BY <1>2, <1>9, <3>1 DEF NamesPay
    <3>3. RowIsTrue(page[q].half)'
      BY <1>2, <1>10, <3>1 DEF RowIsTrue, NamesPay
    <3> QED
      BY <1>1, <1>2, <3>2, <3>3 DEF Records, Missing
  <2> QED
    BY <2>1, <2>2, <2>3 DEF Records
<1>12. \A s2 \in Sessions : Answering(s2)' <=> Answering(s2)
  BY <1>2, <1>3, <1>5 DEF Answering
<1>13. \A r \in Roles : Paying(r)' = Paying(r)
  BY <1>2, <1>6 DEF Paying, Alive, Roles
<1>14. ASSUME Careful'
       PROVE  CarefulMoney'
  <2>1. CarefulMoney
    BY <1>1, <1>2, <1>14 DEF Careful
  <2>2. OneAttempt' /\ (settled' # None => NothingAsked')
    BY <1>2, <1>12, <2>1 DEF CarefulMoney, OneAttempt, NothingAsked, Busy
  <2>3. settled' = None => Remembered'
    BY <1>2, <1>13, <2>1 DEF CarefulMoney, Remembered
  <2>4. \A p \in Pages : page'[p].at \in {"asking", "keeping"} => KnowsAll(p)'
    BY <1>2, <1>13, <2>1 DEF CarefulMoney, KnowsAll
  <2>5. PaysOnce'
    BY <1>13, <2>1 DEF CarefulMoney, PaysOnce
  <2> QED
    BY <2>2, <2>3, <2>4, <2>5 DEF CarefulMoney
<1>15. ASSUME faults' = {}
       PROVE  OtherRail'
  <2>1. OtherRail /\ CarefulMoney
    BY <1>1, <1>2, <1>15 DEF Careful
  <2>2. \A u \in Transfers : Alive(u)' => u = t
    BY <1>2, <1>6, <2>1 DEF OtherRail, Alive
  <2>3. \A s2 \in Sessions : session'[s2].at # "checked"
    BY <1>2, <1>3, <1>5, <2>1 DEF CarefulMoney, OneAttempt, Answering
  <2>4. \A u \in PayingBoth' : u = t
    BY <2>2 DEF PayingBoth
  <2> QED
    BY <1>3, <1>5, <2>2, <2>3, <2>4 DEF OtherRail
<1> QED
  BY <1>7, <1>8, <1>11, <1>14, <1>15 DEF IInv

--------------------------------------------------------------------------------
LEMMA CheckoutStep == IInv /\ [Next]_vars => IInv'
<1> SUFFICES ASSUME IInv, [Next]_vars
             PROVE  IInv'
  OBVIOUS
<1>1. ASSUME NEW p \in Pages, Pay(p) \/ Resend(p) \/ Check(p)
      PROVE  IInv'
  BY <1>1, PayPreserves
<1>2. ASSUME NEW p \in Pages, StartFails(p) \/ PollFails(p) \/ Close(p)
      PROVE  IInv'
  BY <1>2, StepBackPreserves
<1>3. ASSUME NEW p \in Pages, Start(p) \/ Choose(p) \/ Refuse(p) \/ Keep(p) \/ Poll(p)
      PROVE  IInv'
  BY <1>3, StartPreserves, ChoosePreserves, RefusePreserves, KeepPreserves, PollPreserves
<1>4. ASSUME NEW p \in Pages, Report(p) \/ ReportSettled(p) \/ ReportFails(p) \/ Settle(p)
      PROVE  IInv'
  BY <1>4, ReportPreserves, ReportSettledPreserves, ReportFailsPreserves, SettlePreserves
<1>5. ASSUME NEW p \in Pages, NEW t \in Transfers, Approve(p, t)
      PROVE  IInv'
  BY <1>5, ApprovePreserves
<1>6. ASSUME NEW p \in Pages, NEW s \in Sessions, StartSession(p, s)
      PROVE  IInv'
  BY <1>6, OpeningPreserves
<1>7. ASSUME NEW s \in Sessions, Expire(s)
      PROVE  IInv'
  BY <1>7, OpeningPreserves
<1>8. ASSUME NEW s \in Sessions,
             PrepareTx(s) \/ OnAuth(s) \/ BroadcastFails(s) \/ RecordPayment(s) \/ RecordFails(s)
      PROVE  IInv'
  BY <1>8, SessionsPreserve
<1>9. ASSUME NEW s \in Sessions, NEW t \in Transfers, Broadcast(s, t)
      PROVE  IInv'
  BY <1>9, BroadcastPreserves
<1>10. ASSUME NEW t \in Transfers, Mine(t)
       PROVE  IInv'
  BY <1>10, MinePreserves
<1>11. CASE UNCHANGED vars
  <2>1. UNCHANGED <<sent, stored, half, settled, page, session, presses, faults>>
    BY <1>11 DEF vars
  <2>2. TypeOK' /\ SentPays' /\ Records'
    BY <2>1 DEF IInv, TypeOK, SentPays, Records, NamesPay, RowIsTrue, Missing
  <2>3. (\A r \in Roles : Paying(r)' = Paying(r)) /\ PayingBoth' = PayingBoth
        /\ \A t \in Transfers : Alive(t)' <=> Alive(t)
    BY <2>1 DEF Paying, PayingBoth, Alive
  <2>4. CarefulMoney => CarefulMoney'
    <3>1. OneAttempt => OneAttempt'
      BY <2>1 DEF OneAttempt, Busy, Answering
    <3>2. NothingAsked => NothingAsked'
      BY <2>1 DEF NothingAsked, Answering
    <3>3. Remembered => Remembered'
      BY <2>1, <2>3 DEF Remembered
    <3>4. \A p \in Pages : KnowsAll(p) => KnowsAll(p)'
      BY <2>1, <2>3 DEF KnowsAll
    <3>5. PaysOnce => PaysOnce'
      BY <2>3 DEF PaysOnce
    <3> QED
      BY <2>1, <3>1, <3>2, <3>3, <3>4, <3>5 DEF CarefulMoney
  <2>5. OtherRail => OtherRail'
    BY <2>1, <2>3 DEF OtherRail
  <2> QED
    BY <2>1, <2>2, <2>4, <2>5 DEF IInv, Careful
<1> QED
  BY <1>1, <1>2, <1>3, <1>4, <1>5, <1>6, <1>7, <1>8, <1>9, <1>10, <1>11 DEF Next

(* What is known of the money is known in every state: IInv, of Checkout.         *)
THEOREM CheckoutInvariant == Spec => []IInv
BY NobodyWasCharged, CheckoutStep, PTL DEF Spec

(* Every variable keeps its type: TypeOK, of Checkout.                            *)
THEOREM CheckoutIsTyped == Spec => []TypeOK
<1>1. IInv => TypeOK
  BY DEF IInv
<1> QED
  BY <1>1, CheckoutInvariant, PTL

(* Nobody is charged twice, for any number of tabs, transfers, sessions and presses:   *)
(* usdc-wallet.js pay, the start routes and onAuth.                                *)
THEOREM NobodyIsChargedTwice == Spec => []ChargedOnce
<1>1. ASSUME IInv, faults = {}, NEW r \in Roles
      PROVE  Cardinality({t \in Transfers : r \in sent[t].pays /\ Alive(t)}) =< 1
  <2> DEFINE S == {t \in Transfers : r \in sent[t].pays /\ Alive(t)}
  <2>1. SentPays /\ PaysOnce /\ OtherRail
    BY <1>1 DEF IInv, Careful, CarefulMoney
  <2>2. S = Paying(r) \cup PayingBoth
    <3>1. \A t \in Transfers : Alive(t) /\ r \in sent[t].pays <=> Alive(t) /\ sent[t].pays \in {{r}, Roles}
      BY <2>1 DEF SentPays, Alive, Roles
    <3> QED
      BY <3>1 DEF Paying, PayingBoth
  <2>3. \A t1, t2 \in S : t1 = t2
    BY <2>1, <2>2 DEF PaysOnce, OtherRail, Paying, PayingBoth
  <2> HIDE DEF S
  <2>4. Cardinality(S) =< 1
    <3>1. CASE S = {}
      BY <3>1, FS_EmptySet
    <3>2. CASE S # {}
      <4>1. PICK t \in S : TRUE
        BY <3>2
      <4>2. S = {t}
        BY <2>3, <4>1
      <4> QED
        BY <4>2, FS_Singleton
    <3> QED
      BY <3>1, <3>2
  <2> QED
    BY <2>4 DEF S
<1>2. IInv => ChargedOnce
  BY <1>1 DEF ChargedOnce
<1> QED
  BY <1>2, CheckoutInvariant, PTL

(* While the leg has not settled, the device's record of a transfer that may still land *)
(* stands: usdc-wallet.js writeStored, clearStored and outcomeFromResponse.          *)
THEOREM MoneyStaysRemembered == Spec => MoneyIsRemembered
<1> DEFINE Stands == \A r \in Roles :
                (stored[r] # None /\ stored'[r] # stored[r] /\ settled = None)
                    => sent[stored[r]].status = "failed"
                       \/ faults \cap {"two_at_once", "superseded", "forgotten"} # {}
<1>1. ASSUME IInv, [Next]_vars
      PROVE  Stands
  <2> SUFFICES ASSUME NEW r \in Roles, stored[r] # None, stored'[r] # stored[r], settled = None, Careful
               PROVE  sent[stored[r]].status = "failed"
    BY DEF Careful
  <2>1. stored' # stored
    OBVIOUS
  <2>2. PICK p \in Pages : Start(p) \/ Keep(p) \/ Settle(p)
    BY <1>1, <2>1 DEF Next, vars, Pay, Resend, StartFails, Choose, Refuse, Poll, PollFails, Report,
                      ReportSettled, ReportFails, Check, Close, Approve, StartSession, Expire,
                      PrepareTx, OnAuth, BroadcastFails, RecordPayment, RecordFails, Broadcast, Mine
  <2>3. CASE Start(p)
    BY <2>1, <2>3 DEF Start
  <2>4. CASE Settle(p)
    BY <1>1, <2>1, <2>4 DEF Settle, Clearing, Clears, IInv, Records
  <2>5. CASE Keep(p)
    <3>1. page[p].at = "keeping" /\ stored' = page[p].known
      BY <2>1, <2>5 DEF Keep
    <3>2. stored[r] \in Transfers /\ sent[stored[r]].pays = {r}
      BY <1>1 DEF IInv, TypeOK, Maybe, Records, NamesPay
    <3>3. ~Alive(stored[r])
      BY <1>1, <3>1, <3>2 DEF IInv, CarefulMoney, KnowsAll, Paying
    <3>4. sent[stored[r]].status # "unsent"
      BY <1>1, <3>2 DEF IInv, SentPays
    <3> QED
      BY <1>1, <3>2, <3>3, <3>4 DEF Alive, IInv, TypeOK
  <2> QED
    BY <2>2, <2>3, <2>4, <2>5
<1>2. IInv /\ [Next]_vars => [Stands]_vars
  BY <1>1
<1> QED
  BY <1>2, CheckoutInvariant, PTL DEF Spec, MoneyIsRemembered
================================================================================
