-------------------------------- MODULE Checkout -------------------------------
(* Paying one deposit from the pages of one device. The browser wallet sends two  *)
(* ERC-20 transfers, the price and the fee, and reports them to the server; the  *)
(* DID wallet answers a payment session instead, and the server broadcasts what  *)
(* it signed. What keeps the buyer from paying twice is spread over three places *)
(* that are read at different moments: the record this device keeps, the half-   *)
(* paid row of the server, and the settlement.                                  *)
(*                                                                              *)
(* What the server does with one report is a single step here; Erc20Legs takes  *)
(* it apart.                                                                    *)
EXTENDS FiniteSets, Integers

CONSTANTS Pages,       \* the tabs of the device that show the checkout
          Transfers, Sessions,
          MaxPresses,  \* presses of Pay, Try again, Send again and Check again
          None

ASSUME CheckoutAssumption ==
    /\ IsFiniteSet(Transfers)
    /\ MaxPresses \in Nat
    /\ None \notin Transfers \cup Pages \cup Sessions
    /\ Pages \cap Sessions = {}

Roles == {"price", "fee"}
Nothing == [r \in Roles |-> None]
NoHalf == [named |-> Nothing, landed |-> {}]

VARIABLES sent,      \* the transfers: what each pays and what became of it
          stored,    \* localStorage: the transfer of each role this device sent
          half,      \* the server's half-paid row of the leg
          settled,   \* the settlement of the leg, None while there is none
          page,      \* what each tab is doing
          session,   \* the DID Connect sessions
          presses,   \* how often a button was pressed
          faults     \* history: what happened that the code does not guard against

vars == <<sent, stored, half, settled, page, session, presses, faults>>

Fresh == [at |-> "open", press |-> "none", again |-> None, half |-> NoHalf, known |-> Nothing,
          seen |-> {}, answer |-> "none", landed |-> {}]
Settlements == [rail : {"usdc", "abt"}, pays : [Roles -> Transfers]]
\* A settlement that was written is never missing, and no role is.
ASSUME RowsAssumption == None \notin Settlements /\ None \notin Roles

Steps == {"open", "starting", "choosing", "asking", "keeping", "polling", "reporting", "answered", "stuck"}
Faults == {"two_at_once", "forgotten", "superseded", "other_rail", "unrecorded"}
Maybe(S) == S \cup {None}
HalfRows == [named : [Roles -> Maybe(Transfers)], landed : SUBSET Roles]
Tabs == [at : Steps, press : {"none", "retry", "resend", "check"}, again : Maybe(Roles),
         half : HalfRows, known : [Roles -> Maybe(Transfers)], seen : SUBSET (Roles \X {"landed", "failed"}),
         answer : {"none", "unreachable", "refused", "paid", "already", "legs"}, landed : SUBSET Roles]

TypeOK ==
    /\ sent \in [Transfers -> [pays : SUBSET Roles, status : {"unsent", "pending", "landed", "failed"}]]
    /\ stored \in [Roles -> Maybe(Transfers)]
    /\ half \in HalfRows
    /\ settled \in Maybe(Settlements)
    /\ page \in [Pages -> Tabs]
    /\ session \in [Sessions -> [at : {"none", "started", "asked", "checked", "broadcast", "over"},
                                 live : BOOLEAN, tx : Maybe(Transfers)]]
    /\ presses \in 0..MaxPresses
    /\ faults \subseteq Faults

Init ==
    /\ sent = [t \in Transfers |-> [pays |-> {}, status |-> "unsent"]]
    /\ stored = Nothing
    /\ half = NoHalf
    /\ settled = None
    /\ page = [p \in Pages |-> Fresh]
    /\ session = [s \in Sessions |-> [at |-> "none", live |-> FALSE, tx |-> None]]
    /\ presses = 0
    /\ faults = {}

--------------------------------------------------------------------------------
(* What went wrong, so far.                                                     *)

Alive(t) == sent[t].status \in {"pending", "landed"}
Busy(p) == page[p].at \notin {"open", "stuck"}
Answering(s) == session[s].at \in {"checked", "broadcast"}
Under(condition, fault) == IF condition THEN {fault} ELSE {}

\* Another attempt of this leg is under way.
OthersPay(me) == (\E p \in Pages \ {me} : Busy(p)) \/ (\E s \in Sessions \ {me} : Answering(s))

--------------------------------------------------------------------------------
(* The browser wallet (usdc-wallet.js and the sheet that drives it).             *)

Open(press, role) == [Fresh EXCEPT !.press = press, !.again = role]
Moves(p, state) == page' = [page EXCEPT ![p] = state]
Goes(p, step) == Moves(p, [page[p] EXCEPT !.at = step])
\* A press begins an attempt, whatever goes on elsewhere.
Presses(p) ==
    /\ page[p].at = "open"
    /\ presses < MaxPresses /\ presses' = presses + 1
    /\ faults' = faults \cup Under(OthersPay(p), "two_at_once")

\* Pay, a picked wallet, or Try again: every attempt begins with the start route.
Pay(p) ==
    /\ Presses(p)
    /\ Moves(p, [Fresh EXCEPT !.at = "starting"])
    /\ UNCHANGED <<sent, stored, half, settled, session>>

Resend(p) ==
    /\ page[p].press = "resend"
    /\ Presses(p)
    /\ Moves(p, [Fresh EXCEPT !.at = "starting", !.again = page[p].again])
    /\ UNCHANGED <<sent, stored, half, settled, session>>

\* The start route answers the half-paid row, or that the leg is paid. A leg that
\* settled over DID Connect is refused as the wrong rail, and no button follows.
Start(p) ==
    /\ page[p].at = "starting"
    /\ IF settled = None
       THEN /\ Moves(p, [page[p] EXCEPT !.at = "choosing", !.half = half])
            /\ UNCHANGED stored
       ELSE /\ Moves(p, Open("none", None))
            /\ stored' = IF settled.rail = "usdc" THEN Nothing ELSE stored
    /\ UNCHANGED <<sent, half, settled, session, presses, faults>>

\* The wallet is closed, the network is not switched, or the server fails.
StartFails(p) ==
    /\ page[p].at \in {"starting", "choosing"}
    /\ Moves(p, Open("retry", None))
    /\ UNCHANGED <<sent, stored, half, settled, session, presses, faults>>

Missing(known) == {r \in Roles : known[r] = None}
\* The price is always asked for first.
NextRole(known) == IF known["price"] = None THEN "price" ELSE "fee"
NextStep(known) == IF Missing(known) = {} THEN "polling" ELSE "asking"

\* What is known is not sent again, save the role of a Send again; the server's row
\* is believed before this device's own record.
KnownFrom(row, again) ==
    [r \in Roles |-> IF r = again THEN None
                     ELSE IF row.named[r] # None THEN row.named[r] ELSE stored[r]]
\* A plausible bug: only the server is asked what was sent.
KnownFromServer(row, again) == [r \in Roles |-> IF r = again THEN None ELSE row.named[r]]
Known(row, again) == KnownFrom(row, again)

Choose(p) ==
    LET row == page[p].half  again == page[p].again  known == Known(row, again) IN
    /\ page[p].at = "choosing"
    /\ Moves(p, [page[p] EXCEPT !.at = NextStep(known), !.known = known, !.half = NoHalf])
    /\ faults' = faults
           \cup Under(again # None /\ stored[again] # None /\ Alive(stored[again]), "superseded")
    /\ UNCHANGED <<sent, stored, half, settled, session, presses>>

\* The wallet broadcasts; the page learns the transaction of it, and only then
\* writes it down.
Approve(p, t) ==
    LET role == NextRole(page[p].known) IN
    /\ page[p].at = "asking"
    /\ sent[t].status = "unsent"
    /\ sent' = [sent EXCEPT ![t] = [pays |-> {role}, status |-> "pending"]]
    /\ Moves(p, [page[p] EXCEPT !.at = "keeping", !.known[role] = t])
    /\ UNCHANGED <<stored, half, settled, session, presses, faults>>

\* A refused price ends the attempt; a refused fee is reported as not signed.
Refuse(p) ==
    /\ page[p].at = "asking"
    /\ IF page[p].known["price"] = None THEN Moves(p, Open("retry", None)) ELSE Goes(p, "polling")
    /\ UNCHANGED <<sent, stored, half, settled, session, presses, faults>>

\* writeStored swallows its own error.
Keep(p) ==
    /\ page[p].at = "keeping"
    /\ Goes(p, NextStep(page[p].known))
    /\ \/ stored' = page[p].known /\ UNCHANGED faults
       \/ UNCHANGED stored /\ faults' = faults \cup {"forgotten"}
    /\ UNCHANGED <<sent, half, settled, session, presses>>

\* The receipts, as the node of the wallet sees them; it may lag.
Receipts(known) ==
    {<<r, sent[known[r]].status>> : r \in {q \in Roles : known[q] # None /\ sent[known[q]].status \in {"landed", "failed"}}}

Poll(p) ==
    /\ page[p].at = "polling"
    /\ \E seen \in SUBSET Receipts(page[p].known) :
           Moves(p, [page[p] EXCEPT !.at = "reporting", !.seen = seen])
    /\ UNCHANGED <<sent, stored, half, settled, session, presses, faults>>

\* The wallet throws: nothing catches it, and the page stays busy.
PollFails(p) ==
    /\ page[p].at = "polling"
    /\ Moves(p, [Fresh EXCEPT !.at = "stuck"])
    /\ UNCHANGED <<sent, stored, half, settled, session, presses, faults>>

--------------------------------------------------------------------------------
(* The wallet-response route.                                                   *)

Landed(known) == {r \in Roles : known[r] # None /\ sent[known[r]].status = "landed"}
Answered(p, answer, landed) ==
    \* or the answer is lost on the way back
    \E kind \in {answer, "unreachable"} :
        Moves(p, [page[p] EXCEPT !.at = "answered", !.answer = kind,
                                 !.landed = IF kind = "legs" THEN landed ELSE {}])

Report(p) ==
    LET known == page[p].known  landed == Landed(known) IN
    /\ page[p].at = "reporting"
    /\ settled = None
    /\ half' = IF Cardinality(landed) = 1 THEN [named |-> known, landed |-> landed] ELSE NoHalf
    /\ settled' = IF landed = Roles THEN [rail |-> "usdc", pays |-> known] ELSE None
    /\ Answered(p, IF landed = Roles THEN "paid" ELSE "legs", landed)
    /\ UNCHANGED <<sent, stored, session, presses, faults>>

\* The exact pair that settled is answered again as it was; any other is refused.
ReportSettled(p) ==
    /\ page[p].at = "reporting"
    /\ settled # None
    /\ Answered(p, IF settled.rail = "abt" THEN "refused"
                   ELSE IF settled.pays = page[p].known THEN "paid" ELSE "already", {})
    /\ UNCHANGED <<sent, stored, half, settled, session, presses, faults>>

\* The request is lost or the server fails on it; both transfers may be confirmed by
\* then, the half-paid row cleared and the settlement not written.
ReportFails(p) ==
    /\ page[p].at = "reporting"
    /\ \/ UNCHANGED half
       \/ settled = None /\ Landed(page[p].known) = Roles /\ half' = NoHalf
    /\ Moves(p, [page[p] EXCEPT !.at = "answered", !.answer = "unreachable"])
    /\ UNCHANGED <<sent, stored, settled, session, presses, faults>>

--------------------------------------------------------------------------------
(* What the page makes of the answer: the button it offers next.                 *)

Outcome(tab) ==
    IF tab.answer = "unreachable" THEN Open("retry", None)
    ELSE IF tab.answer \in {"refused", "paid", "already"} THEN Open("none", None)
    ELSE IF <<"price", "failed">> \in tab.seen THEN Open("resend", "price")
    ELSE IF <<"fee", "failed">> \in tab.seen THEN Open("resend", "fee")
    ELSE IF tab.known["fee"] = None /\ "price" \in tab.landed THEN Open("retry", None)
    ELSE Open("check", None)
Clears(answer) == answer \in {"paid", "already"}
\* A plausible bug: the record is dropped with every answer the server gave.
ClearsAnswered(answer) == answer # "unreachable"
Clearing(answer) == Clears(answer)

Settle(p) ==
    /\ page[p].at = "answered"
    /\ Moves(p, Outcome(page[p]))
    /\ stored' = IF Clearing(page[p].answer) THEN Nothing ELSE stored
    /\ UNCHANGED <<sent, half, settled, session, presses, faults>>

\* Check again reports what this device keeps, without the start route.
Check(p) ==
    /\ page[p].press = "check"
    /\ Presses(p)
    /\ Moves(p, IF stored["price"] = None THEN Open("none", None)
                ELSE [Fresh EXCEPT !.at = "polling", !.known = stored])
    /\ UNCHANGED <<sent, stored, half, settled, session>>

\* The page is closed or loaded again, between any two steps.
Close(p) ==
    /\ page[p] # Fresh
    /\ Moves(p, Fresh)
    /\ faults' = faults \cup Under(page[p].at = "keeping", "forgotten")
    /\ UNCHANGED <<sent, stored, half, settled, session, presses>>

Mine(t) ==
    /\ sent[t].status = "pending"
    /\ \E status \in {"landed", "failed"} : sent' = [sent EXCEPT ![t].status = status]
    /\ UNCHANGED <<stored, half, settled, page, session, presses, faults>>

--------------------------------------------------------------------------------
(* DID Connect (abt-did-connect.ts): a session is started from the page, its      *)
(* claim is built for the wallet, and the wallet's answer is checked, broadcast   *)
(* and recorded.                                                                *)

\* The doors of this rail: settled, or held by the price transfer of the other.
DoorShut == settled # None \/ "price" \in half.landed
DoorAtAnswer == DoorShut

Session(s, from, to) ==
    /\ session[s].at = from
    /\ session' = [session EXCEPT ![s].at = to]

StartSession(p, s) ==
    /\ ~DoorShut
    /\ Presses(p)
    /\ session[s].at = "none"
    /\ session' = [session EXCEPT ![s].at = "started", ![s].live = TRUE]
    /\ UNCHANGED <<sent, stored, half, settled, page>>

Expire(s) ==
    /\ session[s].live
    /\ session' = [session EXCEPT ![s].live = FALSE]
    /\ UNCHANGED <<sent, stored, half, settled, page, presses, faults>>

\* prepareTx: the claim is built from the session's own lock.
PrepareTx(s) ==
    /\ Session(s, "started", IF session[s].live THEN "asked" ELSE "over")
    /\ UNCHANGED <<sent, stored, half, settled, page, presses, faults>>

\* onAuth asks everything before it broadcasts.
OnAuth(s) ==
    /\ Session(s, "asked", IF DoorAtAnswer THEN "over" ELSE "checked")
    /\ faults' = faults \cup Under(~DoorAtAnswer /\ OthersPay(s), "two_at_once")
                        \cup Under(~DoorAtAnswer /\ settled = None /\ \E t \in Transfers : Alive(t), "other_rail")
    /\ UNCHANGED <<sent, stored, half, settled, page, presses>>

Broadcast(s, t) ==
    /\ session[s].at = "checked" /\ session[s].live
    /\ sent[t].status = "unsent"
    /\ sent' = [sent EXCEPT ![t] = [pays |-> Roles, status |-> "landed"]]
    /\ session' = [session EXCEPT ![s].at = "broadcast", ![s].tx = t]
    /\ UNCHANGED <<stored, half, settled, page, presses, faults>>

\* The lock has expired meanwhile, or the chain takes nothing.
BroadcastFails(s) ==
    /\ Session(s, "checked", "over")
    /\ UNCHANGED <<sent, stored, half, settled, page, presses, faults>>

RecordPayment(s) ==
    /\ Session(s, "broadcast", "over")
    /\ settled' = [rail |-> "abt", pays |-> [r \in Roles |-> session[s].tx]]
    /\ UNCHANGED <<sent, stored, half, page, presses, faults>>

\* The chain, or the storage, does not answer after the broadcast: nothing is
\* recorded, and no route asks again.
RecordFails(s) ==
    /\ Session(s, "broadcast", "over")
    /\ faults' = faults \cup {"unrecorded"}
    /\ UNCHANGED <<sent, stored, half, settled, page, presses>>

--------------------------------------------------------------------------------
Next ==
    \/ \E p \in Pages :
          \/ Pay(p) \/ Resend(p) \/ Start(p) \/ StartFails(p) \/ Choose(p)
          \/ Refuse(p) \/ Keep(p) \/ Poll(p) \/ PollFails(p)
          \/ Report(p) \/ ReportSettled(p) \/ ReportFails(p) \/ Settle(p) \/ Check(p) \/ Close(p)
          \/ \E t \in Transfers : Approve(p, t)
          \/ \E s \in Sessions : StartSession(p, s)
    \/ \E s \in Sessions :
          \/ Expire(s) \/ PrepareTx(s) \/ OnAuth(s) \/ BroadcastFails(s)
          \/ RecordPayment(s) \/ RecordFails(s)
          \/ \E t \in Transfers : Broadcast(s, t)
    \/ \E t \in Transfers : Mine(t)

Spec == Init /\ [][Next]_vars

--------------------------------------------------------------------------------
(* Nobody is charged twice: whatever is refused, fails, lags or gets lost, and       *)
(* however often the page is loaded again, each part of the leg is paid by one      *)
(* transfer at most that has not failed, unless one of the five things happened that *)
(* nothing in the code guards against (see faults). usdc-wallet.js pay, the start   *)
(* routes and onAuth.                                                              *)
ChargedOnce ==
    faults = {} => \A r \in Roles : Cardinality({t \in Transfers : r \in sent[t].pays /\ Alive(t)}) =< 1

(* While the leg has not settled this device never forgets a transfer that may still *)
(* land: another takes its place in the record only once it has failed. It takes a  *)
(* device that runs one attempt at a time, sends nothing again that is still alive   *)
(* and keeps what it is told to keep: a transfer that was sent and never written     *)
(* down comes back by way of the half-paid row, and takes the place of the one that *)
(* was sent instead. usdc-wallet.js writeStored, clearStored, outcomeFromResponse.   *)
MoneyIsRemembered ==
    [][\A r \in Roles :
          (stored[r] # None /\ stored'[r] # stored[r] /\ settled = None)
              => sent[stored[r]].status = "failed"
                 \/ faults \cap {"two_at_once", "superseded", "forgotten"} # {}]_vars
================================================================================
