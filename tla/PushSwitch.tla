------------------------------ MODULE PushSwitch -------------------------------
(* The notifications switch of /settings on one device: the browser's own        *)
(* subscription, the row the server keeps for its address, and the tabs between   *)
(* them, each signed in to an account of its own. Any answer may be lost, and a   *)
(* request whose answer was given up may still be carried out. The browser's own  *)
(* unsubscribe is taken to work: the code does not look at its answer.            *)
EXTENDS Naturals, FiniteSets

CONSTANTS Tabs, Accounts,
          Addresses,       \* the push addresses the browser may be given, bounded
          None

VARIABLES sub,        \* the browser's subscription: its address
          given,      \* the addresses the browser has had
          rows,       \* the account a row names for an address
          tab,        \* what each tab shows, and what it is doing
          posts,      \* the registrations on their way or under way at the server
          touched     \* the tabs behind whose back the switch was moved elsewhere

vars == <<sub, given, rows, tab, posts, touched>>

OrNone(S) == S \cup {None}

\* At rest a tab shows the subscription it knows of; own says that its own press put
\* the switch where it is.
Shown == [account : Accounts, sub : OrNone(Addresses), own : BOOLEAN,
          doing : {"nothing", "posting", "deleting"}]
Posts == [tab : Tabs, account : Accounts, address : Addresses, step : {"sent", "looked"}]

TypeOK ==
    /\ sub \in OrNone(Addresses)
    /\ given \subseteq Addresses
    /\ rows \in [Addresses -> OrNone(Accounts)]
    /\ tab \in [Tabs -> OrNone(Shown)]
    /\ posts \subseteq Posts
    /\ touched \subseteq Tabs

Init ==
    /\ sub = None /\ given = {}
    /\ rows = [a \in Addresses |-> None]
    /\ tab = [t \in Tabs |-> None]
    /\ posts = {} /\ touched = {}

--------------------------------------------------------------------------------

Doing(t, what) == tab[t] # None /\ tab[t].doing = what
Others(t) == {u \in Tabs \ {t} : tab[u] # None}

\* The page reads the browser's subscription, never the account's row.
Open(t, account) ==
    /\ tab[t] = None
    /\ tab' = [tab EXCEPT ![t] =
                  [account |-> account, sub |-> sub, own |-> FALSE, doing |-> "nothing"]]
    /\ touched' = touched \ {t}
    /\ UNCHANGED <<sub, given, rows, posts>>

Close(t) ==
    /\ Doing(t, "nothing")
    /\ tab' = [tab EXCEPT ![t] = None]
    /\ UNCHANGED <<sub, given, rows, posts, touched>>

\* turnOn, up to its request: a browser that has a subscription gives that one.
Subscribe(t) ==
    /\ Doing(t, "nothing") /\ tab[t].sub = None
    /\ \E address \in IF sub = None THEN Addresses \ given ELSE {sub} :
           /\ sub' = address
           /\ given' = given \cup {address}
           /\ tab' = [tab EXCEPT ![t].doing = "posting", ![t].sub = address]
           /\ posts' = posts \cup {[tab |-> t, account |-> tab[t].account,
                                    address |-> address, step |-> "sent"]}
    /\ touched' = touched \cup Others(t)
    /\ UNCHANGED rows

\* The row's holder is read, and the row written later by upsert.
Look(p) ==
    /\ p \in posts /\ p.step = "sent"
    /\ rows[p.address] \in {None, p.account}
    /\ posts' = (posts \ {p}) \cup {[p EXCEPT !.step = "looked"]}
    /\ UNCHANGED <<sub, given, rows, tab, touched>>

Waits(p) == Doing(p.tab, "posting") /\ tab[p.tab].sub = p.address

\* Resolved only after the server answered 201. A refusal, or an answer that was
\* given up, undoes the browser's half.
Settled(t, address, own) ==
    tab' = [tab EXCEPT ![t].doing = "nothing", ![t].sub = address, ![t].own = own]
Undone(t) == IF sub = tab[t].sub THEN None ELSE sub

Write(p) ==
    /\ p \in posts /\ p.step = "looked"
    /\ rows' = [rows EXCEPT ![p.address] = p.account]
    /\ posts' = posts \ {p}
    /\ IF Waits(p)
       THEN Settled(p.tab, p.address, TRUE) /\ touched' = touched \cup Others(p.tab)
       ELSE UNCHANGED <<tab, touched>>
    /\ UNCHANGED <<sub, given>>

RefusedKeeping(t) ==
    /\ Settled(t, None, TRUE)
    /\ UNCHANGED sub /\ touched' = touched \cup Others(t)
Refused(t) ==
    /\ Settled(t, None, TRUE)
    /\ sub' = Undone(t) /\ touched' = touched \cup Others(t)

\* Held by another account, or its storage failed.
Refuse(p) ==
    /\ p \in posts
    /\ posts' = posts \ {p}
    /\ IF Waits(p) THEN Refused(p.tab) ELSE UNCHANGED <<sub, tab, touched>>
    /\ UNCHANGED <<given, rows>>

\* The browser gave up on the answer; the server may not have.
Offline(t) ==
    /\ Doing(t, "posting")
    /\ Refused(t)
    /\ UNCHANGED <<given, rows, posts>>

\* turnOff: the server is asked first, and whatever it said the browser is next.
AskOff(t) ==
    /\ Doing(t, "nothing") /\ tab[t].sub # None
    /\ tab' = [tab EXCEPT ![t].doing = "deleting"]
    /\ UNCHANGED <<sub, given, rows, posts, touched>>

\* removeForAccount removes the row of this address when it names this account.
Removed(t) ==
    rows' = [rows EXCEPT ![tab[t].sub] = IF @ = tab[t].account THEN None ELSE @]

TurnOff(t) ==
    /\ Doing(t, "deleting")
    /\ Removed(t) \/ UNCHANGED rows
    /\ Refused(t)
    /\ UNCHANGED <<given, posts>>

\* The browser drops its subscription: the permission taken back, its data cleared.
Dropped ==
    /\ sub # None
    /\ sub' = None
    /\ touched' = touched \cup {t \in Tabs : tab[t] # None}
    /\ UNCHANGED <<given, rows, tab, posts>>

Next ==
    \/ \E t \in Tabs, account \in Accounts : Open(t, account)
    \/ \E t \in Tabs : Close(t)
    \/ \E t \in Tabs : Subscribe(t)
    \/ \E t \in Tabs : Offline(t)
    \/ \E t \in Tabs : AskOff(t)
    \/ \E t \in Tabs : TurnOff(t)
    \/ \E p \in posts : Look(p)
    \/ \E p \in posts : Write(p)
    \/ \E p \in posts : Refuse(p)
    \/ Dropped

Spec == Init /\ [][Next]_vars

--------------------------------------------------------------------------------

\* What the device rings for: the account of the row of the address it still has.
Rings == IF sub = None THEN None ELSE rows[sub]

\* The switch tells the truth about the device, whatever was refused or lost: On after
\* its own press, it rings for the account that pressed; Off after its own press,
\* nothing of anybody's reaches it. Only a press elsewhere on the same device since may
\* have made it wrong (push-switch.js turnOn, refuse, turnOff).
SwitchTellsTruth ==
    \A t \in Tabs :
        Doing(t, "nothing") /\ tab[t].own /\ t \notin touched =>
            IF tab[t].sub = None THEN sub = None
            ELSE sub = tab[t].sub /\ Rings = tab[t].account
================================================================================
