--------------------------------- MODULE Inbox ---------------------------------
(* What one party of a hire is told it has not read: the mark of the conversation, *)
(* stamped by the server's clock whenever a page that is looked at shows something *)
(* new, and the unread counts of the thread list and the badge, in the tabs of the *)
(* party. The stream is taken to hold; Conversation is about its loss.             *)
EXTENDS Naturals, FiniteSets

CONSTANTS Tabs, Messages,
          MaxNow,          \* bound: the server's clock stops here
          MaxMarks,        \* bound: marks on their way at once
          None

Times == 0 .. MaxNow
OrNone(S) == S \cup {None}

VARIABLES now,
          seat,        \* the party: a buyer, or the owner of the agent
          sent,        \* when the other party, or the platform, wrote each message
          readAt,      \* the stored read state of the seat
          marks,       \* POST .../messages/read requests on their way or at the server
          tab,         \* what each tab shows
          events,      \* what the stream still has to bring to each tab
          seen,        \* the messages a tab has shown to somebody who looked
          unshown,     \* the messages a mark was stamped over that its page did not show
          crossed      \* a mark was recorded over a later one, or never was

vars == <<now, seat, sent, readAt, marks, tab, events, seen, unshown, crossed>>

Marks == [tab : Tabs, shown : SUBSET Messages, step : {"sent", "stamped", "recorded"},
          copy : OrNone(Times), at : OrNone(Times)]
Views == [mode : {"loading", "open"}, visible : BOOLEAN, shown : SUBSET Messages,
          clear : OrNone(Times)]   \* when its list was counted, if nothing was unread then

TypeOK ==
    /\ now \in Times /\ seat \in {"buyer", "agent"}
    /\ sent \in [Messages -> OrNone(Times)] /\ readAt \in OrNone(Times)
    /\ marks \subseteq Marks
    /\ tab \in [Tabs -> OrNone(Views)]
    /\ events \in [Tabs -> SUBSET Messages]
    /\ seen \subseteq Messages /\ unshown \subseteq Messages
    /\ crossed \in BOOLEAN

Written == {m \in Messages : sent[m] # None}

Init ==
    /\ now = 0 /\ seat \in {"buyer", "agent"}
    /\ sent = [m \in Messages |-> None] /\ readAt = None /\ marks = {}
    /\ tab = [t \in Tabs |-> None] /\ events = [t \in Tabs |-> {}]
    /\ seen = {} /\ unshown = {} /\ crossed = FALSE

--------------------------------------------------------------------------------
(* The server.                                                                    *)

\* threadUnreadCount: a message at the very instant of the mark is read, and an owner
\* who never opened the conversation has its brief unread.
IsUnread(m, mark) == sent[m] # None /\ (mark = None \/ sent[m] > mark)
UnreadCount ==
    Cardinality({m \in Messages : IsUnread(m, readAt)})
        + (IF seat = "agent" /\ readAt = None THEN 1 ELSE 0)

Open(t) == tab[t] # None /\ tab[t].mode = "open"

\* The row, then the broadcast to the streams that are open.
Post(m) ==
    /\ sent[m] = None
    /\ sent' = [sent EXCEPT ![m] = now]
    /\ events' = [t \in Tabs |-> IF Open(t) THEN events[t] \cup {m} ELSE events[t]]
    /\ UNCHANGED <<now, seat, readAt, marks, tab, seen, unshown, crossed>>

\* POST .../messages/read: the state is read and advanced with the server's instant ...
Stamp(k) ==
    /\ k \in marks /\ k.step = "sent"
    /\ marks' = (marks \ {k}) \cup {[k EXCEPT !.step = "stamped", !.copy = readAt, !.at = now]}
    /\ unshown' = unshown \cup (Written \ k.shown)
    /\ UNCHANGED <<now, seat, sent, readAt, tab, events, seen, crossed>>

\* ... by advanceReadState, which keeps a later instant of the copy it was given ...
Advanced(k) == IF k.copy # None /\ k.copy >= k.at THEN k.copy ELSE k.at

\* ... and the result is written over whatever is stored by then.
Record(k) ==
    /\ k \in marks /\ k.step = "stamped"
    /\ readAt' = Advanced(k)
    /\ crossed' = (crossed \/ (readAt # None /\ readAt > Advanced(k)))
    /\ marks' = (marks \ {k}) \cup
           {[tab |-> k.tab, shown |-> {}, step |-> "recorded", copy |-> None, at |-> Advanced(k)]}
    /\ UNCHANGED <<now, seat, sent, tab, events, seen, unshown>>

\* The request, its storage or its answer is lost. The page takes no notice.
LoseMark(k) ==
    /\ k \in marks
    /\ marks' = marks \ {k}
    /\ crossed' = (crossed \/ k.step # "recorded")
    /\ UNCHANGED <<now, seat, sent, readAt, tab, events, seen, unshown>>

Tick ==
    /\ now < MaxNow
    /\ now' = now + 1
    /\ UNCHANGED <<seat, sent, readAt, marks, tab, events, seen, unshown, crossed>>

--------------------------------------------------------------------------------
(* A tab of the messages page.                                                    *)

Mark(t) == [tab |-> t, shown |-> IF tab'[t].mode = "open" THEN tab'[t].shown ELSE {},
            step |-> "sent", copy |-> None, at |-> None]

RoomForMark == Cardinality(marks) < MaxMarks

\* markRead: nothing is marked by a page that is not looked at.
MarkUnlooked(t, visible) == marks' = marks \cup {Mark(t)}
MarkRead(t, visible) == marks' = IF visible THEN marks \cup {Mark(t)} ELSE marks

Looked(messages, visible) == seen' = IF visible THEN seen \cup messages ELSE seen

\* The thread list and the badge tell the count of the moment they asked.
Counted == IF UnreadCount = 0 THEN now ELSE None

\* openThread: the list as it is now, to be shown later. The thread list was read before.
Load(t) ==
    /\ tab[t] = None
    /\ tab' = [tab EXCEPT ![t] =
           [mode |-> "loading", visible |-> TRUE, shown |-> Written, clear |-> Counted]]
    /\ UNCHANGED <<now, seat, sent, readAt, marks, events, seen, unshown, crossed>>

\* The conversation is drawn, marked read, and its stream opened.
Draw(t) ==
    /\ tab[t] # None /\ tab[t].mode = "loading" /\ RoomForMark
    /\ tab' = [tab EXCEPT ![t].mode = "open"]
    /\ Looked(tab[t].shown, tab[t].visible)
    /\ MarkRead(t, tab[t].visible)
    /\ UNCHANGED <<now, seat, sent, readAt, events, unshown, crossed>>

\* onLive: the message is drawn, marked read, and the list asked for anew.
Receive(t, m) ==
    /\ Open(t) /\ m \in events[t] /\ RoomForMark
    /\ events' = [events EXCEPT ![t] = @ \ {m}]
    /\ tab' = [tab EXCEPT ![t].shown = @ \cup {m}]
    /\ Looked({m}, tab[t].visible)
    /\ MarkRead(t, tab[t].visible)
    /\ UNCHANGED <<now, seat, sent, readAt, unshown, crossed>>

\* visibilitychange: a page that is looked at again marks what it shows, and one that is
\* still loading marks what it will.
Hide(t) ==
    /\ tab[t] # None /\ tab[t].visible
    /\ tab' = [tab EXCEPT ![t].visible = FALSE]
    /\ UNCHANGED <<now, seat, sent, readAt, marks, events, seen, unshown, crossed>>

LookAgain(t) ==
    /\ tab[t] # None /\ ~tab[t].visible /\ RoomForMark
    /\ tab' = [tab EXCEPT ![t].visible = TRUE]
    /\ Looked(IF Open(t) THEN tab[t].shown ELSE {}, TRUE)
    /\ MarkRead(t, TRUE)
    /\ UNCHANGED <<now, seat, sent, readAt, events, unshown, crossed>>

\* The answer to a mark takes the row's count off the list and the badge.
Answered(k) ==
    /\ k \in marks /\ k.step = "recorded"
    /\ marks' = marks \ {k}
    /\ tab' = [t \in Tabs |->
           IF t = k.tab /\ Open(t) THEN [tab[t] EXCEPT !.clear = k.at] ELSE tab[t]]
    /\ UNCHANGED <<now, seat, sent, readAt, events, seen, unshown, crossed>>

\* loadThreads, of the list and of the badge.
TellThreads(t) ==
    /\ Open(t)
    /\ tab' = [tab EXCEPT ![t].clear = Counted]
    /\ UNCHANGED <<now, seat, sent, readAt, marks, events, seen, unshown, crossed>>

Leave(t) ==
    /\ tab[t] # None
    /\ tab' = [tab EXCEPT ![t] = None]
    /\ events' = [events EXCEPT ![t] = {}]
    /\ UNCHANGED <<now, seat, sent, readAt, marks, seen, unshown, crossed>>

Next ==
    \/ \E m \in Messages : Post(m)
    \/ \E k \in marks : Stamp(k)
    \/ \E k \in marks : Record(k)
    \/ \E k \in marks : LoseMark(k)
    \/ \E k \in marks : Answered(k)
    \/ Tick
    \/ \E t \in Tabs : Load(t)
    \/ \E t \in Tabs : Draw(t)
    \/ \E t \in Tabs, m \in Messages : Receive(t, m)
    \/ \E t \in Tabs : Hide(t)
    \/ \E t \in Tabs : LookAgain(t)
    \/ \E t \in Tabs : TellThreads(t)
    \/ \E t \in Tabs : Leave(t)

Spec == Init /\ [][Next]_vars

--------------------------------------------------------------------------------
(* Properties.                                                                    *)

IsRead(m) == sent[m] # None /\ ~IsUnread(m, readAt)
Quiet(t) == ~\E k \in marks : k.tab = t

\* Nothing that stood on a page is taken for read before somebody looked at the page. A
\* message stamped before the page had it, or at the very instant of the stamp, may be.
ReadWasSeen ==
    \A m \in Messages :
        IsRead(m) => m \in seen \cup unshown \/ sent[m] = readAt

\* A conversation that is open, looked at and up to date is read, unless a mark was lost
\* or recorded over a later one.
OpenIsRead ==
    \A t \in Tabs :
        Open(t) /\ tab[t].visible /\ Quiet(t) /\ events[t] = {} /\ ~crossed =>
            \A m \in tab[t].shown : IsRead(m)

\* A list that tells of nothing unread hides nothing that was there when it was told.
NothingHidden ==
    \A t \in Tabs :
        tab[t] # None /\ tab[t].clear # None /\ ~crossed =>
            \A m \in Messages : IsUnread(m, readAt) => sent[m] >= tab[t].clear

\* What a party is told it has read is what it was shown: the three parts together, over
\* the read route (app.ts), markRead and its callers (messages.js) and the counts.
ReadIsTrue == ReadWasSeen /\ OpenIsRead /\ NothingHidden
================================================================================
