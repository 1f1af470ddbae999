----------------------------- MODULE Conversation ------------------------------
(* One hire's conversation: the stored messages, the server's live streams and    *)
(* the pages one reader has open on it. The other party writes and edits; the     *)
(* reader reacts. A change of a stored message is read, changed and written back  *)
(* whole, and what was written is sent to the streams in a step after it. A page  *)
(* loads the list, then asks for the stream; when there is none it polls. A       *)
(* stream takes a place of the caller's, under a cap for the conversation and one *)
(* for everything the caller has open.                                            *)
(*                                                                              *)
(* The events of one stream arrive in order; answers to a page's own requests and *)
(* its stream are separate connections. A connection may die at any time, and so  *)
(* may the server's process, with every stream and place in it.                   *)
EXTENDS Integers, Sequences, FiniteSets
LOCAL INSTANCE SequencesExt

CONSTANTS Messages, Pages,
          TargetCap,      \* STREAM_LIMIT_PER_TARGET
          CallerCap,      \* STREAM_LIMIT_PER_CALLER
          MaxConnections, \* bound: the requests for a stream of one behaviour
          MaxChanges,     \* bound: its edits and reactions
          None

ASSUME ConversationAssumption ==
    /\ MaxConnections \in Nat
    /\ TargetCap \in Nat \ {0} /\ CallerCap \in Nat \ {0} /\ MaxChanges \in Nat

VARIABLES writable,    \* the hire has not ended
          rows,        \* the stored messages, None where there is none
          reading,     \* the changes that have read their row and not written it
          untold,      \* what was written and not yet broadcast, in the order written
          answers,     \* per page, the answers to its reactions that are on their way
          conns,       \* the requests for a stream, and the events on their way
          places,      \* the places held, per target and in all
          page,        \* per page: how it is kept current, what it shows
          polled,      \* per page, the list a poll has been answered
          changes,     \* bound: the changes begun
          wanted,      \* history: each field as its own last change left it
          overlapped,  \* history: the messages two changes of which overlapped
          overtaken,   \* history: the messages of which a later row was broadcast first
          missed,      \* history: per page, broadcast between its list and its stream
          crossed      \* history: per page, set by an answer with no event to follow

vars == <<writable, rows, reading, untold, answers, conns, places, page, polled, changes,
          wanted, overlapped, overtaken, missed, crossed>>

stored == <<rows, wanted>>
changing == <<reading, changes, overlapped>>
telling == <<untold, overtaken>>
streaming == <<conns, places>>
paging == <<page, polled, answers, missed, crossed>>

\* Named in the order they are made.
Connections == 1..MaxConnections
Targets == {"thread", "notifications"}
MessageRows == [edited : BOOLEAN, reaction : BOOLEAN]
Posted == [edited |-> FALSE, reaction |-> FALSE]
NothingShown == [m \in Messages |-> None]
Fresh == [phase |-> "none", target |-> None, dead |-> FALSE, closing |-> FALSE, events |-> <<>>]
Gone == [Fresh EXCEPT !.phase = "gone"]

Changes == [message : Messages, by : Pages \cup {None}, to : BOOLEAN, copy : MessageRows]
Written == [message : Messages, row : MessageRows]

TypeOK ==
    /\ writable \in BOOLEAN
    /\ \A m \in Messages : rows[m] # None => rows[m] \in MessageRows
    /\ reading \in Seq(Changes)
    /\ \A i \in DOMAIN untold : untold[i] \in [message : Messages, by : Pages \cup {None}, row : MessageRows]
    /\ \A p \in Pages :
           /\ answers[p] \in Seq(Written)
           /\ page[p].mode \in {"closed", "loading", "live", "poll"}
           /\ page[p].conn \in Connections \cup {None}
           /\ \A m \in Messages : page[p].shown[m] # None => page[p].shown[m] \in MessageRows
           /\ missed[p] \subseteq Messages /\ crossed[p] \subseteq Messages
    /\ \A c \in Connections : conns[c].phase \in {"none", "checks", "open", "gone"}
    /\ places \in [Targets \cup {"all"} -> Nat]
    /\ overlapped \subseteq Messages /\ overtaken \subseteq Messages

Init ==
    /\ writable = TRUE
    /\ rows = [m \in Messages |-> None]
    /\ reading = <<>>
    /\ untold = <<>>
    /\ answers = [p \in Pages |-> <<>>]
    /\ conns = [c \in Connections |-> Fresh]
    /\ places = [t \in Targets \cup {"all"} |-> 0]
    /\ page = [p \in Pages |-> [mode |-> "closed", conn |-> None, visible |-> TRUE,
                                shown |-> NothingShown]]
    /\ polled = [p \in Pages |-> None]
    /\ changes = 0
    /\ wanted = [m \in Messages |-> Posted]
    /\ overlapped = {} /\ overtaken = {}
    /\ missed = [p \in Pages |-> {}]
    /\ crossed = [p \in Pages |-> {}]

--------------------------------------------------------------------------------
(* The server's side of a change: a row is stored, and then broadcastThreadEvent.  *)

Stored(m) == rows[m] # None
Open(c) == conns[c].phase = "open"

\* Every subscriber of the thread gets the row as the request wrote it.
Broadcast(m, row) ==
    [c \in Connections |->
        IF Open(c) /\ conns[c].target = "thread"
        THEN [conns[c] EXCEPT !.events = Append(@, [message |-> m, row |-> row])]
        ELSE conns[c]]

\* The page hears of what happens from now on.
Subscribed(p) == page[p].conn # None /\ Open(page[p].conn)

\* What is broadcast between a page's list and its stream is sent to nobody there.
Missing(m, row) ==
    [p \in Pages |->
        IF page[p].mode = "live" /\ ~Subscribed(p) /\ page[p].shown[m] # row
        THEN missed[p] \cup {m} ELSE missed[p]]

Untold(m) == {i \in DOMAIN untold : untold[i].message = m}

\* A row is stored and awaits its broadcast. What goes before it has all been sent, so
\* that no earlier row of the message can still follow it.
StoreRow(m, row, by) ==
    /\ rows' = [rows EXCEPT ![m] = row]
    /\ untold' = Append(untold, [message |-> m, by |-> by, row |-> row])
    /\ overtaken' = IF Untold(m) = {} THEN overtaken \ {m} ELSE overtaken

\* POST /jobs/:jobId/messages, and the platform's own lines, on an ended hire too.
Post(m) ==
    /\ ~Stored(m)
    /\ StoreRow(m, Posted, None)
    /\ UNCHANGED <<writable, changing, streaming, paging, wanted>>

\* The broadcast of what a request wrote, in whatever order the requests get to it. A
\* reaction is answered in the same step, each at its own pace from here on.
Tell(i) ==
    LET m == untold[i].message
        row == untold[i].row
        by == untold[i].by
    IN  /\ untold' = RemoveAt(untold, i)
        /\ overtaken' = IF \E j \in Untold(m) : j < i THEN overtaken \cup {m} ELSE overtaken
        /\ conns' = Broadcast(m, row)
        /\ missed' = Missing(m, row)
        /\ answers' = IF by = None THEN answers
                      ELSE [answers EXCEPT ![by] = Append(@, [message |-> m, row |-> row])]
        /\ UNCHANGED <<writable, stored, changing, places, page, polled, crossed>>

InFlight(m) == \E i \in DOMAIN reading : reading[i].message = m

\* A change reads its row ...
Reads(m, by, to) ==
    /\ writable /\ Stored(m) /\ changes < MaxChanges
    /\ changes' = changes + 1
    /\ overlapped' = IF InFlight(m) THEN overlapped \cup {m} ELSE overlapped
    /\ reading' = Append(reading, [message |-> m, by |-> by, to |-> to, copy |-> rows[m]])
    /\ UNCHANGED <<writable, stored, telling, streaming, paging>>

\* PATCH /jobs/:jobId/messages/:messageId.
ReadToEdit(m) == Reads(m, None, TRUE)

\* The reader's reaction, set or taken back, from one of its pages: as many at once as it
\* presses. The page of a hire that has ended offers none.
ReadToReact(p, m, to) ==
    /\ page[p].mode \in {"live", "poll"} /\ page[p].shown[m] # None
    /\ Reads(m, p, to)

\* ... changes its own field of the copy ...
ChangedAfresh(change) ==
    IF change.by = None THEN [Posted EXCEPT !.edited = TRUE]
                        ELSE [Posted EXCEPT !.reaction = change.to]
Changed(change) ==
    IF change.by = None THEN [change.copy EXCEPT !.edited = TRUE]
                        ELSE [change.copy EXCEPT !.reaction = change.to]

\* ... and writes it back whole: messageRepo.update.
WriteChange(i) ==
    LET change == reading[i]
        m == change.message
    IN  /\ StoreRow(m, Changed(change), change.by)
        /\ wanted' = [wanted EXCEPT ![m] = IF change.by = None THEN [@ EXCEPT !.edited = TRUE]
                                           ELSE [@ EXCEPT !.reaction = change.to]]
        /\ reading' = RemoveAt(reading, i)
        /\ UNCHANGED <<writable, changes, overlapped, streaming, paging>>

\* The write fails, and the change is answered as not saved.
WriteFails(i) ==
    /\ reading' = RemoveAt(reading, i)
    /\ UNCHANGED <<writable, stored, telling, changes, overlapped, streaming, paging>>

HireEnds ==
    /\ writable
    /\ writable' = FALSE
    /\ UNCHANGED <<stored, changing, telling, streaming, paging>>

--------------------------------------------------------------------------------
(* Streams and their places: createStreamCaps, holdUntilClosed.                  *)

Took(t) == [places EXCEPT ![t] = @ + 1, !["all"] = @ + 1]
Gave(t) == [places EXCEPT ![t] = @ - 1, !["all"] = @ - 1]

Refused(t) == places[t] >= TargetCap \/ places["all"] >= CallerCap

AcquireUnasked(c) ==
    /\ conns[c].phase = "checks"
    /\ IF Refused(conns[c].target)
       THEN conns' = [conns EXCEPT ![c] = Gone] /\ UNCHANGED places
       ELSE conns' = [conns EXCEPT ![c].phase = "open"] /\ places' = Took(conns[c].target)
    /\ UNCHANGED <<writable, stored, changing, telling, paging>>

\* The route's checks are over: a place, unless a cap refuses or the client has left.
Acquire(c) ==
    /\ conns[c].phase = "checks"
    /\ \/ /\ Refused(conns[c].target)
          /\ conns' = [conns EXCEPT ![c] = Gone]
          /\ UNCHANGED places
       \/ /\ ~Refused(conns[c].target) /\ ~conns[c].dead
          /\ conns' = [conns EXCEPT ![c].phase = "open"]
          /\ places' = Took(conns[c].target)
       \/ /\ ~Refused(conns[c].target) /\ conns[c].dead
          /\ conns' = [conns EXCEPT ![c] = Gone]
          /\ UNCHANGED places          \* taken, and given back at once
    /\ UNCHANGED <<writable, stored, changing, telling, paging>>

\* A socket dies; only on an open stream is a listener there to hear it.
Dead(c) == [conns[c] EXCEPT !.dead = TRUE, !.closing = Open(c), !.events = <<>>]

Die(c) ==
    /\ conns[c].phase \in {"checks", "open"} /\ ~conns[c].dead
    /\ conns' = [conns EXCEPT ![c] = Dead(c)]
    /\ UNCHANGED <<writable, stored, changing, telling, places, paging>>

\* The close event reaches the server.
Closed(c) ==
    /\ conns[c].closing
    /\ conns' = [conns EXCEPT ![c] = Gone]
    /\ places' = Gave(conns[c].target)
    /\ UNCHANGED <<writable, stored, changing, telling, paging>>

IsNext(c) == \A d \in Connections : conns[d].phase = "none" <=> d >= c

Asks(c, t) == [conns EXCEPT ![c].phase = "checks", ![c].target = t]

\* GET /accounts/:did/notifications/stream, from any page of the account.
AskNotifications(c) ==
    /\ IsNext(c)
    /\ conns' = Asks(c, "notifications")
    /\ UNCHANGED <<writable, stored, changing, telling, places, paging>>

--------------------------------------------------------------------------------
(* The page: messages.js.                                                       *)

OpenThread(p) ==
    /\ page[p].mode = "closed"
    /\ page' = [page EXCEPT ![p].mode = "loading"]
    /\ UNCHANGED <<writable, stored, changing, telling, streaming, polled, answers, missed, crossed>>

\* The list is answered, drawn, and the stream asked for: setMessages, startLive. An
\* answer to a reaction of the same thread's earlier opening may still be on its way.
LoadThread(p, c) ==
    /\ page[p].mode = "loading" /\ IsNext(c)
    /\ page' = [page EXCEPT ![p].mode = "live", ![p].conn = c, ![p].shown = rows]
    /\ conns' = Asks(c, "thread")
    /\ missed' = [missed EXCEPT ![p] = {}]
    /\ UNCHANGED <<writable, stored, changing, telling, places, polled, answers, crossed>>

UpsertNew(p, m, row) ==
    page' = [page EXCEPT ![p].shown[m] = IF @ = None THEN row ELSE @]

\* upsert: whatever arrives replaces what is shown.
Upsert(p, m, row) == page' = [page EXCEPT ![p].shown[m] = row]

\* The last that is shown of a message is an event of the stream again.
Receive(p) ==
    /\ page[p].mode = "live" /\ Subscribed(p)
    /\ LET c == page[p].conn
           event == Head(conns[c].events)
       IN  /\ conns[c].events # <<>>
           /\ Upsert(p, event.message, event.row)
           /\ conns' = [conns EXCEPT ![c].events = Tail(@)]
           /\ missed' = [missed EXCEPT ![p] = @ \ {event.message}]
           /\ crossed' = [crossed EXCEPT ![p] = @ \ {event.message}]
    /\ UNCHANGED <<writable, stored, changing, telling, places, polled, answers>>

\* An event of the message that is still on its way will have the last word.
ToFollow(p, m) ==
    page[p].conn # None /\ \E i \in DOMAIN conns[page[p].conn].events :
                              conns[page[p].conn].events[i].message = m

\* Answers come back in any order, and whatever they hold replaces what is shown.
ReceiveAnswer(p) ==
    \E i \in DOMAIN answers[p] :
        LET m == answers[p][i].message
            row == answers[p][i].row
        IN  /\ answers' = [answers EXCEPT ![p] = RemoveAt(@, i)]
            /\ IF page[p].mode \in {"live", "poll"} THEN Upsert(p, m, row) ELSE UNCHANGED page
            /\ crossed' = IF page[p].mode = "live" /\ page[p].shown[m] # row /\ ~ToFollow(p, m)
                          THEN [crossed EXCEPT ![p] = @ \cup {m}] ELSE crossed
            /\ UNCHANGED <<writable, stored, changing, telling, streaming, polled, missed>>

Lost(p) == conns[page[p].conn] = Gone \/ conns[page[p].conn].dead

StreamEndsUnnoticed(p) ==
    /\ page[p].mode = "live" /\ page[p].conn # None /\ Lost(p)
    /\ page' = [page EXCEPT ![p].conn = None]
    /\ UNCHANGED <<writable, stored, changing, telling, streaming, polled, answers, missed, crossed>>

\* A stream refused, ended or broken: startPolling.
StreamEnds(p) ==
    /\ page[p].mode = "live" /\ page[p].conn # None /\ Lost(p)
    /\ page' = [page EXCEPT ![p].mode = "poll", ![p].conn = None]
    /\ missed' = [missed EXCEPT ![p] = {}]
    /\ crossed' = [crossed EXCEPT ![p] = {}]
    /\ UNCHANGED <<writable, stored, changing, telling, streaming, polled, answers>>

\* refresh, from the interval or because the page is looked at again.
Poll(p) ==
    /\ page[p].mode = "poll" /\ page[p].visible /\ polled[p] = None
    /\ polled' = [polled EXCEPT ![p] = rows]
    /\ UNCHANGED <<writable, stored, changing, telling, streaming, page, answers, missed, crossed>>

ReceivePoll(p) ==
    /\ polled[p] # None
    /\ page' = [page EXCEPT ![p].shown =
                   [m \in Messages |-> IF polled[p][m] # None THEN polled[p][m] ELSE @[m]]]
    /\ polled' = [polled EXCEPT ![p] = None]
    /\ UNCHANGED <<writable, stored, changing, telling, streaming, answers, missed, crossed>>

Visibility(p) ==
    /\ page' = [page EXCEPT ![p].visible = ~@]
    /\ UNCHANGED <<writable, stored, changing, telling, streaming, polled, answers, missed, crossed>>

\* closeThread: the generation moves on, the stream is cut, what is on its way is dropped.
CloseThread(p) ==
    /\ page[p].mode # "closed"
    /\ page' = [page EXCEPT ![p] = [@ EXCEPT !.mode = "closed", !.conn = None, !.shown = NothingShown]]
    /\ polled' = [polled EXCEPT ![p] = None]
    /\ conns' = IF page[p].conn # None /\ conns[page[p].conn].phase \in {"checks", "open"}
                THEN [conns EXCEPT ![page[p].conn] = Dead(page[p].conn)] ELSE conns
    /\ missed' = [missed EXCEPT ![p] = {}]
    /\ crossed' = [crossed EXCEPT ![p] = {}]
    /\ UNCHANGED <<writable, stored, changing, telling, places, answers>>

--------------------------------------------------------------------------------

\* The server's process dies: its requests, its streams and its count of places.
Crash ==
    /\ reading' = <<>>
    /\ untold' = <<>>
    /\ overtaken' = {}
    /\ conns' = [c \in Connections |->
                    IF conns[c].phase \in {"checks", "open"} THEN Gone ELSE conns[c]]
    /\ places' = [t \in Targets \cup {"all"} |-> 0]
    /\ UNCHANGED <<writable, stored, changes, overlapped, paging>>

PageStep(p) ==
    \/ OpenThread(p)
    \/ \E c \in Connections : LoadThread(p, c)
    \/ Receive(p)
    \/ ReceiveAnswer(p)
    \/ StreamEnds(p)
    \/ Poll(p)
    \/ ReceivePoll(p)
    \/ Visibility(p)
    \/ CloseThread(p)
    \/ \E m \in Messages, to \in BOOLEAN : ReadToReact(p, m, to)

Next ==
    \/ \E m \in Messages : Post(m) \/ ReadToEdit(m)
    \/ \E i \in DOMAIN reading : WriteChange(i) \/ WriteFails(i)
    \/ \E i \in DOMAIN untold : Tell(i)
    \/ HireEnds
    \/ \E c \in Connections : Acquire(c) \/ Die(c) \/ Closed(c) \/ AskNotifications(c)
    \/ \E p \in Pages : PageStep(p)
    \/ Crash

\* The interval fires, what was answered arrives, and a broken stream is noticed.
Fairness ==
    \A p \in Pages :
        WF_vars(Poll(p)) /\ WF_vars(ReceivePoll(p)) /\ WF_vars(ReceiveAnswer(p)) /\ WF_vars(StreamEnds(p))

Spec == Init /\ [][Next]_vars /\ Fairness

--------------------------------------------------------------------------------
(* Properties.                                                                  *)

\* What each party last did to a message is what is stored, whatever it did to the other
\* field in between: a whole-row write loses nothing unless two changes of one message
\* overlapped (the PATCH and reactions routes, messageRepo.update).
ChangesStand ==
    \A m \in Messages : Stored(m) /\ m \notin overlapped => rows[m] = wanted[m]

\* A live page that has received all that was sent to it shows every message as it is
\* stored, save while a write of it is still to be broadcast, and what the code leaves it
\* behind on until the message's next event: two writes broadcast in the other order than
\* they were stored, a broadcast between the page's list and its stream, and an answer to a
\* change of its own that came back after the events that followed it (messages.js onLive,
\* upsert; broadcastThreadEvent after messageRepo.create and update).
LivePageIsCurrent ==
    \A p \in Pages :
        /\ page[p].mode = "live" /\ Subscribed(p) /\ ~conns[page[p].conn].dead
        /\ conns[page[p].conn].events = <<>> /\ answers[p] = <<>>
        => \A m \in Messages :
               page[p].shown[m] = rows[m] \/ Untold(m) # {} \/ m \in overtaken \cup missed[p] \cup crossed[p]

\* A place is held by a connection whose end is still to be heard, so that every place
\* comes back, and neither cap is ever passed (createStreamCaps, holdUntilClosed).
PlacesComeBack ==
    LET Holding(t) == {c \in Connections : /\ Open(c) /\ conns[c].target = t
                                           /\ conns[c].dead => conns[c].closing}
    IN  /\ \A t \in Targets : places[t] = Cardinality(Holding(t)) /\ places[t] <= TargetCap
        /\ places["all"] = Cardinality(Holding("thread")) + Cardinality(Holding("notifications"))
        /\ places["all"] <= CallerCap

\* A page that stays open and looked at, whose stream is refused, cut or lost, comes to
\* show every message as it is stored (messages.js startPolling, refresh).
LostStreamIsMadeUp ==
    \A p \in Pages :
        (page[p].mode = "live" /\ page[p].conn # None /\ Lost(p))
        ~> (page[p].shown = rows \/ page[p].mode = "closed" \/ ~page[p].visible)
================================================================================
