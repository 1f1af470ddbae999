----------------------------- MODULE AgentSettings -------------------------------
(* The owner's switches over one agent and what hangs on them: the words of the   *)
(* listing and the listing switch on /agentsettings, the avatar editor on          *)
(* /myagents, and the switches only the owner's software reaches. A page sends     *)
(* what it shows, the route reads the row to know the owner, writes one column     *)
(* and reads the row again for its answer, and any answer may be lost. Beside them *)
(* the agent's own key negotiates and buyers hire, each asking a switch first.     *)
(* A page of somebody else's agent shows no control, and is left out.              *)
EXTENDS Naturals

CONSTANTS Tabs,
          Words,       \* what the listing may say: name, description, skills and floor
          Faces,       \* avatars
          Plain,       \* the avatar an agent's DID gives it
          Calls,       \* the owner's requests under way at a time, bounded
          Askers,      \* requests of others under way at a time, bounded
          MaxRequests, \* requests made at all, bounded
          None

VARIABLES row,         \* the agent row
          view,        \* what each tab shows
          call,        \* the owner's requests
          asker,       \* the others' requests
          asked,       \* how many requests have been made
          behind,      \* history: what changed without a tab being told
          landed       \* history: the other's request that was carried out last

vars == <<row, view, call, asker, asked, behind, landed>>

Columns == {"words", "listed", "avatar", "negotiates"}
Value(column) == CASE column = "words" -> Words
                   [] column = "avatar" -> Faces \cup {None}
                   [] column \in {"listed", "negotiates"} -> BOOLEAN

Closed == [page |-> "closed", shown |-> [column \in {} |-> None], draft |-> None, ready |-> {}]
NoCall == [tab |-> None, column |-> "words", value |-> None, step |-> "idle"]
Nothing == [what |-> "operator", leave |-> FALSE]
NoAsker == [what |-> "operator", step |-> "idle", leave |-> FALSE]
Errands == {"negotiate", "talk", "hire", "operator"}

TypeOK ==
    /\ DOMAIN row = Columns
    /\ \A column \in Columns : row[column] \in Value(column)
    /\ \A t \in Tabs :
          /\ view[t].page \in {"closed", "settings", "roster"}
          /\ view[t].page = "settings" => DOMAIN view[t].shown = {"words", "listed"}
          /\ view[t].page = "roster" => DOMAIN view[t].shown = {"avatar"}
          /\ view[t].ready \subseteq {"save", "reset"}
    /\ call \in [Calls -> [tab : Tabs \cup {None}, column : Columns,
                           value : Words \cup Faces \cup BOOLEAN \cup {None},
                           step : {"idle", "sent", "let in", "written", "answered",
                                   "refused"}]]
    /\ asker \in [Askers -> [what : Errands, step : {"idle", "asked", "let in"},
                             leave : BOOLEAN]]
    /\ behind \subseteq Tabs \X Columns
    /\ asked \in 0..MaxRequests
    /\ landed \in [what : Errands, leave : BOOLEAN]

\* An agent is listed, and does not negotiate, until its owner says otherwise.
Init ==
    /\ \E words \in Words :
           row = [words |-> words, listed |-> TRUE, avatar |-> None, negotiates |-> FALSE]
    /\ view = [t \in Tabs |-> Closed]
    /\ call = [c \in Calls |-> NoCall]
    /\ asker = [a \in Askers |-> NoAsker]
    /\ behind = {}
    /\ landed = Nothing
    /\ asked = 0

--------------------------------------------------------------------------------
(* The pages.                                                                   *)

Resolve(avatar) == IF avatar = None THEN Plain ELSE avatar
Reads(column, value) == IF column = "avatar" THEN Resolve(value) ELSE value

\* sync: Save when the draft is another avatar, Reset unless the default stands.
Ready(draft, saved) ==
    (IF draft = saved THEN {} ELSE {"save"})
    \cup (IF draft = Plain /\ saved = Plain THEN {} ELSE {"reset"})

Settings == [page |-> "settings", draft |-> row["words"], ready |-> {},
             shown |-> [column \in {"words", "listed"} |-> row[column]]]
Roster == [page |-> "roster", draft |-> Resolve(row["avatar"]),
           ready |-> Ready(Resolve(row["avatar"]), Resolve(row["avatar"])),
           shown |-> [column \in {"avatar"} |-> Resolve(row["avatar"])]]

OpenSettings(t) ==
    /\ view[t].page = "closed"
    /\ view' = [view EXCEPT ![t] = Settings]
    /\ UNCHANGED <<row, call, asker, behind, landed, asked>>

OpenRoster(t) ==
    /\ view[t].page = "closed"
    /\ view' = [view EXCEPT ![t] = Roster]
    /\ UNCHANGED <<row, call, asker, behind, landed, asked>>

\* What it had sent may still be carried out.
Leave(t) ==
    /\ view[t].page # "closed"
    /\ view' = [view EXCEPT ![t] = Closed]
    /\ call' = [c \in Calls |-> IF call[c].tab = t THEN [call[c] EXCEPT !.tab = None]
                                ELSE call[c]]
    /\ behind' = behind \ ({t} \X Columns)
    /\ UNCHANGED <<row, asker, landed, asked>>

Counted == asked < MaxRequests /\ asked' = asked + 1

Sending(t, column) == \E c \in Calls : call[c].tab = t /\ call[c].column = column

Send(c, t, column, value) ==
    /\ call[c].step = "idle" /\ Counted
    /\ call' = [call EXCEPT ![c] = [tab |-> t, column |-> column, value |-> value,
                                     step |-> "sent"]]

\* The owner types into the form.
Type(t, words) ==
    /\ view[t].page = "settings" /\ view[t].draft # words
    /\ view' = [view EXCEPT ![t].draft = words]
    /\ UNCHANGED <<row, call, asker, behind, landed, asked>>

\* All four fields as the form has them, one save at a time.
SubmitWords(c, t) ==
    /\ view[t].page = "settings" /\ ~Sending(t, "words")
    /\ Send(c, t, "words", view[t].draft)
    /\ UNCHANGED <<row, view, asker, behind, landed>>

PressListing(c, t) ==
    /\ view[t].page = "settings" /\ ~Sending(t, "listed")
    /\ Send(c, t, "listed", ~view[t].shown["listed"])
    /\ UNCHANGED <<row, view, asker, behind, landed>>

\* choose, which makes Save ready again even while one is under way.
Choose(t, face) ==
    /\ view[t].page = "roster" /\ view[t].draft # face
    /\ view' = [view EXCEPT ![t].draft = face,
                            ![t].ready = Ready(face, view[t].shown["avatar"])]
    /\ UNCHANGED <<row, call, asker, behind, landed, asked>>

\* The editor is closed and opened again.
Reconsider(t) ==
    /\ view[t].page = "roster"
    /\ view' = [view EXCEPT ![t].draft = view[t].shown["avatar"],
                            ![t].ready = Ready(view[t].shown["avatar"], view[t].shown["avatar"])]
    /\ UNCHANGED <<row, call, asker, behind, landed, asked>>

PressAvatar(c, t, button, value) ==
    /\ view[t].page = "roster" /\ button \in view[t].ready
    /\ view' = [view EXCEPT ![t].ready = @ \ {button}]
    /\ Send(c, t, "avatar", value)
    /\ UNCHANGED <<row, asker, behind, landed>>

SaveAvatar(c, t) == PressAvatar(c, t, "save", view[t].draft)
ResetAvatar(c, t) == PressAvatar(c, t, "reset", None)

\* The owner's own software, signing with the owner's key.
OwnerCalls(c, column, value) ==
    /\ value \in Value(column)
    /\ Send(c, None, column, value)
    /\ UNCHANGED <<row, view, asker, behind, landed>>

--------------------------------------------------------------------------------
(* The routes.                                                                  *)

Step(c, step) == call' = [call EXCEPT ![c].step = step]
Over(c) == call' = [call EXCEPT ![c] = NoCall]

\* requireCallerIsAgentOperator: the session still stands, and the row read is the owner's.
LetIn(c) ==
    /\ call[c].step = "sent"
    /\ Step(c, "let in")
    /\ UNCHANGED <<row, view, asker, behind, landed, asked>>

\* A session that has ended, or a storage that fails before the write or at it.
Refuse(c) ==
    /\ call[c].step \in {"sent", "let in"}
    /\ IF call[c].tab = None THEN Over(c) ELSE Step(c, "refused")
    /\ UNCHANGED <<row, view, asker, behind, landed, asked>>

Shows(t, column) == column \in DOMAIN view[t].shown

\* Every other tab is left behind, and so is this one while it has another call under way.
NotTold(c) ==
    {t \in Tabs : /\ Shows(t, call[c].column)
                  /\ \/ t # call[c].tab
                     \/ \E other \in Calls \ {c} :
                           call[other].tab = t /\ call[other].column = call[c].column}

Gated(what) == IF what = "hire" THEN "listed" ELSE "negotiates"

\* The storage's setters write one column each.
WriteColumn(c) ==
    LET column == call[c].column IN
    /\ call[c].step = "let in"
    /\ row' = [row EXCEPT ![column] = call[c].value]
    /\ IF call[c].tab = None THEN Over(c) ELSE Step(c, "written")
    /\ behind' = (behind \ {<<call[c].tab, column>>}) \cup (NotTold(c) \X {column})
    /\ asker' = [a \in Askers |->
                    [asker[a] EXCEPT !.leave =
                        @ \/ (Gated(asker[a].what) = column /\ call[c].value = TRUE)]]
    /\ UNCHANGED <<view, landed, asked>>

EditListing(c) == call[c].column = "words" /\ WriteColumn(c)
SetListed(c) == call[c].column = "listed" /\ WriteColumn(c)
SetAvatar(c) == call[c].column = "avatar" /\ WriteColumn(c)
SetNegotiates(c) == call[c].column = "negotiates" /\ WriteColumn(c)

\* agentWithRotations: the answer is the row as it is by then.
ReRead(c) ==
    /\ call[c].step = "written"
    /\ IF call[c].tab = None THEN Over(c)
       ELSE call' = [call EXCEPT ![c].step = "answered", ![c].value = row[call[c].column]]
    /\ UNCHANGED <<row, view, asker, behind, landed, asked>>

\* The row was written and cannot be read: the page is told 503.
ReReadFails(c) ==
    /\ call[c].step = "written" /\ call[c].tab # None
    /\ Step(c, "refused")
    /\ behind' = behind \cup {<<call[c].tab, call[c].column>>}
    /\ UNCHANGED <<row, view, asker, landed, asked>>

--------------------------------------------------------------------------------
(* The answers.                                                                 *)

\* fill, drawListing and landed: the page shows what the answer holds.
ShowOnlySaved(c) == view[call[c].tab]
Shown(c) ==
    LET v == view[call[c].tab]  value == Reads(call[c].column, call[c].value) IN
    [v EXCEPT !.shown = [v.shown EXCEPT ![call[c].column] = value],
              !.draft = IF call[c].column = "listed" THEN @ ELSE value,
              !.ready = IF call[c].column = "avatar" THEN Ready(value, value) ELSE @]

Answer(c) ==
    /\ call[c].step = "answered"
    /\ IF call[c].tab = None THEN UNCHANGED view
       ELSE view' = [view EXCEPT ![call[c].tab] = Shown(c)]
    /\ Over(c)
    /\ UNCHANGED <<row, asker, behind, landed, asked>>

Undone(c) ==
    LET v == view[call[c].tab] IN
    IF call[c].column # "avatar" THEN v
    ELSE [v EXCEPT !.ready = Ready(v.draft, v.shown["avatar"])]

Refusal(c) ==
    /\ call[c].step = "refused"
    /\ IF call[c].tab = None THEN UNCHANGED view
       ELSE view' = [view EXCEPT ![call[c].tab] = Undone(c)]
    /\ Over(c)
    /\ UNCHANGED <<row, asker, behind, landed, asked>>

\* The page is told that its call did not reach the server; it may have, or may yet.
Lost(c) ==
    /\ call[c].tab # None
    /\ view' = [view EXCEPT ![call[c].tab] = Undone(c)]
    /\ IF call[c].step \in {"sent", "let in", "written"}
       THEN call' = [call EXCEPT ![c].tab = None] ELSE Over(c)
    /\ behind' = IF call[c].step \in {"written", "answered"}
                 THEN behind \cup {<<call[c].tab, call[c].column>>} ELSE behind
    /\ UNCHANGED <<row, asker, landed, asked>>

--------------------------------------------------------------------------------
(* The others.                                                                  *)

\* A request of the agent's own key, of a buyer who hires, or of the owner for the agent.
Ask(a, what) ==
    /\ asker[a].step = "idle" /\ Counted
    /\ asker' = [asker EXCEPT ![a] = [what |-> what, step |-> "asked",
                                       leave |-> row[Gated(what)]]]
    /\ UNCHANGED <<row, view, call, behind, landed>>

\* The row is read before what the request is about is written.
PassesWhen(a, may) ==
    /\ asker[a].step = "asked"
    /\ asker' = [asker EXCEPT ![a] = IF may THEN [@ EXCEPT !.step = "let in"] ELSE NoAsker]
    /\ UNCHANGED <<row, view, call, behind, landed, asked>>

MayAlways(what) == what \in Errands

\* agentMayNegotiate: the agent's own key asks the switch, its owner does not.
MayNegotiate(what) == what = "operator" \/ row["negotiates"]

GateNegotiation(a) ==
    asker[a].what \in {"negotiate", "operator"} /\ PassesWhen(a, MayNegotiate(asker[a].what))
GateThread(a) == asker[a].what = "talk" /\ PassesWhen(a, MayNegotiate("talk"))
GateHire(a) == asker[a].what = "hire" /\ PassesWhen(a, row["listed"])

CarryOut(a) ==
    /\ asker[a].step = "let in"
    /\ landed' = [what |-> asker[a].what, leave |-> asker[a].leave]
    /\ asker' = [asker EXCEPT ![a] = NoAsker]
    /\ UNCHANGED <<row, view, call, behind, asked>>

Next ==
    \/ \E t \in Tabs : OpenSettings(t) \/ OpenRoster(t) \/ Leave(t) \/ Reconsider(t)
    \/ \E t \in Tabs, words \in Words : Type(t, words)
    \/ \E t \in Tabs, face \in Faces : Choose(t, face)
    \/ \E c \in Calls, t \in Tabs :
           SubmitWords(c, t) \/ PressListing(c, t) \/ SaveAvatar(c, t) \/ ResetAvatar(c, t)
    \/ \E c \in Calls, column \in Columns : \E value \in Value(column) :
           OwnerCalls(c, column, value)
    \/ \E c \in Calls :
           \/ LetIn(c) \/ Refuse(c) \/ ReRead(c) \/ ReReadFails(c)
           \/ EditListing(c) \/ SetListed(c) \/ SetAvatar(c) \/ SetNegotiates(c)
           \/ Answer(c) \/ Refusal(c) \/ Lost(c)
    \/ \E a \in Askers :
           \/ \E what \in Errands : Ask(a, what)
           \/ GateNegotiation(a) \/ GateThread(a) \/ GateHire(a) \/ CarryOut(a)

Spec == Init /\ [][Next]_vars

--------------------------------------------------------------------------------
(* Properties.                                                                  *)

\* A page at rest shows what the row holds, whatever it sent, saw refused or had answered,
\* unless the row changed without its being told: by another tab or the owner's software,
\* by a call of which it lost the answer, or by two avatars it sent at once
\* (agentsettings.js, myagents.js: "It shows everywhere now").
PagesShowTheRow ==
    \A t \in Tabs : \A column \in DOMAIN view[t].shown :
        ~Sending(t, column) /\ <<t, column>> \notin behind =>
            view[t].shown[column] = Reads(column, row[column])

\* An agent's own key negotiates, and a buyer hires it, only when its owner allowed that
\* while the request was under way: a request begun after the switch went off does nothing
\* (requireNegotiationAllowed, requireThreadAccess, POST /jobs).
OthersActWithLeave == landed.what # "operator" => landed.leave

OwnersWordHolds == PagesShowTheRow /\ OthersActWithLeave
================================================================================
