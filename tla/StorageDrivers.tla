---------------------------- MODULE StorageDrivers ------------------------------
(* The two drivers behind the repository interfaces: Maps in the memory of one   *)
(* process (memory.ts and its siblings), and Prisma over PostgreSQL, where each  *)
(* statement is atomic and a method may take several. DATABASE_URL picks one     *)
(* when the process starts.                                                      *)
EXTENDS StorageCalls

VARIABLES pc,          \* per caller: idle, asked, looked, written, reread, answering
          looked       \* per caller: what its first statement read

vars == <<driver, repo, rows, call, ans, made, restarted, pc, looked>>

Contract == INSTANCE StorageContract WITH stage <- [c \in Callers |->
    CASE pc[c] = "idle" -> "idle" [] pc[c] \in {"asked", "looked"} -> "asked" [] OTHER -> "done"]

Init ==
    /\ driver \in {"memory", "prisma"}
    /\ repo \in Repos
    /\ rows = NoRows
    /\ call = [c \in Callers |-> None]
    /\ ans = [c \in Callers |-> NoAnswer]
    /\ made = 0
    /\ restarted = FALSE
    /\ pc = [c \in Callers |-> "idle"]
    /\ looked = [c \in Callers |-> None]

Op(c, op) == call[c].op = op
Found(c) == Stored(c) # None
Missing(c) == Say(c, Answer("none", None, {}))
Exists(c) == Say(c, Answer("exists", None, {}))
Throws(c) == Say(c, Answer("fault", None, {}))
Read(c, r) == Say(c, Answer("ok", r, {}))
Listed(c, ids) == Say(c, Answer("ok", None, ids))
Drop(c, when) ==
    /\ rows' = IF when THEN [rows EXCEPT ![call[c].key] = None] ELSE rows
    /\ ans' = [ans EXCEPT ![c] = Answer("ok", None, {})]
Insert(c) == IF Found(c) THEN Exists(c) ELSE Store(c, call[c].row)
Overwrite(c) == IF Found(c) THEN Store(c, Rewritten(Stored(c), call[c].row)) ELSE Missing(c)

--------------------------------------------------------------------------------
(* memory.ts.                                                                   *)

\* One scan per unique column; an empty column collides with nothing.
MemClaimed(c, r) ==
    \E k \in Ids \ {call[c].key} : /\ rows[k] # None
                                   /\ \/ r.github # None /\ rows[k].github = r.github
                                      \/ r.passkey # None /\ rows[k].passkey = r.passkey

MemAccounts(c) ==
    LET q == call[c]  r == Stored(c)
    IN  \/ /\ Op(c, "register")
           /\ IF Found(c) \/ MemClaimed(c, q.row) THEN Exists(c) ELSE Store(c, q.row)
        \/ /\ Op(c, "promote")
           /\ IF ~Found(c) THEN Missing(c)
              ELSE IF r.github # None \/ r.unproved = None THEN Missing(c)
              ELSE IF Folded[r.unproved] # Folded[q.val] THEN Missing(c)
              ELSE IF \E k \in Ids \ {q.key} : rows[k] # None /\ rows[k].github = q.val THEN Exists(c)
              ELSE Store(c, [r EXCEPT !.github = q.val, !.unproved = None])
        \/ Op(c, "set") /\ Overwrite(c)
        \/ Op(c, "find") /\ Read(c, r)
        \/ Op(c, "findByLogin") /\ Listed(c, {k \in Present : q.val # None /\ rows[k].github = q.val})

MemAgents(c) ==
    \/ Op(c, "create") /\ Insert(c)
    \/ Op(c, "set") /\ Overwrite(c)
    \/ Op(c, "rotate") /\ IF Found(c) THEN Store(c, [Stored(c) EXCEPT !.rotations = Append(@, call[c].val)])
                                       ELSE Missing(c)
    \/ Op(c, "find") /\ Read(c, Stored(c))
    \/ Op(c, "list") /\ Listed(c, Present)

\* The whole row is the argument, its merge included.
MemJobs(c) ==
    \/ Op(c, "create") /\ Insert(c)
    \/ (Op(c, "update") \/ Op(c, "complete")) /\ IF Found(c) THEN Store(c, call[c].row) ELSE Missing(c)
    \/ Op(c, "find") /\ Read(c, Stored(c))
    \/ Op(c, "completed") /\ Listed(c, {k \in Present : rows[k].merge # None})

MemCredentials(c) ==
    \/ Op(c, "create") /\ Insert(c)
    \/ Op(c, "find") /\ Read(c, Stored(c))
    \/ Op(c, "list") /\ Listed(c, {k \in Present : rows[k].subject = call[c].val})

MemReviews(c) ==
    \/ Op(c, "create") /\ Insert(c)
    \/ Op(c, "find") /\ Read(c, Stored(c))
    \/ Op(c, "list") /\ Listed(c, {k \in Present : rows[k].subject = call[c].val})

MemHistories(c) ==
    \/ Op(c, "append") /\ Store(c, Append(Stored(c), call[c].val))
    \/ Op(c, "find") /\ Read(c, Stored(c))

\* Observed keys, settlements and read receipts: set, never merged.
MemUpserts(c) ==
    \/ Op(c, "put") /\ Store(c, call[c].row)
    \/ Op(c, "find") /\ Read(c, Stored(c))

MemMessages(c) ==
    \/ Op(c, "mint") /\ Store(c, call[c].row)
    \/ Op(c, "update") /\ IF Found(c) THEN Store(c, call[c].row) ELSE Missing(c)
    \/ Op(c, "find") /\ Read(c, Stored(c))
    \/ Op(c, "list") /\ Listed(c, Present)

MemNotices(c) ==
    LET r == Stored(c)  q == call[c]
    IN  \/ Op(c, "mint") /\ Store(c, q.row)
        \/ /\ Op(c, "markRead")
           /\ IF ~Found(c) THEN Missing(c) ELSE IF r.account # q.row.account THEN Missing(c)
              ELSE Store(c, [r EXCEPT !.readAt = IF @ = None THEN q.row.readAt ELSE @])
        \/ Op(c, "list") /\ Listed(c, {k \in Present : rows[k].account = q.val})

MemUploads(c) ==
    LET q == call[c]
    IN  \/ Op(c, "mint") /\ Store(c, q.row)
        \/ Op(c, "find") /\ Read(c, Stored(c))
        \/ Op(c, "sent") /\ IF Found(c) THEN Store(c, [Stored(c) EXCEPT !.message = q.val]) ELSE Read(c, None)
        \/ Op(c, "unsent") /\ Listed(c, {k \in Present : rows[k].uploader = q.val /\ rows[k].message = None})
        \/ Op(c, "remove") /\ Drop(c, TRUE)

MemPush(c) ==
    \/ Op(c, "put") /\ Store(c, call[c].row)
    \/ Op(c, "find") /\ Read(c, Stored(c))
    \/ Op(c, "list") /\ Listed(c, {k \in Present : rows[k].account = call[c].val})
    \/ /\ Op(c, "unsubscribe")
       /\ Drop(c, IF Found(c) THEN Stored(c).account = call[c].val ELSE FALSE)

MemPasskeys(c) ==
    \/ Op(c, "create") /\ Insert(c)
    \/ Op(c, "find") /\ Read(c, Stored(c))
    \/ Op(c, "set") /\ IF Found(c) THEN Overwrite(c) ELSE Throws(c)

MemSessions(c) ==
    LET q == call[c]  r == IF Found(c) THEN Stored(c) ELSE [status |-> "created", did |-> None, step |-> None]
    IN  \/ Op(c, "mint") /\ Store(c, q.row)
        \/ Op(c, "merge") /\ Store(c, Rewritten(r, q.row))
        \/ Op(c, "find") /\ Read(c, Stored(c))
        \/ Op(c, "remove") /\ Drop(c, TRUE)
        \/ Op(c, "exist") /\ Listed(c, {k \in Present : k = q.key /\ rows[k].did = q.val})

MemShorts(c) ==
    \/ Op(c, "put") /\ Store(c, call[c].row)
    \/ Op(c, "find") /\ Read(c, Stored(c))
    \/ Op(c, "list") /\ Listed(c, {k \in Present : rows[k].content = call[c].val})

MemLocks(c) ==
    \/ Op(c, "mint") /\ Store(c, call[c].row)
    \/ Op(c, "find") /\ Read(c, Stored(c))

MemSpends(c) ==
    \/ Op(c, "find") /\ Read(c, Stored(c))
    \/ Op(c, "put") /\ Store(c, call[c].row)

MemMethod(c) ==
    CASE repo = "accounts" -> MemAccounts(c)       [] repo = "agents" -> MemAgents(c)
      [] repo = "jobs" -> MemJobs(c)               [] repo = "credentials" -> MemCredentials(c)
      [] repo = "reviews" -> MemReviews(c)         [] repo \in Histories -> MemHistories(c)
      [] repo = "messages" -> MemMessages(c)       [] repo = "notices" -> MemNotices(c)
      [] repo = "uploads" -> MemUploads(c)         [] repo = "push" -> MemPush(c)
      [] repo = "passkeys" -> MemPasskeys(c)       [] repo = "sessions" -> MemSessions(c)
      [] repo = "shorts" -> MemShorts(c)           [] repo = "locks" -> MemLocks(c)
      [] repo = "spends" -> MemSpends(c)           [] OTHER -> MemUpserts(c)

--------------------------------------------------------------------------------
(* prisma.ts.                                                                   *)

\* For the mutants: a schema whose logins are not unique.
PasskeyViolates(c, r, columns) ==
    \E k \in Ids \ {call[c].key} : rows[k] # None /\ r.passkey # None /\ rows[k].passkey = r.passkey
\* What a unique index of the schema refuses (P2002); NULL differs from NULL.
Violates(c, r, columns) ==
    \E k \in Ids \ {call[c].key} : rows[k] # None /\ \E col \in columns : r[col] # None /\ rows[k][col] = r[col]

PgAccounts(c) ==
    LET q == call[c]  r == Stored(c)
        \* the where clause of the one updateMany
        matches == Found(c) /\ r.github = None /\ r.unproved # None /\ Folded[r.unproved] = Folded[q.val]
        promoted == [r EXCEPT !.github = q.val, !.unproved = None]
    IN  \/ /\ Op(c, "register")
           /\ IF Found(c) \/ Violates(c, q.row, {"github", "passkey"}) THEN Exists(c) ELSE Store(c, q.row)
        \/ /\ Op(c, "promote")
           /\ IF ~matches THEN Missing(c)
              ELSE IF Violates(c, promoted, {"github"}) THEN Throws(c) ELSE Store(c, promoted)
        \/ Op(c, "set") /\ Overwrite(c)
        \/ Op(c, "find") /\ Read(c, r)
        \/ Op(c, "findByLogin") /\ Listed(c, {k \in Present : q.val # None /\ rows[k].github = q.val})

PgAgentCreate(c) == Op(c, "create") /\ Insert(c)
PgAgentSet(c) == Op(c, "set") /\ Overwrite(c)
\* For the mutants: the rotations read first, written back with one more.
PgRotateCopy(c) ==
    Op(c, "rotate") /\ Store(c, [Stored(c) EXCEPT !.rotations = Append(looked[c].rotations, call[c].val)])
\* Written once the agent was found, in a table of its own.
PgAgentRotate(c) == Op(c, "rotate") /\ Store(c, [Stored(c) EXCEPT !.rotations = Append(@, call[c].val)])
\* The agent is read, then its rotations.
PgAgentRead(c) == \/ Op(c, "find") /\ Read(c, [looked[c] EXCEPT !.rotations = Stored(c).rotations])
                  \/ Op(c, "list") /\ Listed(c, Present)
PgAgents(c) == PgAgentCreate(c) \/ PgAgentSet(c) \/ PgAgentRotate(c) \/ PgAgentRead(c)

WriteColumns(c, columns) ==
    IF Found(c) THEN Store(c, Rewritten(Stored(c), [col \in columns |-> call[c].row[col]])) ELSE Missing(c)

PgJobCreate(c) == Op(c, "create") /\ Insert(c)
\* The columns of the merge are left out: a copy older than the completion keeps it.
PgJobUpdate(c) == Op(c, "update") /\ WriteColumns(c, {"terms"})
PgJobComplete(c) == Op(c, "complete") /\ WriteColumns(c, {"terms", "merge"})
PgJobRead(c) == \/ Op(c, "find") /\ Read(c, Stored(c))
                \/ Op(c, "completed") /\ Listed(c, {k \in Present : rows[k].merge # None})
PgJobs(c) == PgJobCreate(c) \/ PgJobUpdate(c) \/ PgJobComplete(c) \/ PgJobRead(c)

PgCredentials(c) ==
    \/ Op(c, "create") /\ Insert(c)
    \/ Op(c, "find") /\ Read(c, Stored(c))
    \/ Op(c, "list") /\ Listed(c, {k \in Present : rows[k].subject = call[c].val})

PgReviews(c) ==
    \/ Op(c, "create") /\ Insert(c)
    \/ Op(c, "find") /\ Read(c, Stored(c))
    \/ Op(c, "list") /\ Listed(c, {k \in Present : rows[k].subject = call[c].val})

PgReports(c) ==
    \/ Op(c, "append") /\ Store(c, Append(Stored(c), call[c].val))
    \/ Op(c, "find") /\ Read(c, Stored(c))

\* The sequence is one more than the rows counted; the pair (job, sequence) is unique.
PgAttestations(c) ==
    \/ /\ Op(c, "append")
       /\ IF looked[c] + 1 \in DOMAIN Stored(c) THEN Say(c, Answer("raced", None, {}))
          ELSE Store(c, Append(Stored(c), call[c].val))
    \/ Op(c, "find") /\ Read(c, Stored(c))

PgUpserts(c) ==
    \/ Op(c, "put") /\ Store(c, call[c].row)
    \/ Op(c, "find") /\ Read(c, Stored(c))

\* The author, the job and the instant of a message are not among what an update writes.
PgMessages(c) ==
    \/ Op(c, "mint") /\ Store(c, call[c].row)
    \/ Op(c, "update") /\ IF Found(c) THEN Store(c, [Stored(c) EXCEPT !.body = call[c].row.body]) ELSE Missing(c)
    \/ Op(c, "find") /\ Read(c, Stored(c))
    \/ Op(c, "list") /\ Listed(c, Present)

\* The account's own and unread: written. Its own and read: answered as it is.
PgNotices(c) ==
    LET r == Stored(c)  q == call[c]
        own == IF Found(c) THEN r.account = q.row.account ELSE FALSE
    IN  \/ Op(c, "mint") /\ Store(c, q.row)
        \/ /\ Op(c, "markRead")
           /\ IF ~own THEN Missing(c) ELSE IF r.readAt # None THEN Read(c, r)
              ELSE Store(c, [r EXCEPT !.readAt = q.row.readAt])
        \/ Op(c, "list") /\ Listed(c, {k \in Present : rows[k].account = q.val})

PgUploads(c) ==
    LET q == call[c]
    IN  \/ Op(c, "mint") /\ Store(c, q.row)
        \/ Op(c, "find") /\ Read(c, Stored(c))
        \/ Op(c, "sent") /\ IF Found(c) THEN Store(c, [Stored(c) EXCEPT !.message = q.val]) ELSE Read(c, None)
        \/ Op(c, "unsent") /\ Listed(c, {k \in Present : rows[k].uploader = q.val /\ rows[k].message = None})
        \/ Op(c, "remove") /\ Drop(c, TRUE)

\* The row of an endpoint keeps its id when the endpoint changes hands.
PgPush(c) ==
    LET q == call[c]
    IN  \/ /\ Op(c, "put")
           /\ Store(c, IF Found(c) THEN [Stored(c) EXCEPT !.account = q.row.account] ELSE q.row)
        \/ Op(c, "find") /\ Read(c, Stored(c))
        \/ Op(c, "list") /\ Listed(c, {k \in Present : rows[k].account = q.val})
        \/ Op(c, "unsubscribe") /\ Drop(c, IF Found(c) THEN Stored(c).account = q.val ELSE FALSE)

PgPasskeys(c) ==
    \/ Op(c, "create") /\ Insert(c)
    \/ Op(c, "find") /\ Read(c, Stored(c))
    \/ Op(c, "set") /\ IF Found(c) THEN Overwrite(c) ELSE Throws(c)

\* The fields of a session are read, merged and written back; its status is a column.
PgSessions(c) ==
    LET q == call[c]
        fields == IF looked[c] = None THEN [did |-> None, step |-> None]
                                      ELSE [did |-> looked[c].did, step |-> looked[c].step]
        status == IF Found(c) THEN Stored(c).status ELSE "created"
    IN  \/ Op(c, "mint") /\ Store(c, q.row)
        \/ Op(c, "merge") /\ Store(c, Rewritten(Rewritten([status |-> status], fields), q.row))
        \/ Op(c, "find") /\ Read(c, Stored(c))
        \/ Op(c, "remove") /\ Drop(c, TRUE)
        \/ Op(c, "exist") /\ Listed(c, {k \in Present : k = q.key /\ rows[k].did = q.val})

PgShorts(c) ==
    \/ Op(c, "put") /\ Store(c, call[c].row)
    \/ Op(c, "find") /\ Read(c, Stored(c))
    \/ Op(c, "list") /\ Listed(c, {k \in Present : rows[k].content = call[c].val})

PgLocks(c) ==
    \/ Op(c, "mint") /\ Store(c, call[c].row)
    \/ Op(c, "find") /\ Read(c, Stored(c))

PgSpends(c) ==
    \/ Op(c, "find") /\ Read(c, Stored(c))
    \/ Op(c, "put") /\ IF Found(c) THEN Throws(c) ELSE Store(c, call[c].row)

PgMethod(c) ==
    CASE repo = "accounts" -> PgAccounts(c)         [] repo = "agents" -> PgAgents(c)
      [] repo = "jobs" -> PgJobs(c)                 [] repo = "credentials" -> PgCredentials(c)
      [] repo = "reviews" -> PgReviews(c)           [] repo = "reports" -> PgReports(c)
      [] repo = "attestations" -> PgAttestations(c) [] repo = "messages" -> PgMessages(c)
      [] repo = "notices" -> PgNotices(c)           [] repo = "uploads" -> PgUploads(c)
      [] repo = "push" -> PgPush(c)                 [] repo = "passkeys" -> PgPasskeys(c)
      [] repo = "sessions" -> PgSessions(c)         [] repo = "shorts" -> PgShorts(c)
      [] repo = "locks" -> PgLocks(c)               [] repo = "spends" -> PgSpends(c)
      [] OTHER -> PgUpserts(c)

\* Methods whose first statement only reads, and methods that read the row back.
LooksFirst(c) == \/ repo = "agents" /\ (Op(c, "rotate") \/ Op(c, "find"))
                 \/ repo = "attestations" /\ Op(c, "append")
                 \/ repo = "sessions" /\ Op(c, "merge")
ReadsBack(c) == \/ repo = "accounts" /\ Op(c, "promote")
                \/ repo = "agents" /\ (Op(c, "set") \/ Op(c, "rotate"))
                \/ repo = "notices" /\ Op(c, "markRead")

--------------------------------------------------------------------------------
(* The calls in flight.                                                         *)

Goto(c, to) == pc' = [pc EXCEPT ![c] = to]
Noted == call' = [d \in Callers |-> IF pc[d] \in {"asked", "looked"}
            THEN [call[d] EXCEPT !.since = @ \cup {rows'[call[d].key]}] ELSE call[d]]

Ask(c) ==
    /\ pc[c] = "idle"
    /\ made < MaxCalls[repo]
    /\ \E q \in Calls : Minted(q) /\ call' = [call EXCEPT ![c] = [q EXCEPT !.since = {rows[q.key]}]]
    /\ made' = made + 1
    /\ Goto(c, "asked")
    /\ UNCHANGED <<driver, repo, rows, ans, restarted, looked>>

MemCall(c) ==
    /\ driver = "memory" /\ pc[c] = "asked"
    /\ MemMethod(c)
    /\ Noted
    /\ Goto(c, "answering")
    /\ UNCHANGED <<driver, repo, made, restarted, looked>>

\* The first statement. An agent that is not there is the answer.
PgLook(c) ==
    /\ driver = "prisma" /\ pc[c] = "asked" /\ LooksFirst(c)
    /\ IF repo = "agents" /\ ~Found(c)
         THEN /\ (IF Op(c, "find") THEN Read(c, None) ELSE Missing(c))
              /\ Goto(c, "answering")
              /\ Noted
              /\ UNCHANGED looked
         ELSE /\ looked' = [looked EXCEPT ![c] = IF repo = "attestations" THEN Len(Stored(c)) ELSE Stored(c)]
              /\ Goto(c, "looked")
              /\ UNCHANGED <<rows, call, ans>>
    /\ UNCHANGED <<driver, repo, made, restarted>>

PgStatement(c) ==
    /\ driver = "prisma" /\ pc[c] \in {"asked", "looked"}
    /\ pc[c] = "asked" => ~LooksFirst(c)
    /\ PgMethod(c)
    /\ Noted
    /\ Goto(c, IF ReadsBack(c) /\ ans'[c].said = "ok" THEN "written" ELSE "answering")
    /\ looked' = [looked EXCEPT ![c] = None]
    /\ UNCHANGED <<driver, repo, made, restarted>>

\* The statement that answers the row, of an agent without its rotations yet.
PgReadBack(c) ==
    /\ pc[c] = "written"
    /\ ans' = [ans EXCEPT ![c] = Answer("ok", Stored(c), {})]
    /\ Goto(c, IF repo = "agents" THEN "reread" ELSE "answering")
    /\ UNCHANGED <<driver, repo, rows, call, made, restarted, looked>>

\* An agent's rotations are a statement of their own, joined to the row already read.
PgReadRotations(c) ==
    /\ pc[c] = "reread"
    /\ ans' = [ans EXCEPT ![c].row.rotations = Stored(c).rotations]
    /\ Goto(c, "answering")
    /\ UNCHANGED <<driver, repo, rows, call, made, restarted, looked>>

Leave(c) ==
    /\ call' = [call EXCEPT ![c] = None]
    /\ ans' = [ans EXCEPT ![c] = NoAnswer]
    /\ looked' = [looked EXCEPT ![c] = None]
    /\ Goto(c, "idle")
    /\ UNCHANGED <<driver, repo, rows, made, restarted>>

Reply(c) == pc[c] = "answering" /\ Leave(c)

\* A statement fails before it changes anything; what earlier ones wrote stays.
StatementFails(c) == driver = "prisma" /\ pc[c] \in {"asked", "looked", "written", "reread"} /\ Leave(c)

Restart ==
    /\ ~restarted
    /\ restarted' = TRUE
    /\ rows' = IF driver = "memory" THEN NoRows ELSE rows
    /\ call' = [c \in Callers |-> None]
    /\ ans' = [c \in Callers |-> NoAnswer]
    /\ looked' = [c \in Callers |-> None]
    /\ pc' = [c \in Callers |-> "idle"]
    /\ UNCHANGED <<driver, repo, made>>

Next == Restart \/ \E c \in Callers : \/ Ask(c) \/ MemCall(c) \/ PgLook(c) \/ PgStatement(c)
                                   \/ PgReadBack(c) \/ PgReadRotations(c)
                                   \/ Reply(c) \/ StatementFails(c)
Spec == Init /\ [][Next]_vars

--------------------------------------------------------------------------------
(* Either driver keeps the contract of the interfaces: whatever calls overlap,   *)
(* fail or are cut off by a restart, each takes effect at one instant, once, and *)
(* answers what was true then, or when it read the row again, save that an agent *)
(* may be answered with rotations later than the rest of it; a row is never lost *)
(* to another call and an insert never replaces one.                             *)
DriverKeepsContract == Contract!ContractSpec
================================================================================
