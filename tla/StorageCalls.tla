----------------------------- MODULE StorageCalls -------------------------------
(* What the routes and the rails ask of their repositories. Repositories share   *)
(* no table, so a behaviour is about one of them: repo. A row keeps the columns  *)
(* the drivers treat differently from one another; the others travel with them.  *)
EXTENDS Naturals, Sequences, FiniteSets, TLC

CONSTANTS Callers,     \* calls that may be in flight at once
          Ids,         \* primary keys
          Logins,      \* GitHub logins, as spelled
          Folded,      \* of each login, its lower-case form
          Vals,        \* contents of a column
          MaxCalls,    \* bound: of each repository, the calls made in a behaviour
          None

VARIABLES driver,      \* DATABASE_URL at start: "memory" or "prisma"
          repo,        \* the repository this behaviour is about
          rows,        \* its table, by primary key
          call,        \* per caller: what it asked, and the rows seen under its key since
          ans,         \* per caller: the answer, once the call has one
          made,        \* calls made so far
          restarted    \* bound: the process restarts at most once

Repos == {"accounts", "agents", "jobs", "credentials", "reviews", "passkeys", "reports",
          "attestations", "keys", "settlements", "reads", "spends", "sessions",
          "messages", "notices", "uploads", "push", "shorts", "locks"}
Histories == {"reports", "attestations"}

NoRows == [k \in Ids |-> IF repo \in Histories THEN <<>> ELSE None]
Maybe(S) == S \cup {None}

\* The rows a caller may hand over, one column of interest set at a time.
Account(g, u, p) == [github |-> g, unproved |-> u, passkey |-> p,
                     evm |-> None, abt |-> None, abtEth |-> None]
AddressColumns == {"evm", "abt", "abtEth"}
NewAccounts == {Account(g, None, None) : g \in Logins} \cup {Account(None, u, None) : u \in Logins}
                   \cup {Account(None, None, p) : p \in Vals}
AgentColumns == {"listing", "binding", "avatar", "negotiates", "webhook", "listed"}
NewAgents == {[c \in AgentColumns \cup {"rotations"} |->
                  IF c = "listing" THEN v ELSE IF c = "rotations" THEN <<>> ELSE None] : v \in Vals}

Q(op, keys, contents, vals) == [op : {op}, key : keys, row : contents, val : vals, since : {{}}]
Reads(ops) == UNION {Q(op, Ids, {None}, {None}) : op \in ops}
Column(cols, vals) == UNION {[{c} -> vals] : c \in cols}

\* A job is written back from a copy of its row: the merge of the copy is the one
\* stored when the copy was read, none before the completion.
CopiedMerges(k) == {None} \cup (IF rows[k] = None THEN {} ELSE {rows[k].merge})

Calls ==
    CASE repo = "accounts" -> Q("register", Ids, NewAccounts, {None})
                  \cup Q("promote", Ids, {None}, Logins) \cup Q("set", Ids, Column(AddressColumns, Vals), {None})
                  \cup Reads({"find"}) \cup Q("findByLogin", Ids, {None}, Maybe(Logins))
      [] repo = "agents" -> Q("create", Ids, NewAgents, {None}) \cup Q("set", Ids, Column(AgentColumns, Vals), {None})
                  \cup Q("rotate", Ids, {None}, Vals) \cup Reads({"find", "list"})
      [] repo = "jobs" -> Q("create", Ids, [terms : Vals, merge : {None}], {None})
                  \cup UNION {Q("update", {k}, [terms : Vals, merge : CopiedMerges(k)], {None}) : k \in Ids}
                  \cup Q("complete", Ids, [terms : Vals, merge : Vals], {None}) \cup Reads({"find", "completed"})
      [] repo \in {"credentials", "reviews"} -> Q("create", Ids, [subject : Vals], {None})
                  \cup Reads({"find"}) \cup Q("list", Ids, {None}, Vals)
      [] repo = "passkeys" -> Q("create", Ids, [subject : Vals, counter : {None}], {None})
                  \cup Q("set", Ids, Column({"counter"}, Vals), {None}) \cup Reads({"find"})
      [] repo \in Histories -> Q("append", Ids, {None}, Vals) \cup Reads({"find"})
      [] repo \in {"keys", "settlements", "reads", "spends"} -> Q("put", Ids, [content : Vals], {None})
                  \cup Reads({"find"})
      [] repo = "shorts" -> Q("put", Ids, [content : Vals], {None}) \cup Reads({"find"}) \cup Q("list", Ids, {None}, Vals)
      [] repo = "locks" -> Q("mint", Ids, [content : Vals], {None}) \cup Reads({"find"})
      [] repo = "sessions" -> Q("mint", Ids, [status : Vals, did : {None}, step : {None}], {None})
                  \cup Q("merge", Ids, Column({"status", "did", "step"}, Vals), {None})
                  \cup Reads({"find", "remove"}) \cup Q("exist", Ids, {None}, Vals)
      [] repo = "messages" -> Q("mint", Ids, [origin : Vals, body : Vals], {None}) \cup Reads({"find", "list"})
                  \cup UNION {Q("update", {k}, [origin : {rows[k].origin}, body : Vals], {None}) :
                                  k \in {i \in Ids : rows[i] # None}}
      [] repo = "notices" -> Q("mint", Ids, [account : Vals, readAt : {None}], {None})
                  \cup Q("markRead", Ids, [account : Vals, readAt : Vals], {None}) \cup Q("list", Ids, {None}, Vals)
      [] repo = "uploads" -> Q("mint", Ids, [uploader : Vals, message : {None}], {None})
                  \cup Q("sent", Ids, {None}, Vals) \cup Reads({"find", "remove"}) \cup Q("unsent", Ids, {None}, Vals)
      [] repo = "push" -> Q("put", Ids, [id : Vals, account : Vals], {None}) \cup Reads({"find"})
                  \cup Q("list", Ids, {None}, Vals) \cup Q("unsubscribe", Ids, {None}, Vals)

Answer(said, row, ids) == [said |-> said, row |-> row, ids |-> ids]
NoAnswer == Answer("nothing", None, {})

\* The two ways a call ends: with the table as it was, or with one row written.
Say(c, a) == rows' = rows /\ ans' = [ans EXCEPT ![c] = a]
Store(c, r) ==
    /\ rows' = [rows EXCEPT ![call[c].key] = r]
    /\ ans' = [ans EXCEPT ![c] = Answer("ok", r, {})]
Stored(c) == rows[call[c].key]

\* An id is minted at random: no two calls mint one.
Minted(q) == q.op = "mint" => rows[q.key] = None /\ \A d \in Callers : call[d] # None => call[d].key # q.key

Rewritten(r, cols) == cols @@ r
Present == {k \in Ids : rows[k] # None}
================================================================================
