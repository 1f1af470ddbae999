--------------------------- MODULE StorageContract ------------------------------
(* What the repository interfaces promise of either driver: a call takes effect  *)
(* at one instant between its start and its answer, once, whatever other calls   *)
(* do meanwhile, and answers what was true at that instant, or the row as it was  *)
(* at a later one. An agent and its rotations may be of two instants. The         *)
(* freedoms stated here are the ones the interfaces, the drivers' own comments    *)
(* and their statements leave open.                                              *)
EXTENDS StorageCalls

VARIABLE stage       \* per caller: idle, asked, done

contractVars == <<driver, repo, rows, call, ans, made, restarted, stage>>

ContractInit ==
    /\ driver \in {"memory", "prisma"}
    /\ repo \in Repos
    /\ rows = NoRows
    /\ call = [c \in Callers |-> None]
    /\ ans = [c \in Callers |-> NoAnswer]
    /\ made = 0
    /\ restarted = FALSE
    /\ stage = [c \in Callers |-> "idle"]

SomeCall(c) ==
    /\ stage[c] = "idle"
    /\ made < MaxCalls[repo]
    /\ \E q \in Calls :
          /\ Minted(q)
          /\ call' = [call EXCEPT ![c] = [q EXCEPT !.since = {rows[q.key]}]]
    /\ stage' = [stage EXCEPT ![c] = "asked"]
    /\ made' = made + 1
    /\ UNCHANGED <<driver, repo, rows, ans, restarted>>

Op(c, ops) == call[c].op \in ops
Found(c) == Stored(c) # None
Since(c) == call[c].since \cup {Stored(c)}

--------------------------------------------------------------------------------
(* The effects.                                                                 *)

\* A login or a passkey that is set belongs to one account.
Claims(k, r, columns) ==
    \E i \in Ids \ {k} : rows[i] # None /\ \E col \in columns : r[col] # None /\ rows[i][col] = r[col]
Unique == IF repo = "accounts" THEN {"github", "passkey"} ELSE {}

\* Insert only: a row that is there is refused and stays as it is.
Inserts(c) ==
    /\ Op(c, {"register", "create"})
    /\ IF Found(c) \/ Claims(call[c].key, call[c].row, Unique)
          THEN Say(c, Answer("exists", None, {}))
          ELSE Store(c, call[c].row)

Mints(c) == Op(c, {"mint"}) /\ Store(c, call[c].row)

\* Overwritten, never accumulated; a push endpoint may keep the id it has. A spent
\* signature is spent once, and a second record of it may be refused.
Puts(c) ==
    /\ Op(c, {"put"})
    /\ \/ Store(c, call[c].row)
       \/ repo = "push" /\ Found(c) /\ Store(c, [call[c].row EXCEPT !.id = Stored(c).id])
       \/ repo = "spends" /\ Found(c) /\ Say(c, Answer("fault", None, {}))

\* Nothing on a row that is not there; else the columns named, and no other. A
\* completed job keeps its merge where the caller's copy is older.
Changes(c) ==
    /\ Op(c, {"set", "update", "complete"})
    /\ IF ~Found(c) THEN Say(c, Answer(IF repo = "passkeys" THEN "fault" ELSE "none", None, {}))
       ELSE \/ Store(c, Rewritten(Stored(c), call[c].row))
            \/ repo = "jobs" /\ Op(c, {"update"}) /\ Store(c, [call[c].row EXCEPT !.merge = Stored(c).merge])

\* One way a legacy login is proved: on the row that holds it, without case.
Promotes(c) ==
    LET r == Stored(c)  new == [r EXCEPT !.github = call[c].val, !.unproved = None]
    IN  /\ Op(c, {"promote"})
        /\ IF ~Found(c) THEN Say(c, Answer("none", None, {}))
           ELSE IF r.github # None \/ r.unproved = None \/ Folded[r.unproved] # Folded[call[c].val]
                  THEN Say(c, Answer("none", None, {}))
           ELSE IF Claims(call[c].key, new, {"github"})
                  THEN \E s \in {"exists", "fault"} : Say(c, Answer(s, None, {}))
           ELSE Store(c, new)

\* Appended, never replaced. Two saves that meet at one sequence number: one is refused.
Appends(c) ==
    \/ Op(c, {"append"}) /\ Store(c, Append(Stored(c), call[c].val))
    \/ Op(c, {"append"}) /\ repo = "attestations" /\ Since(c) # {Stored(c)}
           /\ Say(c, Answer("raced", None, {}))
    \/ Op(c, {"rotate"})
           /\ IF Found(c) THEN Store(c, [Stored(c) EXCEPT !.rotations = Append(@, call[c].val)])
                          ELSE Say(c, Answer("none", None, {}))

\* The fields given, over those of the session at some instant of the call.
Merges(c) ==
    /\ Op(c, {"merge"})
    /\ \E old \in Since(c) :
          LET at == IF Found(c) THEN Stored(c).status ELSE "created"
              base == IF old = None THEN [status |-> at, did |-> None, step |-> None] ELSE [old EXCEPT !.status = at]
          IN  Store(c, Rewritten(base, call[c].row))

\* Read once: the first time stays, and only the account's own.
MarksRead(c) ==
    /\ Op(c, {"markRead"})
    /\ IF ~Found(c) THEN Say(c, Answer("none", None, {}))
       ELSE IF Stored(c).account # call[c].row.account THEN Say(c, Answer("none", None, {}))
       ELSE Store(c, IF Stored(c).readAt = None THEN call[c].row ELSE Stored(c))

Sends(c) ==
    /\ Op(c, {"sent"})
    /\ IF Found(c) THEN Store(c, [Stored(c) EXCEPT !.message = call[c].val]) ELSE Say(c, Answer("ok", None, {}))

\* Removed when it is there, and when the endpoint is this account's.
Removes(c) ==
    /\ Op(c, {"remove", "unsubscribe"})
    /\ rows' = IF Found(c) /\ (Op(c, {"unsubscribe"}) => Stored(c).account = call[c].val)
                 THEN [rows EXCEPT ![call[c].key] = None] ELSE rows
    /\ ans' = [ans EXCEPT ![c] = Answer("ok", None, {})]

\* An agent is answered with every rotation it has.
Finds(c) ==
    /\ Op(c, {"find"})
    /\ \/ Say(c, Answer("ok", Stored(c), {}))
       \/ /\ repo = "agents" /\ Found(c)
          /\ \E old \in Since(c) \ {None} :
                Say(c, Answer("ok", [old EXCEPT !.rotations = Stored(c).rotations], {}))

\* A column that may be empty matches nothing when nothing is asked for.
Lists(c) ==
    LET v == call[c].val
        has(k) == CASE Op(c, {"findByLogin"}) -> v # None /\ rows[k].github = v
                    [] Op(c, {"completed"})   -> rows[k].merge # None
                    [] Op(c, {"unsent"})      -> rows[k].uploader = v /\ rows[k].message = None
                    [] Op(c, {"exist"})       -> k = call[c].key /\ rows[k].did = v
                    [] repo \in {"credentials", "reviews"} -> rows[k].subject = v
                    [] repo \in {"notices", "push"}        -> rows[k].account = v
                    [] repo = "shorts"                     -> rows[k].content = v
                    [] OTHER -> TRUE
    IN  /\ Op(c, {"list", "findByLogin", "completed", "unsent", "exist"})
        /\ Say(c, Answer("ok", None, {k \in Present : has(k)}))

Effect(c) ==
    /\ stage[c] = "asked"
    /\ \/ Inserts(c) \/ Mints(c) \/ Puts(c) \/ Changes(c) \/ Promotes(c) \/ Appends(c) \/ Merges(c)
       \/ MarksRead(c) \/ Sends(c) \/ Removes(c) \/ Finds(c) \/ Lists(c)
    /\ stage' = [stage EXCEPT ![c] = "done"]
    /\ call' = [d \in Callers |-> IF stage[d] = "asked"
                  THEN [call[d] EXCEPT !.since = @ \cup {rows'[call[d].key]}] ELSE call[d]]
    /\ UNCHANGED <<driver, repo, made, restarted>>

\* A row written and then read again is answered as it is by then.
Refresh(c) ==
    /\ stage[c] = "done" /\ ans[c].said = "ok" /\ Op(c, {"promote", "set", "rotate", "markRead"})
    /\ ans' = [ans EXCEPT ![c] = Answer("ok", Stored(c), {})]
    /\ UNCHANGED <<driver, repo, rows, call, made, restarted, stage>>

\* An agent's rotations may be those of an instant after the one its row was read at:
\* none is missing that was there by then, and the row has no column newer than it.
Rotated(c) ==
    /\ stage[c] = "done" /\ repo = "agents" /\ Op(c, {"set", "rotate"}) /\ ans[c].row # None
    /\ ans' = [ans EXCEPT ![c].row.rotations = Stored(c).rotations]
    /\ UNCHANGED <<driver, repo, rows, call, made, restarted, stage>>

Leave(c) ==
    /\ call' = [call EXCEPT ![c] = None]
    /\ ans' = [ans EXCEPT ![c] = NoAnswer]
    /\ stage' = [stage EXCEPT ![c] = "idle"]
    /\ UNCHANGED <<driver, repo, rows, made, restarted>>

\* The answer reaches the route; or a fault does, with the effect or without it.
Reply(c) == stage[c] = "done" /\ Leave(c)
Fault(c) == driver = "prisma" /\ stage[c] = "asked" /\ Leave(c)

\* A restart ends the calls in flight, and the rows of the memory driver.
Restart ==
    /\ ~restarted
    /\ restarted' = TRUE
    /\ rows' = IF driver = "memory" THEN NoRows ELSE rows
    /\ call' = [c \in Callers |-> None]
    /\ ans' = [c \in Callers |-> NoAnswer]
    /\ stage' = [c \in Callers |-> "idle"]
    /\ UNCHANGED <<driver, repo, made>>

ContractNext == Restart \/ \E c \in Callers : \/ SomeCall(c) \/ Effect(c) \/ Refresh(c) \/ Rotated(c)
                                           \/ Reply(c) \/ Fault(c)
ContractSpec == ContractInit /\ [][ContractNext]_contractVars
================================================================================
