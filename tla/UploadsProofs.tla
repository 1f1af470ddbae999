------------------------------ MODULE UploadsProofs -----------------------------
(* What Uploads promises of the files of one account, for any number of uploads,   *)
(* messages and threads and any quota.                                             *)
EXTENDS MCUploads, FiniteSetTheorems, TLAPS

--------------------------------------------------------------------------------
(* The inductive invariant. An upload is counted among the rows or among the       *)
(* places at every moment, and a count that read the rows before one moved from    *)
(* the one to the other begins again. A row goes with its file and only once its   *)
(* hour is over; what a message was allowed to carry before that is known.         *)

\* What holds a place, and what has a row.
Placed(u) == request[u].phase \in {"held", "written", "created"}
HasRow(u) == row[u] # None

\* One upload, from its request to its row.
Stages ==
    \A u \in Uploads :
        /\ request[u].phase # "none" => request[u].job \in Threads
        /\ u \in held <=> Placed(u)
        /\ HasRow(u) => request[u].phase \in {"created", "done"} /\ row[u].job = request[u].job
        /\ request[u].phase = "written" => u \in files
        /\ HasRow(u) /\ ~row[u].expired => u \in files

\* What a count has read still holds, or the count begins again.
CountsHold ==
    \A u \in Uploads :
        request[u].phase = "queried" =>
            /\ \A v \in request[u].seen : request[v].phase \in {"created", "done"}
            /\ ~request[u].stale => Counting \subseteq request[u].seen \cup held

\* The one sweep: what is left of it has had its hour, and no message that may carry the
\* upload it is just removing is stored, unless it was checked within that hour.
SweepHolds ==
    /\ sweep.by = None => sweep = NoSweep
    /\ sweep.by # None => request[sweep.by].phase = "sweeping"
    /\ sweep.at # None => sweep.at \in sweep.left
    /\ \A u \in sweep.left : request[u].phase \in {"created", "done"} /\ (HasRow(u) => row[u].expired)
    /\ sweep.at # None /\ sweep.carrier = None =>
           \A m \in Carriers(sweep.at) : sweep.at \in raced
    /\ sweep.fileGone => sweep.at # None /\ sweep.carrier = None /\ sweep.at \notin files

\* What a post has checked is there while its hour lasts.
ChecksHold ==
    \A m \in Messages :
        post[m].phase = "checking" =>
            \A u \in (post[m].names \ post[m].left) \ raced :
                HasRow(u) /\ ~row[u].expired

IInv == TypeOK /\ Stages /\ CountsHold /\ SweepHolds /\ ChecksHold /\ FilesAreKept /\ QuotaKept

--------------------------------------------------------------------------------
(* Types.                                                                          *)

Phases == {"none", "sweeping", "reading", "queried", "held", "written", "created", "done"}

\* A request that goes on is a request.
LEMMA RequestGoes ==
    ASSUME NEW r \in Requests, NEW phase \in Phases, NEW counted \in SUBSET Uploads,
           NEW stale \in BOOLEAN
    PROVE  /\ [r EXCEPT !.phase = phase, !.seen = counted, !.stale = stale] \in Requests
           /\ [r EXCEPT !.phase = phase, !.stale = stale] \in Requests
           /\ [r EXCEPT !.phase = phase, !.seen = counted] \in Requests
           /\ [r EXCEPT !.phase = phase] \in Requests
           /\ [r EXCEPT !.stale = stale] \in Requests
BY DEF Requests, Phases

\* And a post that goes on is a post.
LEMMA PostGoes ==
    ASSUME NEW p \in Posts, NEW left \in SUBSET Uploads
    PROVE  /\ \A phase \in {"none", "checking", "stored", "done"} :
                  [p EXCEPT !.phase = phase] \in Posts
           /\ [p EXCEPT !.left = left] \in Posts
BY DEF Posts

\* What is on its way is a request still after one has given its place back.
LEMMA ReleasedType ==
    ASSUME NEW u \in Uploads, request \in [Uploads -> Requests], held \subseteq Uploads,
           Released(u)
    PROVE  request' \in [Uploads -> Requests] /\ held' \subseteq Uploads
<1>1. \A v \in Uploads : [request[v] EXCEPT !.phase = "done"] \in Requests
  BY RequestGoes DEF Phases
<1>2. \A v \in Uploads :
          [request[v] EXCEPT !.stale = (request[v].phase \in {"reading", "queried"})] \in Requests
  <2> TAKE v \in Uploads
  <2> DEFINE counting == request[v].phase \in {"reading", "queried"}
  <2>1. counting \in BOOLEAN
    OBVIOUS
  <2> HIDE DEF counting
  <2>2. [request[v] EXCEPT !.stale = counting] \in Requests
    BY <2>1, RequestGoes DEF Phases
  <2> QED
    BY <2>2 DEF counting
<1>3. DOMAIN request' = Uploads /\ held' \subseteq Uploads
  BY DEF Released
<1>4. \A v \in Uploads : request'[v] \in Requests
  BY <1>1, <1>2 DEF Released
<1> QED
  BY <1>3, <1>4 DEF Released

\* A row that is marked is a row.
LEMMA MarkedType ==
    ASSUME NEW us, NEW m \in Messages, row \in [Uploads -> Rows \cup {None}]
    PROVE  Marked(us, m) \in [Uploads -> Rows \cup {None}]
BY DEF Marked, Rows

Sweeps == [by : Uploads \cup {None}, left : SUBSET Uploads, at : Uploads \cup {None},
           carrier : Messages \cup {None}, fileGone : BOOLEAN]

\* A sweep that is done with one upload is a sweep.
LEMMA SweepOverType ==
    ASSUME TypeOK
    PROVE  SweepOver \in Sweeps
BY DEF TypeOK, SweepOver, Sweeps

\* Every action keeps the types.
LEMMA TypeStep ==
    ASSUME TypeOK, Stages, Next
    PROVE  TypeOK'
<1>1. ASSUME NEW u \in Uploads, NEW j \in Threads, Arrive(u, j) PROVE TypeOK'
  <2>1. \A phase \in {"reading", "sweeping"} :
            [phase |-> phase, job |-> j, seen |-> {}, stale |-> FALSE] \in Requests
    BY DEF Requests
  <2>2. request' \in [Uploads -> Requests]
    BY <1>1, <2>1 DEF TypeOK, Arrive
  <2>3. Overdue \in SUBSET Uploads
    BY DEF Overdue
  <2>4. sweep' \in Sweeps
    BY <1>1, <2>3 DEF TypeOK, Arrive, NoSweep, Sweeps
  <2> QED
    BY <1>1, <2>2, <2>4 DEF TypeOK, Arrive, posting, Sweeps
<1>2. ASSUME NEW u \in Uploads, QueryStored(u) PROVE TypeOK'
  <2>1. Counting \in SUBSET Uploads
    BY DEF Counting
  <2>2. [request[u] EXCEPT !.phase = "queried", !.seen = Counting] \in Requests
    BY <2>1, RequestGoes DEF TypeOK, Phases
  <2>3. request' \in [Uploads -> Requests]
    BY <1>2, <2>2 DEF TypeOK, QueryStored
  <2> QED
    BY <1>2, <2>3 DEF TypeOK, QueryStored, posting
<1>3. ASSUME NEW u \in Uploads, Decide(u) PROVE TypeOK'
  <2>1. \A phase \in Phases :
            [request[u] EXCEPT !.phase = phase, !.seen = {},
               !.stale = FALSE] \in Requests
    BY RequestGoes DEF TypeOK
  <2>2. [request[u] EXCEPT !.phase = "reading", !.stale = FALSE] \in Requests
    BY RequestGoes DEF TypeOK, Phases
  <2>3. request' \in [Uploads -> Requests]
    BY <1>3, <2>1, <2>2 DEF TypeOK, Decide, Goes, BeginRead, Phases
  <2> QED
    BY <1>3, <2>3 DEF TypeOK, Decide, posting
<1>4. ASSUME NEW u \in Uploads, WriteFiles(u) PROVE TypeOK'
  <2>1. [request[u] EXCEPT !.phase = "written", !.seen = {},
     !.stale = FALSE] \in Requests
    BY RequestGoes DEF TypeOK, Phases
  <2>2. request' \in [Uploads -> Requests]
    BY <1>4, <2>1 DEF TypeOK, WriteFiles, Goes
  <2> QED
    BY <1>4, <2>2 DEF TypeOK, WriteFiles, posting
<1>5. ASSUME NEW u \in Uploads, WriteFails(u) PROVE TypeOK'
  <2>1. request' \in [Uploads -> Requests] /\ held' \subseteq Uploads
    BY <1>5, ReleasedType DEF TypeOK, WriteFails
  <2> QED
    BY <1>5, <2>1 DEF TypeOK, WriteFails, posting
<1>6. ASSUME NEW u \in Uploads, CreateRow(u) PROVE TypeOK'
  <2>1. [request[u] EXCEPT !.phase = "created", !.seen = {},
     !.stale = FALSE] \in Requests
    BY RequestGoes DEF TypeOK, Phases
  <2>2. request' \in [Uploads -> Requests]
    BY <1>6, <2>1 DEF TypeOK, CreateRow, Goes
  <2>3. request[u].job \in Threads
    BY <1>6 DEF CreateRow, Stages
  <2>4. [job |-> request[u].job, expired |-> FALSE, message |-> None] \in Rows
    BY <2>3 DEF Rows
  <2>5. row' \in [Uploads -> Rows \cup {None}]
    BY <1>6, <2>4 DEF TypeOK, CreateRow
  <2> QED
    BY <1>6, <2>2, <2>5 DEF TypeOK, CreateRow, posting
<1>7. ASSUME NEW u \in Uploads, CreateFails(u) PROVE TypeOK'
  <2>1. request' \in [Uploads -> Requests] /\ held' \subseteq Uploads
    BY <1>7, ReleasedType DEF TypeOK, CreateFails
  <2> QED
    BY <1>7, <2>1 DEF TypeOK, CreateFails, posting
<1>8. ASSUME NEW u \in Uploads, Answer(u) PROVE TypeOK'
  <2>1. request' \in [Uploads -> Requests] /\ held' \subseteq Uploads
    BY <1>8, ReleasedType DEF TypeOK, Answer
  <2> QED
    BY <1>8, <2>1 DEF TypeOK, Answer, posting
<1>9. ASSUME NEW u \in Uploads, SweepLook(u) PROVE TypeOK'
  <2>1. sweep' \in Sweeps
    BY <1>9 DEF TypeOK, SweepLook, Carriers, Sweeps
  <2> QED
    BY <1>9, <2>1 DEF TypeOK, SweepLook, posting, uploading, Sweeps
<1>10. ASSUME NEW u \in Uploads, Expire(u) PROVE TypeOK'
  <2>1. row' \in [Uploads -> Rows \cup {None}]
    BY <1>10 DEF TypeOK, Expire, Rows
  <2> QED
    BY <1>10, <2>1 DEF TypeOK, Expire, posting, uploading
<1>11. ASSUME NEW m \in Messages, NEW j \in Threads, NEW names \in SUBSET Uploads,
   Post(m, j, names) PROVE TypeOK'
  <2>1. Attached(j) \in SUBSET Uploads
    BY DEF TypeOK, Attached, Stored
  <2>2. [phase |-> "checking", job |-> j, names |-> names, left |-> names,
         attached |-> Attached(j)] \in Posts
    BY <2>1 DEF Posts
  <2> QED
    BY <1>11, <2>2 DEF TypeOK, Post, uploading
<1>12. ASSUME NEW m \in Messages, NEW u \in Uploads, Check(m, u) PROVE TypeOK'
  <2>1. [post[m] EXCEPT !.left = @ \ {u}] \in Posts
    BY DEF TypeOK, Posts
  <2>2. [post[m] EXCEPT !.phase = "done"] \in Posts
    BY PostGoes DEF TypeOK
  <2>3. post' \in [Messages -> Posts]
    BY <1>12, <2>1, <2>2 DEF TypeOK, Check
  <2> QED
    BY <1>12, <2>3 DEF TypeOK, Check, uploading
<1>13. ASSUME NEW m \in Messages, CreateMessage(m) PROVE TypeOK'
  <2>1. [post[m] EXCEPT !.phase = "stored"] \in Posts
    BY PostGoes DEF TypeOK
  <2>2. post[m].names \in SUBSET Uploads
    BY DEF TypeOK, Posts
  <2> QED
    BY <1>13, <2>1, <2>2 DEF TypeOK, CreateMessage, uploading
<1>14. ASSUME NEW m \in Messages, MarkSent(m) PROVE TypeOK'
  <2>1. [post[m] EXCEPT !.phase = "done"] \in Posts
    BY PostGoes DEF TypeOK
  <2>2. row' \in [Uploads -> Rows \cup {None}]
    BY <1>14, MarkedType DEF TypeOK, MarkSent
  <2> QED
    BY <1>14, <2>1, <2>2 DEF TypeOK, MarkSent, uploading
<1>15. ASSUME NEW m \in Messages, PostEnds(m) PROVE TypeOK'
  <2>1. [post[m] EXCEPT !.phase = "done"] \in Posts
    BY PostGoes DEF TypeOK
  <2> QED
    BY <1>15, <2>1 DEF TypeOK, PostEnds, uploading
<1>16. ASSUME NEW j \in Threads, CloseThread(j) PROVE TypeOK'
  BY <1>16 DEF TypeOK, CloseThread, posting, uploading
<1>17. ASSUME SweepMark PROVE TypeOK'
  <2>1. sweep' \in Sweeps
    BY <1>17, SweepOverType DEF SweepMark
  <2>2. sweep.carrier \in Messages
    BY <1>17 DEF SweepMark, TypeOK
  <2>3. row' \in [Uploads -> Rows \cup {None}]
    BY <1>17, <2>2, MarkedType DEF TypeOK, SweepMark
  <2> QED
    BY <1>17, <2>1, <2>3 DEF TypeOK, SweepMark, posting, uploading, Sweeps
<1>18. ASSUME SweepFiles PROVE TypeOK'
  <2>1. sweep' \in Sweeps
    BY <1>18 DEF TypeOK, SweepFiles, Sweeps
  <2> QED
    BY <1>18, <2>1 DEF TypeOK, SweepFiles, posting, uploading, Sweeps
<1>19. ASSUME SweepRow PROVE TypeOK'
  <2>1. sweep' \in Sweeps
    BY <1>19, SweepOverType DEF SweepRow
  <2> QED
    BY <1>19, <2>1 DEF TypeOK, SweepRow, posting, uploading, Sweeps
<1>20. ASSUME SweepSkips PROVE TypeOK'
  <2>1. sweep' \in Sweeps
    BY <1>20, SweepOverType DEF SweepSkips
  <2> QED
    BY <1>20, <2>1 DEF TypeOK, SweepSkips, posting, uploading, Sweeps
<1>21. ASSUME EndSweep PROVE TypeOK'
  <2>1. sweep.by \in Uploads
    BY <1>21 DEF EndSweep, TypeOK
  <2>2. [request[sweep.by] EXCEPT !.phase = "reading", !.stale = FALSE] \in Requests
    BY <2>1, RequestGoes DEF TypeOK, Phases
  <2>3. request' \in [Uploads -> Requests]
    BY <1>21, <2>2 DEF TypeOK, EndSweep, BeginRead
  <2>4. sweep' \in Sweeps
    BY <1>21 DEF EndSweep, NoSweep, Sweeps
  <2> QED
    BY <1>21, <2>3, <2>4 DEF TypeOK, EndSweep, posting, Sweeps
<1>22. ASSUME Crash PROVE TypeOK'
  <2>1. \A u \in Uploads :
            [request[u] EXCEPT !.phase = "done", !.seen = {},
               !.stale = FALSE] \in Requests
    BY RequestGoes DEF TypeOK, Phases
  <2>2. request' \in [Uploads -> Requests]
    BY <1>22, <2>1 DEF TypeOK, Crash
  <2>3. \A m \in Messages : [post[m] EXCEPT !.phase = "done"] \in Posts
    BY PostGoes DEF TypeOK
  <2>4. post' \in [Messages -> Posts]
    BY <1>22, <2>3 DEF TypeOK, Crash
  <2>5. sweep' \in Sweeps
    BY <1>22 DEF Crash, NoSweep, Sweeps
  <2> QED
    BY <1>22, <2>2, <2>4, <2>5 DEF TypeOK, Crash, Sweeps
<1> QED
  BY <1>1, <1>2, <1>3, <1>4, <1>5, <1>6, <1>7, <1>8, <1>9, <1>10, <1>11, <1>12, <1>13,
     <1>14, <1>15, <1>16, <1>17, <1>18, <1>19, <1>20, <1>21, <1>22 DEF Next

--------------------------------------------------------------------------------
(* What one step does to the requests, to the rows and to the sweep.               *)

\* A request that goes on forgets what it had read, and is nobody else's.
LEMMA GoesOn ==
    ASSUME TypeOK, NEW u \in Uploads, NEW phase, Goes(u, phase)
    PROVE  /\ request'[u].phase = phase /\ request'[u].job = request[u].job
           /\ \A v \in Uploads \ {u} : request'[v] = request[v]
BY DEF TypeOK, Goes, Requests

LEMMA BeginsToRead ==
    ASSUME TypeOK, NEW u \in Uploads, request' = BeginRead(u)
    PROVE  /\ request'[u].phase = "reading" /\ request'[u].job = request[u].job
           /\ \A v \in Uploads \ {u} : request'[v] = request[v]
BY DEF TypeOK, BeginRead, Requests

\* A place given back ends one request and makes stale what the others are reading.
LEMMA GivenBack ==
    ASSUME TypeOK, NEW u \in Uploads, Released(u)
    PROVE  /\ held' = held \ {u}
           /\ request'[u].phase = "done" /\ request'[u].job = request[u].job
           /\ \A v \in Uploads \ {u} :
                 /\ request'[v].phase = request[v].phase
                 /\ request'[v].job = request[v].job
                 /\ request'[v].seen = request[v].seen
                 /\ request[v].phase \in {"reading", "queried"} => request'[v].stale
<1>1. held' = held \ {u} /\ request'[u] = [request[u] EXCEPT !.phase = "done"]
  BY DEF Released
<1>2. request[u] \in Requests /\ \A v \in Uploads : request[v] \in Requests
  BY DEF TypeOK
<1>3. request'[u].phase = "done" /\ request'[u].job = request[u].job
  BY <1>1, <1>2 DEF Requests
<1>4. ASSUME NEW v \in Uploads \ {u}
      PROVE  /\ request'[v].phase = request[v].phase
             /\ request'[v].job = request[v].job
             /\ request'[v].seen = request[v].seen
             /\ request[v].phase \in {"reading", "queried"} => request'[v].stale
  <2> DEFINE counting == request[v].phase \in {"reading", "queried"}
  <2>1. request'[v] = [request[v] EXCEPT !.stale = counting]
    BY <1>4 DEF Released
  <2> HIDE DEF counting
  <2>2. /\ request'[v].phase = request[v].phase /\ request'[v].job = request[v].job
        /\ request'[v].seen = request[v].seen
    BY <1>2, <1>4, <2>1 DEF Requests
  <2>3. request'[v].stale = counting
    BY <1>2, <1>4, <2>1 DEF Requests
  <2> QED
    BY <2>2, <2>3 DEF counting
<1> QED
  BY <1>1, <1>3, <1>4

\* A mark changes whose an upload is and nothing else, and only where there is a row.
LEMMA MarkedRows ==
    ASSUME TypeOK, NEW us, NEW m \in Messages, row' = Marked(us, m)
    PROVE  \A u \in Uploads :
               /\ HasRow(u)' <=> HasRow(u)
               /\ HasRow(u) => row'[u].job = row[u].job /\ row'[u].expired = row[u].expired
               /\ Unsent(u)' => Unsent(u)
<1> TAKE u \in Uploads
<1>1. CASE u \in us /\ row[u] # None
  <2>1. row[u] \in Rows
    BY <1>1 DEF TypeOK
  <2>2. row'[u] = [row[u] EXCEPT !.message = m]
    BY <1>1 DEF Marked
  <2>3. row'[u] \in Rows
    BY <2>1, <2>2 DEF Rows
  <2>4. row'[u].job = row[u].job /\ row'[u].expired = row[u].expired /\ row'[u].message = m
    BY <2>1, <2>2 DEF Rows
  <2>5. m # None
    BY UploadsAssumption
  <2> QED
    BY <1>1, <2>3, <2>4, <2>5, RowsAssumption DEF HasRow, Unsent
<1>2. CASE ~(u \in us /\ row[u] # None)
  BY <1>2 DEF Marked, HasRow, Unsent
<1> QED
  BY <1>1, <1>2

\* An upload holds its place from the count to its end, and its row comes after its file.
LEMMA StagesStep ==
    ASSUME TypeOK, Stages, SweepHolds, Next
    PROVE  Stages'
<1>1. ASSUME NEW u \in Uploads, NEW j \in Threads, Arrive(u, j) PROVE Stages'
  <2>1. request'[u].phase \in {"reading", "sweeping"} /\ request'[u].job = j
    BY <1>1 DEF Arrive, TypeOK
  <2>2. \A v \in Uploads \ {u} : request'[v] = request[v]
    BY <1>1 DEF Arrive, TypeOK
  <2> QED
    BY <1>1, <2>1, <2>2 DEF Stages, Placed, HasRow, Arrive
<1>2. ASSUME NEW u \in Uploads, QueryStored(u) PROVE Stages'
  <2>1. /\ request'[u].phase = "queried" /\ request'[u].job = request[u].job
        /\ \A v \in Uploads \ {u} : request'[v] = request[v]
    BY <1>2 DEF QueryStored, TypeOK, Requests
  <2> QED
    BY <1>2, <2>1 DEF Stages, Placed, HasRow, QueryStored
<1>3. ASSUME NEW u \in Uploads, Decide(u) PROVE Stages'
  <2>1. request[u].phase = "queried" /\ row' = row /\ files' = files
    BY <1>3 DEF Decide
  <2>2. CASE request' = BeginRead(u) /\ held' = held
    BY <2>1, <2>2, BeginsToRead DEF Stages, Placed, HasRow
  <2>3. CASE Goes(u, "done") /\ held' = held
    BY <2>1, <2>3, GoesOn DEF Stages, Placed, HasRow
  <2>4. CASE Goes(u, "held") /\ held' = held \cup {u}
    BY <2>1, <2>4, GoesOn DEF Stages, Placed, HasRow
  <2> QED
    BY <1>3, <2>2, <2>3, <2>4 DEF Decide
<1>4. ASSUME NEW u \in Uploads, WriteFiles(u) PROVE Stages'
  BY <1>4, GoesOn DEF Stages, Placed, HasRow, WriteFiles
<1>5. ASSUME NEW u \in Uploads, WriteFails(u) PROVE Stages'
  <2>1. u \in Uploads /\ Released(u) /\ row' = row
    BY <1>5 DEF WriteFails
  <2>2. \A v \in Uploads \ {u} : v \in files => v \in files'
    BY <1>5 DEF WriteFails
  <2>3. HasRow(u) /\ ~row[u].expired => u \in files'
    BY <1>5 DEF WriteFails, Stages, HasRow
  <2>4. held' = held \ {u} /\ request'[u].phase = "done" /\ request'[u].job = request[u].job
    BY <2>1, GivenBack
  <2>5. \A v \in Uploads \ {u} :
            request'[v].phase = request[v].phase /\ request'[v].job = request[v].job
    BY <2>1, GivenBack
  <2>6. request[u].phase # "none"
    BY <1>5 DEF WriteFails
  <2> QED
    BY <2>1, <2>2, <2>3, <2>4, <2>5, <2>6 DEF Stages, Placed, HasRow
<1>6. ASSUME NEW u \in Uploads, CreateRow(u) PROVE Stages'
  <2>1. Goes(u,
     "created") /\ request[u].phase = "written" /\ u \in files /\ files' = files
    BY <1>6 DEF CreateRow, Stages
  <2>2. row'[u] = [job |-> request[u].job, expired |-> FALSE, message |-> None]
    BY <1>6 DEF CreateRow, TypeOK
  <2>3. \A v \in Uploads \ {u} : row'[v] = row[v]
    BY <1>6 DEF CreateRow, TypeOK
  <2>4. held' = held
    BY <1>6 DEF CreateRow
  <2> QED
    BY <2>1, <2>2, <2>3, <2>4, GoesOn DEF Stages, Placed, HasRow
<1>7. ASSUME NEW u \in Uploads, CreateFails(u) PROVE Stages'
  <2>1. u \in Uploads /\ Released(u) /\ row' = row
    BY <1>7 DEF CreateFails
  <2>2. \A v \in Uploads \ {u} : v \in files => v \in files'
    BY <1>7 DEF CreateFails
  <2>3. HasRow(u) /\ ~row[u].expired => u \in files'
    BY <1>7 DEF CreateFails, Stages, HasRow
  <2>4. held' = held \ {u} /\ request'[u].phase = "done" /\ request'[u].job = request[u].job
    BY <2>1, GivenBack
  <2>5. \A v \in Uploads \ {u} :
            request'[v].phase = request[v].phase /\ request'[v].job = request[v].job
    BY <2>1, GivenBack
  <2>6. request[u].phase # "none"
    BY <1>7 DEF CreateFails
  <2> QED
    BY <2>1, <2>2, <2>3, <2>4, <2>5, <2>6 DEF Stages, Placed, HasRow
<1>8. ASSUME NEW u \in Uploads, Answer(u) PROVE Stages'
  <2>1. u \in Uploads /\ Released(u) /\ row' = row
    BY <1>8 DEF Answer
  <2>2. \A v \in Uploads \ {u} : v \in files => v \in files'
    BY <1>8 DEF Answer
  <2>3. HasRow(u) /\ ~row[u].expired => u \in files'
    BY <1>8 DEF Answer, Stages, HasRow
  <2>4. held' = held \ {u} /\ request'[u].phase = "done" /\ request'[u].job = request[u].job
    BY <2>1, GivenBack
  <2>5. \A v \in Uploads \ {u} :
            request'[v].phase = request[v].phase /\ request'[v].job = request[v].job
    BY <2>1, GivenBack
  <2>6. request[u].phase # "none"
    BY <1>8 DEF Answer
  <2> QED
    BY <2>1, <2>2, <2>3, <2>4, <2>5, <2>6 DEF Stages, Placed, HasRow
<1>9. ASSUME NEW u \in Uploads, SweepLook(u) PROVE Stages'
  BY <1>9 DEF TypeOK, Stages, Placed, HasRow, SweepLook, posting, uploading
<1>10. ASSUME NEW u \in Uploads, Expire(u) PROVE Stages'
  <2>1. \A v \in Uploads : /\ HasRow(v)' <=> HasRow(v)
                           /\ HasRow(v) => row'[v].job = row[v].job /\ (row[v].expired => row'[v].expired)
    <3>1. row[u] \in Rows
      BY <1>10 DEF Expire, TypeOK
    <3>2. row'[u] = [row[u] EXCEPT !.expired = TRUE]
      BY <1>10 DEF Expire, TypeOK
    <3>3. row'[u] \in Rows /\ row'[u].job = row[u].job /\ row'[u].expired
      BY <3>1, <3>2 DEF Rows
    <3>4. \A v \in Uploads \ {u} : row'[v] = row[v]
      BY <1>10 DEF Expire, TypeOK
    <3> QED
      BY <3>1, <3>3, <3>4, RowsAssumption DEF HasRow
  <2> QED
    BY <1>10, <2>1 DEF Stages, Placed, HasRow, Expire, uploading
<1>11. ASSUME NEW m \in Messages, NEW j \in Threads, NEW names \in SUBSET Uploads,
   Post(m, j, names) PROVE Stages'
  BY <1>11 DEF TypeOK, Stages, Placed, HasRow, Post, posting, uploading
<1>12. ASSUME NEW m \in Messages, NEW u \in Uploads, Check(m, u) PROVE Stages'
  BY <1>12 DEF TypeOK, Stages, Placed, HasRow, Check, posting, uploading
<1>13. ASSUME NEW m \in Messages, CreateMessage(m) PROVE Stages'
  BY <1>13 DEF TypeOK, Stages, Placed, HasRow, CreateMessage, posting, uploading
<1>14. ASSUME NEW m \in Messages, MarkSent(m) PROVE Stages'
  BY <1>14, MarkedRows DEF Stages, Placed, HasRow, MarkSent, uploading
<1>15. ASSUME NEW m \in Messages, PostEnds(m) PROVE Stages'
  BY <1>15 DEF TypeOK, Stages, Placed, HasRow, PostEnds, posting, uploading
<1>16. ASSUME NEW j \in Threads, CloseThread(j) PROVE Stages'
  BY <1>16 DEF TypeOK, Stages, Placed, HasRow, CloseThread, posting, uploading
<1>17. ASSUME SweepMark PROVE Stages'
  <2>1. sweep.carrier \in Messages
    BY <1>17 DEF SweepMark, TypeOK
  <2> QED
    BY <1>17, <2>1, MarkedRows DEF Stages, Placed, HasRow, SweepMark, uploading
<1>18. ASSUME SweepFiles PROVE Stages'
  <2>1. sweep.at \in Uploads /\ sweep.at \in sweep.left
    BY <1>18 DEF SweepFiles, SweepHolds, TypeOK
  <2>2. /\ request[sweep.at].phase \in {"created", "done"}
        /\ HasRow(sweep.at) => row[sweep.at].expired
    BY <2>1 DEF SweepHolds
  <2> QED
    BY <1>18, <2>2 DEF Stages, Placed, HasRow, SweepFiles, uploading
<1>19. ASSUME SweepRow PROVE Stages'
  <2>1. \A v \in Uploads : row'[v] \in {row[v], None}
    BY <1>19 DEF SweepRow, TypeOK
  <2> QED
    BY <1>19, <2>1 DEF Stages, Placed, HasRow, SweepRow, uploading
<1>20. ASSUME SweepSkips PROVE Stages'
  BY <1>20 DEF TypeOK, Stages, Placed, HasRow, SweepSkips, posting, uploading
<1>21. ASSUME EndSweep PROVE Stages'
  <2>1. sweep.by \in Uploads /\ request[sweep.by].phase = "sweeping"
    BY <1>21 DEF EndSweep, SweepHolds, TypeOK
  <2>2. request' = BeginRead(sweep.by)
    BY <1>21 DEF EndSweep
  <2>3. /\ request'[sweep.by].phase = "reading" /\ request'[sweep.by].job = request[sweep.by].job
        /\ \A v \in Uploads \ {sweep.by} : request'[v] = request[v]
    BY <2>1, <2>2, BeginsToRead
  <2> QED
    BY <1>21, <2>1, <2>3 DEF Stages, Placed, HasRow, EndSweep
<1>22. ASSUME Crash PROVE Stages'
  <2>1. ASSUME NEW v \in Uploads
        PROVE  /\ request'[v].job = request[v].job
               /\ request[v].phase = "none" <=> request'[v].phase = "none"
               /\ request'[v].phase \in {"none", "done"}
    <3>1. request[v] \in Requests
      BY DEF TypeOK
    <3>2. request'[v] = IF request[v].phase = "none" THEN request[v]
                        ELSE [request[v] EXCEPT !.phase = "done", !.seen = {},
                           !.stale = FALSE]
      BY <1>22 DEF Crash
    <3> QED
      BY <3>1, <3>2 DEF Requests
  <2> QED
    BY <1>22, <2>1 DEF Stages, Placed, HasRow, Crash
<1> QED
  BY <1>1, <1>2, <1>3, <1>4, <1>5, <1>6, <1>7, <1>8, <1>9, <1>10, <1>11, <1>12, <1>13,
     <1>14, <1>15, <1>16, <1>17, <1>18, <1>19, <1>20, <1>21, <1>22 DEF Next

\* A step that only takes up counts, and moves what is counted no further than the places,
\* leaves the counts under way right.
LEMMA CountsMove ==
    ASSUME TypeOK, CountsHold,
           \A v \in Uploads : request[v].phase \in {"created", "done"}
                                  => request'[v].phase \in {"created", "done"},
           \A v \in Uploads : request'[v].phase = "queried" =>
               /\ request[v].phase = "queried" /\ request'[v].seen = request[v].seen
               /\ ~request'[v].stale =>
                      /\ ~request[v].stale /\ held \subseteq held'
                      /\ Counting' \subseteq Counting \cup held'
    PROVE  CountsHold'
<1> SUFFICES ASSUME NEW u \in Uploads, request'[u].phase = "queried"
             PROVE  /\ \A v \in request'[u].seen : request'[v].phase \in {"created", "done"}
                    /\ ~request'[u].stale => Counting' \subseteq request'[u].seen \cup held'
  BY DEF CountsHold
<1>1. request[u] \in Requests
  BY DEF TypeOK
<1>2. request[u].seen \subseteq Uploads
  BY <1>1 DEF Requests
<1>3. /\ \A v \in request[u].seen : request[v].phase \in {"created", "done"}
      /\ ~request[u].stale => Counting \subseteq request[u].seen \cup held
  BY DEF CountsHold
<1> QED
  BY <1>2, <1>3

\* A count is repeated unless everything it must count is in what it read or holds a place.
LEMMA CountsStep ==
    ASSUME TypeOK, Stages, SweepHolds, CountsHold, Next
    PROVE  CountsHold'
<1>1. ASSUME NEW u \in Uploads, NEW j \in Threads, Arrive(u, j) PROVE CountsHold'
  <2>1. request'[u].phase \in {"reading", "sweeping"} /\ request[u].phase = "none"
    BY <1>1 DEF Arrive, TypeOK
  <2>2. \A v \in Uploads \ {u} : request'[v] = request[v]
    BY <1>1 DEF Arrive, TypeOK
  <2>3. held' = held /\ Counting' = Counting
    BY <1>1 DEF Arrive, Counting, Unsent
  <2> QED
    BY <2>1, <2>2, <2>3, CountsMove
<1>2. ASSUME NEW u \in Uploads, QueryStored(u) PROVE CountsHold'
  <2>1. /\ request'[u].phase = "queried" /\ request'[u].seen = Counting
        /\ \A v \in Uploads \ {u} : request'[v] = request[v]
    BY <1>2 DEF QueryStored, TypeOK, Requests
  <2>2. held' = held /\ Counting' = Counting /\ request[u].phase = "reading"
    BY <1>2 DEF QueryStored, Counting, Unsent
  <2>3. \A v \in Counting : v \in Uploads /\ request[v].phase \in {"created", "done"}
    BY DEF Counting, Unsent, Stages, HasRow
  <2> SUFFICES ASSUME NEW v \in Uploads, request'[v].phase = "queried"
               PROVE  /\ \A w \in request'[v].seen :
                            request'[w].phase \in {"created", "done"}
                      /\ ~request'[v].stale => Counting' \subseteq request'[v].seen \cup held'
    BY DEF CountsHold
  <2>4. CASE v = u
    BY <2>1, <2>2, <2>3, <2>4
  <2>5. CASE v # u
    <3>1. request[v] \in Requests
      BY DEF TypeOK
    <3>2. request[v].seen \subseteq Uploads
      BY <3>1 DEF Requests
    <3>3. /\ \A w \in request[v].seen : request[w].phase \in {"created", "done"}
          /\ ~request[v].stale => Counting \subseteq request[v].seen \cup held
      BY <2>1, <2>5 DEF CountsHold
    <3> QED
      BY <2>1, <2>2, <2>5, <3>2, <3>3
  <2> QED
    BY <2>4, <2>5
<1>3. ASSUME NEW u \in Uploads, Decide(u) PROVE CountsHold'
  <2>1. Counting' = Counting /\ held \subseteq held' /\ request[u].phase = "queried"
    BY <1>3 DEF Decide, Counting, Unsent
  <2>2. request'[u].phase # "queried" /\ \A v \in Uploads \ {u} : request'[v] = request[v]
    BY <1>3, BeginsToRead, GoesOn DEF Decide
  <2> QED
    BY <2>1, <2>2, CountsMove
<1>4. ASSUME NEW u \in Uploads, WriteFiles(u) PROVE CountsHold'
  <2>1. Counting' = Counting /\ held' = held /\ request[u].phase = "held"
    BY <1>4 DEF WriteFiles, Counting, Unsent
  <2>2. request'[u].phase = "written" /\ \A v \in Uploads \ {u} : request'[v] = request[v]
    BY <1>4, GoesOn DEF WriteFiles
  <2> QED
    BY <2>1, <2>2, CountsMove
<1>5. ASSUME NEW u \in Uploads, WriteFails(u) PROVE CountsHold'
  <2>1. Released(u)
    BY <1>5 DEF WriteFails
  <2>2. /\ request'[u].phase = "done"
        /\ \A v \in Uploads \ {u} : /\ request'[v].phase = request[v].phase
                                    /\ request'[v].seen = request[v].seen
                                    /\ request[v].phase = "queried" => request'[v].stale
    BY <2>1, GivenBack
  <2> QED
    BY <2>2, CountsMove
<1>6. ASSUME NEW u \in Uploads, CreateRow(u) PROVE CountsHold'
  <2>1. held' = held /\ request[u].phase = "written" /\ u \in held
    BY <1>6 DEF CreateRow, Stages, Placed
  <2>2. Counting' \subseteq Counting \cup {u}
    BY <1>6 DEF CreateRow, Counting, Unsent, TypeOK
  <2>3. request'[u].phase = "created" /\ \A v \in Uploads \ {u} : request'[v] = request[v]
    BY <1>6, GoesOn DEF CreateRow
  <2> QED
    BY <2>1, <2>2, <2>3, CountsMove
<1>7. ASSUME NEW u \in Uploads, CreateFails(u) PROVE CountsHold'
  <2>1. Released(u)
    BY <1>7 DEF CreateFails
  <2>2. /\ request'[u].phase = "done"
        /\ \A v \in Uploads \ {u} : /\ request'[v].phase = request[v].phase
                                    /\ request'[v].seen = request[v].seen
                                    /\ request[v].phase = "queried" => request'[v].stale
    BY <2>1, GivenBack
  <2> QED
    BY <2>2, CountsMove
<1>8. ASSUME NEW u \in Uploads, Answer(u) PROVE CountsHold'
  <2>1. Released(u)
    BY <1>8 DEF Answer
  <2>2. /\ request'[u].phase = "done"
        /\ \A v \in Uploads \ {u} : /\ request'[v].phase = request[v].phase
                                    /\ request'[v].seen = request[v].seen
                                    /\ request[v].phase = "queried" => request'[v].stale
    BY <2>1, GivenBack
  <2> QED
    BY <2>2, CountsMove
<1>9. ASSUME NEW u \in Uploads, SweepLook(u) PROVE CountsHold'
  <2>1. request' = request /\ held' = held
    BY <1>9 DEF SweepLook, uploading
  <2>2. Counting' = Counting
    BY <1>9 DEF SweepLook, Counting, Unsent
  <2> QED
    BY <2>1, <2>2, CountsMove
<1>10. ASSUME NEW u \in Uploads, Expire(u) PROVE CountsHold'
  <2>1. request' = request /\ held' = held
    BY <1>10 DEF Expire, uploading
  <2>2. Counting' \subseteq Counting
    <3>1. row[u] \in Rows
      BY <1>10 DEF Expire, TypeOK
    <3>2. row'[u] = [row[u] EXCEPT !.expired = TRUE] /\ \A v \in Uploads \ {u} : row'[v] = row[v]
      BY <1>10 DEF Expire, TypeOK
    <3>3. row'[u].expired
      BY <3>1, <3>2 DEF Rows
    <3> QED
      BY <3>2, <3>3 DEF Counting, Unsent
  <2> QED
    BY <2>1, <2>2, CountsMove
<1>11. ASSUME NEW m \in Messages, NEW j \in Threads, NEW names \in SUBSET Uploads,
   Post(m, j, names) PROVE CountsHold'
  <2>1. request' = request /\ held' = held
    BY <1>11 DEF Post, uploading
  <2>2. Counting' = Counting
    BY <1>11 DEF Post, Counting, Unsent
  <2> QED
    BY <2>1, <2>2, CountsMove
<1>12. ASSUME NEW m \in Messages, NEW u \in Uploads, Check(m, u) PROVE CountsHold'
  <2>1. request' = request /\ held' = held
    BY <1>12 DEF Check, uploading
  <2>2. Counting' = Counting
    BY <1>12 DEF Check, Counting, Unsent
  <2> QED
    BY <2>1, <2>2, CountsMove
<1>13. ASSUME NEW m \in Messages, CreateMessage(m) PROVE CountsHold'
  <2>1. request' = request /\ held' = held
    BY <1>13 DEF CreateMessage, uploading
  <2>2. Counting' = Counting
    BY <1>13 DEF CreateMessage, Counting, Unsent
  <2> QED
    BY <2>1, <2>2, CountsMove
<1>14. ASSUME NEW m \in Messages, MarkSent(m) PROVE CountsHold'
  <2>1. request' = request /\ held' = held
    BY <1>14 DEF MarkSent, uploading
  <2>2. Counting' \subseteq Counting
    BY <1>14, MarkedRows DEF MarkSent, Counting, Unsent, HasRow
  <2> QED
    BY <2>1, <2>2, CountsMove
<1>15. ASSUME NEW m \in Messages, PostEnds(m) PROVE CountsHold'
  <2>1. request' = request /\ held' = held
    BY <1>15 DEF PostEnds, uploading
  <2>2. Counting' = Counting
    BY <1>15 DEF PostEnds, Counting, Unsent
  <2> QED
    BY <2>1, <2>2, CountsMove
<1>16. ASSUME NEW j \in Threads, CloseThread(j) PROVE CountsHold'
  <2>1. request' = request /\ held' = held
    BY <1>16 DEF CloseThread, uploading
  <2>2. Counting' = Counting
    BY <1>16 DEF CloseThread, Counting, Unsent
  <2> QED
    BY <2>1, <2>2, CountsMove
<1>17. ASSUME SweepMark PROVE CountsHold'
  <2>1. request' = request /\ held' = held
    BY <1>17 DEF SweepMark, uploading
  <2>2. sweep.carrier \in Messages
    BY <1>17 DEF SweepMark, TypeOK
  <2>3. Counting' \subseteq Counting
    BY <1>17, <2>2, MarkedRows DEF SweepMark, Counting, Unsent, HasRow
  <2> QED
    BY <2>1, <2>3, CountsMove
<1>18. ASSUME SweepFiles PROVE CountsHold'
  <2>1. request' = request /\ held' = held
    BY <1>18 DEF SweepFiles, uploading
  <2>2. Counting' = Counting
    BY <1>18 DEF SweepFiles, Counting, Unsent
  <2> QED
    BY <2>1, <2>2, CountsMove
<1>19. ASSUME SweepRow PROVE CountsHold'
  <2>1. request' = request /\ held' = held
    BY <1>19 DEF SweepRow, uploading
  <2>2. Counting' \subseteq Counting
    BY <1>19 DEF SweepRow, Counting, Unsent, TypeOK
  <2> QED
    BY <2>1, <2>2, CountsMove
<1>20. ASSUME SweepSkips PROVE CountsHold'
  <2>1. request' = request /\ held' = held
    BY <1>20 DEF SweepSkips, uploading
  <2>2. Counting' = Counting
    BY <1>20 DEF SweepSkips, Counting, Unsent
  <2> QED
    BY <2>1, <2>2, CountsMove
<1>21. ASSUME EndSweep PROVE CountsHold'
  <2>1. sweep.by \in Uploads /\ request[sweep.by].phase = "sweeping"
    BY <1>21 DEF EndSweep, SweepHolds, TypeOK
  <2>2. /\ request'[sweep.by].phase = "reading"
        /\ \A v \in Uploads \ {sweep.by} : request'[v] = request[v]
    BY <1>21, <2>1, BeginsToRead DEF EndSweep
  <2>3. Counting' = Counting /\ held' = held
    BY <1>21 DEF EndSweep, Counting, Unsent
  <2> QED
    BY <2>1, <2>2, <2>3, CountsMove
<1>22. ASSUME Crash PROVE CountsHold'
  <2>1. ASSUME NEW v \in Uploads
        PROVE  request'[v].phase # "queried"
    <3>1. request[v] \in Requests
      BY DEF TypeOK
    <3>2. request'[v] = IF request[v].phase = "none" THEN request[v]
                        ELSE [request[v] EXCEPT !.phase = "done", !.seen = {},
                           !.stale = FALSE]
      BY <1>22 DEF Crash
    <3> QED
      BY <3>1, <3>2 DEF Requests
  <2> QED
    BY <2>1 DEF CountsHold
<1> QED
  BY <1>1, <1>2, <1>3, <1>4, <1>5, <1>6, <1>7, <1>8, <1>9, <1>10, <1>11, <1>12, <1>13,
     <1>14, <1>15, <1>16, <1>17, <1>18, <1>19, <1>20, <1>21, <1>22 DEF Next

--------------------------------------------------------------------------------
(* The sweep and the checks.                                                       *)

\* The sweep stays right while others take no request back, renew no row it is to remove,
\* write no file of it and store no message that carries what it is removing.
LEMMA SweepStays ==
    ASSUME TypeOK, SweepHolds, sweep' = sweep,
           \A v \in Uploads :
               /\ request[v].phase = "sweeping" => request'[v].phase = "sweeping"
               /\ request[v].phase \in {"created", "done"} =>
                      request'[v].phase \in {"created", "done"},
           \A v \in sweep.left :
               /\ HasRow(v)' => HasRow(v) /\ (row[v].expired => row'[v].expired)
               /\ v \in files' => v \in files
               /\ v \in raced => v \in raced'
               /\ \A m \in Carriers(v)' : m \in Carriers(v) \/ v \in raced'
    PROVE  SweepHolds'
<1>1. sweep.left \subseteq Uploads /\ sweep.by \in Uploads \cup {None}
  BY DEF TypeOK
<1>2. (sweep.by = None => sweep = NoSweep)'
  BY DEF SweepHolds, NoSweep
<1>3. (sweep.by # None => request[sweep.by].phase = "sweeping")'
  BY <1>1 DEF SweepHolds
<1>4. (sweep.at # None => sweep.at \in sweep.left)'
  BY DEF SweepHolds
<1>5. (\A u \in sweep.left : /\ request[u].phase \in {"created", "done"}
                             /\ HasRow(u) => row[u].expired)'
  BY <1>1 DEF SweepHolds
<1>6. (sweep.at # None /\ sweep.carrier = None =>
           \A m \in Carriers(sweep.at) : sweep.at \in raced)'
  <2> SUFFICES ASSUME sweep.at # None, sweep.carrier = None, NEW m \in Carriers(sweep.at)'
               PROVE  sweep.at \in raced'
    OBVIOUS
  <2>1. sweep.at \in sweep.left /\ sweep'.at = sweep.at
    BY DEF SweepHolds
  <2>2. Carriers(sweep.at)' = {n \in Messages : Stored(n)' /\ sweep.at \in carries'[n]}
    BY <2>1 DEF Carriers
  <2> DEFINE v == sweep.at
  <2>3. {n \in Messages : Stored(n)' /\ v \in carries'[n]} = Carriers(v)'
    BY DEF Carriers
  <2>4. m \in Carriers(v) \/ v \in raced'
    BY <2>1, <2>2, <2>3
  <2> QED
    BY <2>1, <2>4 DEF SweepHolds
<1>7. (sweep.fileGone => sweep.at # None /\ sweep.carrier = None /\ sweep.at \notin files)'
  BY DEF SweepHolds
<1> QED
  BY <1>2, <1>3, <1>4, <1>5, <1>6, <1>7 DEF SweepHolds

\* Of what has to do with one upload the sweep is over, and the rest of it is as it was.
LEMMA SweepGoesOn ==
    ASSUME TypeOK, SweepHolds, sweep.at # None, sweep' = SweepOver, request' = request,
           \A v \in Uploads : HasRow(v)' => HasRow(v) /\ (row[v].expired => row'[v].expired)
    PROVE  SweepHolds'
<1>1. /\ sweep'.by = sweep.by /\ sweep'.left \subseteq sweep.left /\ sweep'.at = None
      /\ sweep'.carrier = None /\ ~sweep'.fileGone
  BY DEF SweepOver, TypeOK
<1>2. sweep.by # None /\ sweep.left \subseteq Uploads
  BY DEF SweepHolds, NoSweep, TypeOK
<1> QED
  BY <1>1, <1>2 DEF SweepHolds

\* What the sweep is about to remove has had its hour, and is carried by no message that
\* was checked within it.
LEMMA SweepStep ==
    ASSUME TypeOK, Stages, SweepHolds, ChecksHold, Next
    PROVE  SweepHolds'
<1>1. ASSUME NEW u \in Uploads, NEW j \in Threads, Arrive(u, j) PROVE SweepHolds'
  <2>1. request[u].phase = "none" /\ \A v \in Uploads \ {u} : request'[v] = request[v]
    BY <1>1 DEF Arrive, TypeOK
  <2>2. row' = row /\ files' = files /\ raced' = raced /\ carries' = carries
    BY <1>1 DEF Arrive, posting
  <2>3. CASE sweep' = sweep
    BY <2>1, <2>2, <2>3, SweepStays DEF HasRow, Carriers, Stored
  <2>4. CASE /\ request' = [request EXCEPT ![u] = [phase |-> "sweeping", job |-> j,
                                                 seen |-> {}, stale |-> FALSE]]
             /\ sweep' = [NoSweep EXCEPT !.by = u, !.left = Overdue]
    <3>1. /\ sweep'.by = u /\ sweep'.left = Overdue /\ sweep'.at = None
          /\ sweep'.carrier = None /\ ~sweep'.fileGone
      BY <2>4 DEF NoSweep
    <3>2. request'[u].phase = "sweeping" /\ u # None
      BY <2>4, UploadsAssumption DEF TypeOK
    <3>3. \A v \in Overdue : /\ v \in Uploads /\ HasRow(v) /\ row[v].expired
                             /\ request[v].phase \in {"created", "done"}
      BY DEF Overdue, Unsent, Stages, HasRow
    <3>4. \A v \in Overdue : request'[v].phase \in {"created",
       "done"} /\ row'[v].expired
      BY <2>1, <2>2, <3>3
    <3> QED
      BY <3>1, <3>2, <3>4 DEF SweepHolds
  <2> QED
    BY <1>1, <2>3, <2>4 DEF Arrive
<1>2. ASSUME NEW u \in Uploads, QueryStored(u) PROVE SweepHolds'
  <2>1. request'[u].phase = "queried" /\ request[u].phase = "reading"
    BY <1>2 DEF QueryStored, TypeOK, Requests
  <2>2. \A v \in Uploads \ {u} : request'[v] = request[v]
    BY <1>2 DEF QueryStored, TypeOK
  <2>3. sweep' = sweep /\ row' = row /\ files' = files /\ raced' = raced /\ carries' = carries
    BY <1>2 DEF QueryStored, posting
  <2> QED
    BY <2>1, <2>2, <2>3, SweepStays DEF HasRow, Carriers, Stored
<1>3. ASSUME NEW u \in Uploads, Decide(u) PROVE SweepHolds'
  <2>1. request[u].phase = "queried" /\ \A v \in Uploads \ {u} : request'[v] = request[v]
    BY <1>3, BeginsToRead, GoesOn DEF Decide
  <2>2. sweep' = sweep /\ row' = row /\ files' = files /\ raced' = raced /\ carries' = carries
    BY <1>3 DEF Decide, posting
  <2> QED
    BY <2>1, <2>2, SweepStays DEF HasRow, Carriers, Stored
<1>4. ASSUME NEW u \in Uploads, WriteFiles(u) PROVE SweepHolds'
  <2>1. request[u].phase = "held" /\ \A v \in Uploads \ {u} : request'[v] = request[v]
    BY <1>4, GoesOn DEF WriteFiles
  <2>2. sweep' = sweep /\ row' = row /\ raced' = raced /\ carries' = carries
    BY <1>4 DEF WriteFiles, posting
  <2>3. sweep.left \subseteq Uploads \ {u}
    BY <2>1 DEF SweepHolds, TypeOK
  <2>4. \A v \in sweep.left : v \in files' => v \in files
    BY <1>4, <2>3 DEF WriteFiles
  <2> QED
    BY <2>1, <2>2, <2>4, SweepStays DEF HasRow, Carriers, Stored
<1>5. ASSUME NEW u \in Uploads, WriteFails(u) PROVE SweepHolds'
  <2>1. request[u].phase \in {"held", "written", "created"} /\ Released(u)
    BY <1>5 DEF WriteFails
  <2>2. /\ request'[u].phase = "done"
        /\ \A v \in Uploads \ {u} : request'[v].phase = request[v].phase
    BY <2>1, GivenBack
  <2>3. sweep' = sweep /\ row' = row /\ raced' = raced /\ carries' = carries
    BY <1>5 DEF WriteFails, posting
  <2>4. \A v \in Uploads \ {u} : v \in files' => v \in files
    BY <1>5 DEF WriteFails
  <2>5. \A v \in sweep.left : v \in Uploads /\ request[v].phase \in {"created", "done"}
    BY DEF SweepHolds, TypeOK
  <2>6. \A v \in sweep.left : v \in files' => v \in files
    BY <1>5, <2>4, <2>5 DEF WriteFails
  <2> QED
    BY <2>1, <2>2, <2>3, <2>6, SweepStays DEF HasRow, Carriers, Stored
<1>6. ASSUME NEW u \in Uploads, CreateRow(u) PROVE SweepHolds'
  <2>1. request[u].phase = "written" /\ request'[u].phase = "created"
    BY <1>6, GoesOn DEF CreateRow
  <2>2. \A v \in Uploads \ {u} : request'[v] = request[v] /\ row'[v] = row[v]
    BY <1>6, GoesOn DEF CreateRow, TypeOK
  <2>3. sweep' = sweep /\ files' = files /\ raced' = raced /\ carries' = carries
    BY <1>6 DEF CreateRow, posting
  <2>4. sweep.left \subseteq Uploads \ {u}
    BY <2>1 DEF SweepHolds, TypeOK
  <2> QED
    BY <2>1, <2>2, <2>3, <2>4, SweepStays DEF HasRow, Carriers, Stored
<1>7. ASSUME NEW u \in Uploads, CreateFails(u) PROVE SweepHolds'
  <2>1. request[u].phase \in {"held", "written", "created"} /\ Released(u)
    BY <1>7 DEF CreateFails
  <2>2. /\ request'[u].phase = "done"
        /\ \A v \in Uploads \ {u} : request'[v].phase = request[v].phase
    BY <2>1, GivenBack
  <2>3. sweep' = sweep /\ row' = row /\ raced' = raced /\ carries' = carries
    BY <1>7 DEF CreateFails, posting
  <2>4. \A v \in Uploads \ {u} : v \in files' => v \in files
    BY <1>7 DEF CreateFails
  <2>5. \A v \in sweep.left : v \in Uploads /\ request[v].phase \in {"created", "done"}
    BY DEF SweepHolds, TypeOK
  <2>6. \A v \in sweep.left : v \in files' => v \in files
    BY <1>7, <2>4, <2>5 DEF CreateFails
  <2> QED
    BY <2>1, <2>2, <2>3, <2>6, SweepStays DEF HasRow, Carriers, Stored
<1>8. ASSUME NEW u \in Uploads, Answer(u) PROVE SweepHolds'
  <2>1. request[u].phase \in {"held", "written", "created"} /\ Released(u)
    BY <1>8 DEF Answer
  <2>2. /\ request'[u].phase = "done"
        /\ \A v \in Uploads \ {u} : request'[v].phase = request[v].phase
    BY <2>1, GivenBack
  <2>3. sweep' = sweep /\ row' = row /\ raced' = raced /\ carries' = carries
    BY <1>8 DEF Answer, posting
  <2>4. \A v \in Uploads \ {u} : v \in files' => v \in files
    BY <1>8 DEF Answer
  <2>5. \A v \in sweep.left : v \in Uploads /\ request[v].phase \in {"created", "done"}
    BY DEF SweepHolds, TypeOK
  <2>6. \A v \in sweep.left : v \in files' => v \in files
    BY <1>8, <2>4, <2>5 DEF Answer
  <2> QED
    BY <2>1, <2>2, <2>3, <2>6, SweepStays DEF HasRow, Carriers, Stored
<1>9. ASSUME NEW u \in Uploads, SweepLook(u) PROVE SweepHolds'
  <2>1. u # None /\ u \in sweep.left /\ sweep.by # None /\ sweep.at = None /\ ~sweep.fileGone
    BY <1>9, UploadsAssumption DEF SweepLook, SweepHolds
  <2>2. request' = request /\ row' = row /\ files' = files /\ raced' = raced
        /\ Carriers(u)' = Carriers(u)
    BY <1>9 DEF SweepLook, uploading, posting, Carriers, Stored
  <2>3. CASE Carriers(u) = {} /\ sweep' = [sweep EXCEPT !.at = u]
    <3>1. sweep'.by = sweep.by /\ sweep'.left = sweep.left /\ sweep'.at = u
          /\ sweep'.carrier = sweep.carrier /\ sweep'.fileGone = sweep.fileGone
      BY <2>3 DEF TypeOK
    <3>2. Carriers(sweep.at)' = {}
      BY <2>2, <2>3, <3>1 DEF Carriers
    <3> QED
      BY <2>1, <2>2, <3>1, <3>2 DEF SweepHolds, HasRow
  <2>4. ASSUME NEW m \in Carriers(u), sweep' = [sweep EXCEPT !.at = u, !.carrier = m]
        PROVE  SweepHolds'
    <3>1. sweep'.by = sweep.by /\ sweep'.left = sweep.left /\ sweep'.at = u
          /\ sweep'.carrier = m /\ sweep'.fileGone = sweep.fileGone
      BY <2>4 DEF TypeOK
    <3>2. m # None
      BY UploadsAssumption DEF Carriers
    <3> QED
      BY <2>1, <2>2, <3>1, <3>2 DEF SweepHolds, HasRow
  <2> QED
    BY <1>9, <2>3, <2>4 DEF SweepLook
<1>10. ASSUME NEW u \in Uploads, Expire(u) PROVE SweepHolds'
  <2>1. row[u] \in Rows /\ row'[u] = [row[u] EXCEPT !.expired = TRUE]
    BY <1>10 DEF Expire, TypeOK
  <2>2. row'[u].expired /\ HasRow(u)
    BY <1>10, <2>1 DEF Rows, Expire, HasRow
  <2>3. \A v \in Uploads \ {u} : row'[v] = row[v]
    BY <1>10 DEF Expire, TypeOK
  <2>4. request' = request /\ sweep' = sweep /\ files' = files /\ raced \subseteq raced'
        /\ carries' = carries
    BY <1>10 DEF Expire, uploading, posting
  <2>5. sweep.left \subseteq Uploads
    BY DEF TypeOK
  <2> QED
    BY <2>2, <2>3, <2>4, <2>5, SweepStays DEF HasRow, Carriers, Stored
<1>11. ASSUME NEW m \in Messages, NEW j \in Threads, NEW names \in SUBSET Uploads,
   Post(m, j, names) PROVE SweepHolds'
  <2>1. sweep' = sweep /\ request' = request /\ row' = row /\ files' = files
    BY <1>11 DEF Post, uploading
  <2>2. raced' = raced /\ carries' = carries
    BY <1>11 DEF Post
  <2> QED
    BY <2>1, <2>2, SweepStays DEF HasRow, Carriers, Stored
<1>12. ASSUME NEW m \in Messages, NEW u \in Uploads, Check(m, u) PROVE SweepHolds'
  <2>1. sweep' = sweep /\ request' = request /\ row' = row /\ files' = files
    BY <1>12 DEF Check, uploading
  <2>2. raced' = raced /\ carries' = carries
    BY <1>12 DEF Check
  <2> QED
    BY <2>1, <2>2, SweepStays DEF HasRow, Carriers, Stored
<1>13. ASSUME NEW m \in Messages, CreateMessage(m) PROVE SweepHolds'
  <2>1. sweep' = sweep /\ request' = request /\ row' = row /\ files' = files /\ raced' = raced
    BY <1>13 DEF CreateMessage, uploading
  <2>2. carries'[m] = post[m].names /\ \A n \in Messages \ {m} : carries'[n] = carries[n]
    BY <1>13 DEF CreateMessage, TypeOK
  <2>3. \A v \in post[m].names \ raced : HasRow(v) /\ ~row[v].expired
    BY <1>13 DEF CreateMessage, ChecksHold
  <2>4. ASSUME NEW v \in sweep.left, NEW n \in Carriers(v)'
        PROVE  n \in Carriers(v) \/ v \in raced'
    <3>1. n \in Messages /\ v \in carries'[n] /\ carries'[n] # None
      BY <2>4 DEF Carriers, Stored
    <3>2. HasRow(v) => row[v].expired
      BY <2>4 DEF SweepHolds
    <3> QED
      BY <2>1, <2>2, <2>3, <3>1, <3>2 DEF Carriers, Stored
  <2> QED
    BY <2>1, <2>4, SweepStays DEF HasRow
<1>14. ASSUME NEW m \in Messages, MarkSent(m) PROVE SweepHolds'
  <2>1. sweep' = sweep /\ request' = request /\ files' = files /\ raced' = raced
        /\ carries' = carries
    BY <1>14 DEF MarkSent, uploading
  <2>2. \A v \in Uploads : HasRow(v)' => HasRow(v) /\ row'[v].expired = row[v].expired
    BY <1>14, MarkedRows DEF MarkSent
  <2>3. sweep.left \subseteq Uploads
    BY DEF TypeOK
  <2> QED
    BY <2>1, <2>2, <2>3, SweepStays DEF Carriers, Stored
<1>15. ASSUME NEW m \in Messages, PostEnds(m) PROVE SweepHolds'
  <2>1. sweep' = sweep /\ request' = request /\ row' = row /\ files' = files
    BY <1>15 DEF PostEnds, uploading
  <2>2. raced' = raced /\ carries' = carries
    BY <1>15 DEF PostEnds, posting
  <2> QED
    BY <2>1, <2>2, SweepStays DEF HasRow, Carriers, Stored
<1>16. ASSUME NEW j \in Threads, CloseThread(j) PROVE SweepHolds'
  <2>1. sweep' = sweep /\ request' = request /\ row' = row /\ files' = files
    BY <1>16 DEF CloseThread, uploading
  <2>2. raced' = raced /\ carries' = carries
    BY <1>16 DEF CloseThread, posting
  <2> QED
    BY <2>1, <2>2, SweepStays DEF HasRow, Carriers, Stored
<1>17. ASSUME SweepMark PROVE SweepHolds'
  <2>1. sweep.carrier \in Messages
    BY <1>17 DEF SweepMark, TypeOK
  <2>2. \A v \in Uploads : HasRow(v)' => HasRow(v) /\ row'[v].expired = row[v].expired
    BY <1>17, <2>1, MarkedRows DEF SweepMark
  <2> QED
    BY <1>17, <2>2, SweepGoesOn DEF SweepMark, uploading
<1>18. ASSUME SweepFiles PROVE SweepHolds'
  <2>1. request' = request /\ row' = row /\ raced' = raced /\ carries' = carries
        /\ files' = files \ {sweep.at}
    BY <1>18 DEF SweepFiles, uploading, posting
  <2>2. sweep'.by = sweep.by /\ sweep'.left = sweep.left /\ sweep'.at = sweep.at
        /\ sweep'.carrier = sweep.carrier /\ sweep'.fileGone
    BY <1>18 DEF SweepFiles, TypeOK
  <2>3. sweep.at # None /\ sweep.carrier = None /\ sweep.by # None
    BY <1>18 DEF SweepFiles, SweepHolds, NoSweep
  <2>4. \A m \in Carriers(sweep.at)' : m \in Carriers(sweep.at)
    BY <2>1, <2>2 DEF Carriers, Stored
  <2> QED
    BY <2>1, <2>2, <2>3, <2>4 DEF SweepHolds, HasRow
<1>19. ASSUME SweepRow PROVE SweepHolds'
  <2>1. \A v \in Uploads : row'[v] \in {row[v], None}
    BY <1>19 DEF SweepRow, TypeOK
  <2>2. \A v \in Uploads : HasRow(v)' => HasRow(v) /\ row'[v].expired = row[v].expired
    BY <2>1 DEF HasRow
  <2> QED
    BY <1>19, <2>2, SweepGoesOn DEF SweepRow, uploading
<1>20. ASSUME SweepSkips PROVE SweepHolds'
  <2>1. row' = row
    BY <1>20 DEF SweepSkips
  <2> QED
    BY <1>20, <2>1, SweepGoesOn DEF SweepSkips, uploading, HasRow
<1>21. ASSUME EndSweep PROVE SweepHolds'
  BY <1>21 DEF EndSweep, SweepHolds, NoSweep
<1>22. ASSUME Crash PROVE SweepHolds'
  BY <1>22 DEF Crash, SweepHolds, NoSweep
<1> QED
  BY <1>1, <1>2, <1>3, <1>4, <1>5, <1>6, <1>7, <1>8, <1>9, <1>10, <1>11, <1>12, <1>13,
     <1>14, <1>15, <1>16, <1>17, <1>18, <1>19, <1>20, <1>21, <1>22 DEF Next

\* What a post names is uploads.
LEMMA PostsName ==
    ASSUME TypeOK, NEW m \in Messages
    PROVE  post[m].names \subseteq Uploads
<1>1. post[m] \in Posts
  BY DEF TypeOK
<1> QED
  BY <1>1 DEF Posts

\* What a post has checked is there while its hour lasts.
LEMMA ChecksStep ==
    ASSUME TypeOK, Stages, SweepHolds, ChecksHold, Next
    PROVE  ChecksHold'
<1>1. ASSUME NEW u \in Uploads, NEW j \in Threads, Arrive(u, j) PROVE ChecksHold'
  <2>1. post' = post /\ row' = row /\ raced' = raced
    BY <1>1 DEF Arrive, posting
  <2> QED
    BY <2>1 DEF ChecksHold, HasRow
<1>2. ASSUME NEW u \in Uploads, QueryStored(u) PROVE ChecksHold'
  <2>1. post' = post /\ row' = row /\ raced' = raced
    BY <1>2 DEF QueryStored, posting
  <2> QED
    BY <2>1 DEF ChecksHold, HasRow
<1>3. ASSUME NEW u \in Uploads, Decide(u) PROVE ChecksHold'
  <2>1. post' = post /\ row' = row /\ raced' = raced
    BY <1>3 DEF Decide, posting
  <2> QED
    BY <2>1 DEF ChecksHold, HasRow
<1>4. ASSUME NEW u \in Uploads, WriteFiles(u) PROVE ChecksHold'
  <2>1. post' = post /\ row' = row /\ raced' = raced
    BY <1>4 DEF WriteFiles, posting
  <2> QED
    BY <2>1 DEF ChecksHold, HasRow
<1>5. ASSUME NEW u \in Uploads, WriteFails(u) PROVE ChecksHold'
  <2>1. post' = post /\ row' = row /\ raced' = raced
    BY <1>5 DEF WriteFails, posting
  <2> QED
    BY <2>1 DEF ChecksHold, HasRow
<1>6. ASSUME NEW u \in Uploads, CreateRow(u) PROVE ChecksHold'
  <2>1. post' = post /\ raced' = raced
    BY <1>6 DEF CreateRow, posting
  <2>2. row'[u] = [job |-> request[u].job, expired |-> FALSE, message |-> None]
    BY <1>6 DEF CreateRow, TypeOK
  <2>3. row'[u] # None /\ ~row'[u].expired
    <3>1. request[u].job \in Threads
      BY <1>6 DEF CreateRow, Stages
    <3>2. row'[u] \in Rows
      BY <2>2, <3>1 DEF Rows
    <3> QED
      <4>1. row'[u] # None
        BY <3>2, RowsAssumption
      <4>2. row'[u].expired = FALSE
        BY <2>2
      <4> QED
        BY <4>1, <4>2
  <2>4. \A v \in Uploads \ {u} : row'[v] = row[v]
    BY <1>6 DEF CreateRow, TypeOK
  <2> SUFFICES ASSUME NEW m \in Messages, post[m].phase = "checking",
                      NEW v \in (post[m].names \ post[m].left) \ raced
               PROVE  row'[v] # None /\ ~row'[v].expired
    BY <2>1 DEF ChecksHold, HasRow
  <2>5. v \in Uploads
    BY PostsName
  <2> QED
    BY <2>3, <2>4, <2>5 DEF ChecksHold, HasRow
<1>7. ASSUME NEW u \in Uploads, CreateFails(u) PROVE ChecksHold'
  <2>1. post' = post /\ row' = row /\ raced' = raced
    BY <1>7 DEF CreateFails, posting
  <2> QED
    BY <2>1 DEF ChecksHold, HasRow
<1>8. ASSUME NEW u \in Uploads, Answer(u) PROVE ChecksHold'
  <2>1. post' = post /\ row' = row /\ raced' = raced
    BY <1>8 DEF Answer, posting
  <2> QED
    BY <2>1 DEF ChecksHold, HasRow
<1>9. ASSUME NEW u \in Uploads, SweepLook(u) PROVE ChecksHold'
  <2>1. post' = post /\ row' = row /\ raced' = raced
    BY <1>9 DEF SweepLook, posting
  <2> QED
    BY <2>1 DEF ChecksHold, HasRow
<1>10. ASSUME NEW u \in Uploads, Expire(u) PROVE ChecksHold'
  <2>1. post' = post /\ raced \subseteq raced'
    BY <1>10 DEF Expire, posting
  <2>2. \A v \in Uploads \ {u} : row'[v] = row[v]
    BY <1>10 DEF Expire, TypeOK
  <2> SUFFICES ASSUME NEW m \in Messages, post[m].phase = "checking",
                      NEW v \in (post[m].names \ post[m].left) \ raced'
               PROVE  row'[v] # None /\ ~row'[v].expired
    BY <2>1 DEF ChecksHold, HasRow
  <2>3. v # u
    BY <1>10 DEF Expire
  <2>4. v \in Uploads
    BY PostsName
  <2> QED
    BY <2>1, <2>2, <2>3, <2>4 DEF ChecksHold, HasRow
<1>11. ASSUME NEW m \in Messages, NEW j \in Threads, NEW names \in SUBSET Uploads,
   Post(m, j, names) PROVE ChecksHold'
  <2>1. post'[m].left = post'[m].names /\ \A n \in Messages \ {m} : post'[n] = post[n]
    BY <1>11 DEF Post, TypeOK
  <2>2. row' = row /\ raced' = raced
    BY <1>11 DEF Post
  <2> SUFFICES ASSUME NEW n \in Messages, post'[n].phase = "checking",
                      NEW v \in (post'[n].names \ post'[n].left) \ raced
               PROVE  HasRow(v) /\ ~row[v].expired
    BY <2>2 DEF ChecksHold, HasRow
  <2> QED
    BY <2>1 DEF ChecksHold
<1>12. ASSUME NEW m \in Messages, NEW u \in Uploads, Check(m, u) PROVE ChecksHold'
  <2>1. \A n \in Messages \ {m} : post'[n] = post[n]
    BY <1>12 DEF Check, TypeOK
  <2>2. row' = row /\ raced' = raced /\ post[m].phase = "checking"
    BY <1>12 DEF Check
  <2>3. post[m] \in Posts
    BY DEF TypeOK
  <2>4. post'[m].phase = "checking" =>
            /\ post'[m].names = post[m].names /\ post'[m].left = post[m].left \ {u}
            /\ HasRow(u) /\ ~row[u].expired
    BY <1>12, <2>3 DEF Check, TypeOK, Qualifies, HasRow, Posts
  <2> SUFFICES ASSUME NEW n \in Messages, post'[n].phase = "checking",
                      NEW v \in (post'[n].names \ post'[n].left) \ raced
               PROVE  HasRow(v) /\ ~row[v].expired
    BY <2>2 DEF ChecksHold, HasRow
  <2> QED
    BY <2>1, <2>2, <2>4 DEF ChecksHold
<1>13. ASSUME NEW m \in Messages, CreateMessage(m) PROVE ChecksHold'
  <2>1. \A n \in Messages \ {m} : post'[n] = post[n]
    BY <1>13 DEF CreateMessage, TypeOK
  <2>2. post'[m].phase # "checking"
    BY <1>13 DEF CreateMessage, TypeOK, Posts
  <2>3. raced' = raced
    BY <1>13 DEF CreateMessage
  <2> SUFFICES ASSUME NEW n \in Messages, n # m, post[n].phase = "checking",
                      NEW v \in (post[n].names \ post[n].left) \ raced
               PROVE  row'[v] # None /\ ~row'[v].expired
    BY <2>1, <2>2, <2>3 DEF ChecksHold, HasRow
  <2>4. v \in Uploads /\ HasRow(v) /\ ~row[v].expired
    BY PostsName DEF ChecksHold
  <2> QED
    BY <1>13, <2>4, MarkedRows DEF CreateMessage, HasRow
<1>14. ASSUME NEW m \in Messages, MarkSent(m) PROVE ChecksHold'
  <2>1. \A n \in Messages \ {m} : post'[n] = post[n]
    BY <1>14 DEF MarkSent, TypeOK
  <2>2. post'[m].phase # "checking"
    BY <1>14 DEF MarkSent, TypeOK, Posts
  <2>3. raced' = raced
    BY <1>14 DEF MarkSent
  <2> SUFFICES ASSUME NEW n \in Messages, n # m, post[n].phase = "checking",
                      NEW v \in (post[n].names \ post[n].left) \ raced
               PROVE  row'[v] # None /\ ~row'[v].expired
    BY <2>1, <2>2, <2>3 DEF ChecksHold, HasRow
  <2>4. v \in Uploads /\ HasRow(v) /\ ~row[v].expired
    BY PostsName DEF ChecksHold
  <2> QED
    BY <1>14, <2>4, MarkedRows DEF MarkSent, HasRow
<1>15. ASSUME NEW m \in Messages, PostEnds(m) PROVE ChecksHold'
  <2>1. \A n \in Messages \ {m} : post'[n] = post[n]
    BY <1>15 DEF PostEnds, TypeOK
  <2>2. post'[m].phase # "checking"
    BY <1>15 DEF PostEnds, TypeOK, Posts
  <2>3. raced' = raced
    BY <1>15 DEF PostEnds
  <2> SUFFICES ASSUME NEW n \in Messages, n # m, post[n].phase = "checking",
                      NEW v \in (post[n].names \ post[n].left) \ raced
               PROVE  row'[v] # None /\ ~row'[v].expired
    BY <2>1, <2>2, <2>3 DEF ChecksHold, HasRow
  <2>4. v \in Uploads /\ HasRow(v) /\ ~row[v].expired
    BY PostsName DEF ChecksHold
  <2> QED
    BY <1>15, <2>4, MarkedRows DEF PostEnds, HasRow
<1>16. ASSUME NEW j \in Threads, CloseThread(j) PROVE ChecksHold'
  <2>1. post' = post /\ row' = row /\ raced' = raced
    BY <1>16 DEF CloseThread, posting
  <2> QED
    BY <2>1 DEF ChecksHold, HasRow
<1>17. ASSUME SweepMark PROVE ChecksHold'
  <2>1. post' = post /\ raced' = raced
    BY <1>17 DEF SweepMark, posting
  <2>2. sweep.carrier \in Messages
    BY <1>17 DEF SweepMark, TypeOK
  <2> SUFFICES ASSUME NEW n \in Messages, post[n].phase = "checking",
                      NEW v \in (post[n].names \ post[n].left) \ raced
               PROVE  HasRow(v)' /\ ~row'[v].expired
    BY <2>1 DEF ChecksHold, HasRow
  <2>3. v \in Uploads /\ HasRow(v) /\ ~row[v].expired
    BY PostsName DEF ChecksHold
  <2> QED
    BY <1>17, <2>2, <2>3, MarkedRows DEF SweepMark
<1>18. ASSUME SweepFiles PROVE ChecksHold'
  <2>1. post' = post /\ row' = row /\ raced' = raced
    BY <1>18 DEF SweepFiles, posting
  <2> QED
    BY <2>1 DEF ChecksHold, HasRow
<1>19. ASSUME SweepRow PROVE ChecksHold'
  <2>1. post' = post /\ raced' = raced
    BY <1>19 DEF SweepRow, posting
  <2>2. \A v \in Uploads \ {sweep.at} : row'[v] = row[v]
    BY <1>19 DEF SweepRow, TypeOK
  <2> SUFFICES ASSUME NEW n \in Messages, post[n].phase = "checking",
                      NEW v \in (post[n].names \ post[n].left) \ raced
               PROVE  HasRow(v)' /\ ~row'[v].expired
    BY <2>1 DEF ChecksHold, HasRow
  <2>3. v \in Uploads /\ HasRow(v) /\ ~row[v].expired
    BY PostsName DEF ChecksHold
  <2>4. v # sweep.at
    BY <1>19, <2>3 DEF SweepRow, SweepHolds
  <2> QED
    BY <2>2, <2>3, <2>4 DEF HasRow
<1>20. ASSUME SweepSkips PROVE ChecksHold'
  <2>1. post' = post /\ row' = row /\ raced' = raced
    BY <1>20 DEF SweepSkips, posting
  <2> QED
    BY <2>1 DEF ChecksHold, HasRow
<1>21. ASSUME EndSweep PROVE ChecksHold'
  <2>1. post' = post /\ row' = row /\ raced' = raced
    BY <1>21 DEF EndSweep, posting
  <2> QED
    BY <2>1 DEF ChecksHold, HasRow
<1>22. ASSUME Crash PROVE ChecksHold'
  <2>1. \A n \in Messages : post'[n].phase # "checking"
    <3> TAKE n \in Messages
    <3>1. post[n] \in Posts
      BY DEF TypeOK
    <3>2. post'[n] = IF post[n].phase = "none" THEN post[n] ELSE [post[n] EXCEPT !.phase = "done"]
      BY <1>22 DEF Crash
    <3> QED
      BY <3>1, <3>2 DEF Posts
  <2> QED
    BY <2>1 DEF ChecksHold
<1> QED
  BY <1>1, <1>2, <1>3, <1>4, <1>5, <1>6, <1>7, <1>8, <1>9, <1>10, <1>11, <1>12, <1>13,
     <1>14, <1>15, <1>16, <1>17, <1>18, <1>19, <1>20, <1>21, <1>22 DEF Next

--------------------------------------------------------------------------------
(* The files.                                                                      *)

\* Where no row and no file goes and nothing new is carried, what is carried stays.
LEMMA CarriedStays ==
    ASSUME TypeOK, CarriedFileStays, carries' = carries, raced \subseteq raced',
           \A v \in Uploads : HasRow(v) /\ v \in files => HasRow(v)' /\ v \in files'
    PROVE  CarriedFileStays'
<1> SUFFICES ASSUME NEW m \in Messages, carries[m] # None, NEW v \in carries[m] \ raced'
             PROVE  row'[v] # None /\ v \in files'
  BY DEF CarriedFileStays, Stored
<1>1. carries[m] \subseteq Uploads
  BY DEF TypeOK
<1> QED
  BY <1>1 DEF CarriedFileStays, Stored, HasRow

\* Nothing that a stored message carries is lost.
LEMMA CarriedStep ==
    ASSUME TypeOK, Stages, SweepHolds, ChecksHold, CarriedFileStays, Next
    PROVE  CarriedFileStays'
<1>1. ASSUME NEW u \in Uploads, NEW j \in Threads, Arrive(u, j) PROVE CarriedFileStays'
  <2>1. carries' = carries /\ raced' = raced /\ row' = row /\ files \subseteq files'
    BY <1>1 DEF Arrive, posting
  <2> QED
    BY <2>1, CarriedStays DEF HasRow
<1>2. ASSUME NEW u \in Uploads, QueryStored(u) PROVE CarriedFileStays'
  <2>1. carries' = carries /\ raced' = raced /\ row' = row /\ files \subseteq files'
    BY <1>2 DEF QueryStored, posting
  <2> QED
    BY <2>1, CarriedStays DEF HasRow
<1>3. ASSUME NEW u \in Uploads, Decide(u) PROVE CarriedFileStays'
  <2>1. carries' = carries /\ raced' = raced /\ row' = row /\ files \subseteq files'
    BY <1>3 DEF Decide, posting
  <2> QED
    BY <2>1, CarriedStays DEF HasRow
<1>4. ASSUME NEW u \in Uploads, WriteFiles(u) PROVE CarriedFileStays'
  <2>1. carries' = carries /\ raced' = raced /\ row' = row /\ files \subseteq files'
    BY <1>4 DEF WriteFiles, posting
  <2> QED
    BY <2>1, CarriedStays DEF HasRow
<1>5. ASSUME NEW u \in Uploads, WriteFails(u) PROVE CarriedFileStays'
  <2>1. carries' = carries /\ raced' = raced /\ row' = row /\ files \subseteq files'
    BY <1>5 DEF WriteFails, posting
  <2> QED
    BY <2>1, CarriedStays DEF HasRow
<1>6. ASSUME NEW u \in Uploads, CreateRow(u) PROVE CarriedFileStays'
  <2>1. carries' = carries /\ raced' = raced /\ files' = files
    BY <1>6 DEF CreateRow, posting
  <2>2. row'[u] = [job |-> request[u].job, expired |-> FALSE, message |-> None]
    BY <1>6 DEF CreateRow, TypeOK
  <2>3. request[u].job \in Threads
    BY <1>6 DEF CreateRow, Stages
  <2>4. row'[u] \in Rows
    BY <2>2, <2>3 DEF Rows
  <2>5. row'[u] # None
    BY <2>4, RowsAssumption
  <2>6. \A v \in Uploads \ {u} : row'[v] = row[v]
    BY <1>6 DEF CreateRow, TypeOK
  <2> QED
    BY <2>1, <2>5, <2>6, CarriedStays DEF HasRow
<1>7. ASSUME NEW u \in Uploads, CreateFails(u) PROVE CarriedFileStays'
  <2>1. carries' = carries /\ raced' = raced /\ row' = row /\ files \subseteq files' \cup {u}
    BY <1>7 DEF CreateFails, posting
  <2>2. ~HasRow(u)
    BY <1>7 DEF CreateFails, Stages
  <2> QED
    BY <2>1, <2>2, CarriedStays DEF HasRow
<1>8. ASSUME NEW u \in Uploads, Answer(u) PROVE CarriedFileStays'
  <2>1. carries' = carries /\ raced' = raced /\ row' = row /\ files \subseteq files'
    BY <1>8 DEF Answer, posting
  <2> QED
    BY <2>1, CarriedStays DEF HasRow
<1>9. ASSUME NEW u \in Uploads, SweepLook(u) PROVE CarriedFileStays'
  <2>1. carries' = carries /\ raced' = raced /\ row' = row /\ files \subseteq files'
    BY <1>9 DEF SweepLook, posting
  <2> QED
    BY <2>1, CarriedStays DEF HasRow
<1>10. ASSUME NEW u \in Uploads, Expire(u) PROVE CarriedFileStays'
  <2>1. row[u] \in Rows /\ row'[u] = [row[u] EXCEPT !.expired = TRUE]
    BY <1>10 DEF Expire, TypeOK
  <2>2. row'[u] \in Rows
    BY <2>1 DEF Rows
  <2>3. row'[u] # None
    BY <2>2, RowsAssumption
  <2>4. \A v \in Uploads \ {u} : row'[v] = row[v]
    BY <1>10 DEF Expire, TypeOK
  <2>5. carries' = carries /\ raced \subseteq raced' /\ files' = files
    BY <1>10 DEF Expire, posting
  <2> QED
    BY <2>3, <2>4, <2>5, CarriedStays DEF HasRow
<1>11. ASSUME NEW m \in Messages, NEW j \in Threads, NEW names \in SUBSET Uploads,
   Post(m, j, names) PROVE CarriedFileStays'
  <2>1. carries' = carries /\ raced' = raced /\ row' = row /\ files \subseteq files'
    BY <1>11 DEF Post, posting
  <2> QED
    BY <2>1, CarriedStays DEF HasRow
<1>12. ASSUME NEW m \in Messages, NEW u \in Uploads, Check(m, u) PROVE CarriedFileStays'
  <2>1. carries' = carries /\ raced' = raced /\ row' = row /\ files \subseteq files'
    BY <1>12 DEF Check, posting
  <2> QED
    BY <2>1, CarriedStays DEF HasRow
<1>13. ASSUME NEW m \in Messages, CreateMessage(m) PROVE CarriedFileStays'
  <2>1. row' = row /\ files' = files /\ raced' = raced
    BY <1>13 DEF CreateMessage, uploading
  <2>2. carries'[m] = post[m].names /\ \A n \in Messages \ {m} : carries'[n] = carries[n]
    BY <1>13 DEF CreateMessage, TypeOK
  <2>3. \A v \in post[m].names \ raced : HasRow(v) /\ ~row[v].expired
    BY <1>13 DEF CreateMessage, ChecksHold
  <2>4. \A v \in post[m].names \ raced : HasRow(v) /\ v \in files
    BY <2>3, PostsName DEF Stages
  <2> SUFFICES ASSUME NEW n \in Messages, carries'[n] # None,
     NEW v \in carries'[n] \ raced
               PROVE  row[v] # None /\ v \in files
    BY <2>1 DEF CarriedFileStays, Stored
  <2> QED
    BY <2>2, <2>4 DEF CarriedFileStays, Stored, HasRow
<1>14. ASSUME NEW m \in Messages, MarkSent(m) PROVE CarriedFileStays'
  <2>1. carries' = carries /\ raced' = raced /\ files' = files
    BY <1>14 DEF MarkSent, uploading
  <2> QED
    BY <1>14, <2>1, MarkedRows, CarriedStays DEF MarkSent
<1>15. ASSUME NEW m \in Messages, PostEnds(m) PROVE CarriedFileStays'
  <2>1. carries' = carries /\ raced' = raced /\ row' = row /\ files \subseteq files'
    BY <1>15 DEF PostEnds, posting
  <2> QED
    BY <2>1, CarriedStays DEF HasRow
<1>16. ASSUME NEW j \in Threads, CloseThread(j) PROVE CarriedFileStays'
  <2>1. carries' = carries /\ raced' = raced /\ row' = row /\ files \subseteq files'
    BY <1>16 DEF CloseThread, posting
  <2> QED
    BY <2>1, CarriedStays DEF HasRow
<1>17. ASSUME SweepMark PROVE CarriedFileStays'
  <2>1. carries' = carries /\ raced' = raced /\ files' = files
    BY <1>17 DEF SweepMark, posting
  <2>2. sweep.carrier \in Messages
    BY <1>17 DEF SweepMark, TypeOK
  <2> QED
    BY <1>17, <2>1, <2>2, MarkedRows, CarriedStays DEF SweepMark
<1>18. ASSUME SweepFiles PROVE CarriedFileStays'
  <2>1. carries' = carries /\ raced' = raced /\ row' = row /\ files' = files \ {sweep.at}
    BY <1>18 DEF SweepFiles, posting
  <2>2. \A m \in Carriers(sweep.at) : sweep.at \in raced
    BY <1>18 DEF SweepFiles, SweepHolds
  <2> SUFFICES ASSUME NEW m \in Messages, carries[m] # None,
     NEW v \in carries[m] \ raced
               PROVE  row[v] # None /\ v \in files'
    BY <2>1 DEF CarriedFileStays, Stored
  <2>3. m \in Carriers(v)
    BY DEF Carriers, Stored
  <2>4. v # sweep.at
    BY <2>2, <2>3
  <2> QED
    BY <2>1, <2>4 DEF CarriedFileStays, Stored
<1>19. ASSUME SweepRow PROVE CarriedFileStays'
  <2>1. carries' = carries /\ raced' = raced /\ files' = files
    BY <1>19 DEF SweepRow, posting
  <2>2. sweep.at \notin files
    BY <1>19 DEF SweepRow, SweepHolds
  <2>3. \A v \in Uploads \ {sweep.at} : row'[v] = row[v]
    BY <1>19 DEF SweepRow, TypeOK
  <2> QED
    BY <2>1, <2>2, <2>3, CarriedStays DEF HasRow
<1>20. ASSUME SweepSkips PROVE CarriedFileStays'
  <2>1. carries' = carries /\ raced' = raced /\ row' = row /\ files \subseteq files'
    BY <1>20 DEF SweepSkips, posting
  <2> QED
    BY <2>1, CarriedStays DEF HasRow
<1>21. ASSUME EndSweep PROVE CarriedFileStays'
  <2>1. carries' = carries /\ raced' = raced /\ row' = row /\ files \subseteq files'
    BY <1>21 DEF EndSweep, posting
  <2> QED
    BY <2>1, CarriedStays DEF HasRow
<1>22. ASSUME Crash PROVE CarriedFileStays'
  <2>1. carries' = carries /\ raced' = raced /\ files' = files /\ row' = row
    BY <1>22 DEF Crash
  <2> QED
    BY <2>1, CarriedStays DEF HasRow
<1> QED
  BY <1>1, <1>2, <1>3, <1>4, <1>5, <1>6, <1>7, <1>8, <1>9, <1>10, <1>11, <1>12, <1>13,
     <1>14, <1>15, <1>16, <1>17, <1>18, <1>19, <1>20, <1>21, <1>22 DEF Next

\* Where no row goes, no file comes and no request leaves a file behind, files stay known.
LEMMA KnownStays ==
    ASSUME TypeOK, FilesAreKnown, files' \subseteq files, dropped \subseteq dropped',
           \A v \in files' : /\ HasRow(v) => HasRow(v)'
                             /\ request[v].phase = "written" =>
                                    HasRow(v)' \/ request'[v].phase = "written" \/ v \in dropped'
    PROVE  FilesAreKnown'
BY DEF FilesAreKnown, HasRow

\* No file is left that nothing knows of.
LEMMA KnownStep ==
    ASSUME TypeOK, Stages, SweepHolds, FilesAreKnown, Next
    PROVE  FilesAreKnown'
<1>1. ASSUME NEW u \in Uploads, NEW j \in Threads, Arrive(u, j) PROVE FilesAreKnown'
  <2>1. files' = files /\ dropped' = dropped /\ row' = row /\ request[u].phase = "none"
    BY <1>1 DEF Arrive
  <2>2. \A v \in Uploads \ {u} : request'[v] = request[v]
    BY <1>1 DEF Arrive, TypeOK
  <2>3. files \subseteq Uploads
    BY DEF TypeOK
  <2> QED
    BY <2>1, <2>2, <2>3, KnownStays DEF HasRow
<1>2. ASSUME NEW u \in Uploads, QueryStored(u) PROVE FilesAreKnown'
  <2>1. files' = files /\ dropped' = dropped /\ row' = row /\ request[u].phase = "reading"
    BY <1>2 DEF QueryStored
  <2>2. \A v \in Uploads \ {u} : request'[v] = request[v]
    BY <1>2 DEF QueryStored, TypeOK
  <2>3. files \subseteq Uploads
    BY DEF TypeOK
  <2> QED
    BY <2>1, <2>2, <2>3, KnownStays DEF HasRow
<1>3. ASSUME NEW u \in Uploads, Decide(u) PROVE FilesAreKnown'
  <2>1. files' = files /\ dropped' = dropped /\ row' = row /\ request[u].phase = "queried"
    BY <1>3 DEF Decide
  <2>2. \A v \in Uploads \ {u} : request'[v] = request[v]
    BY <1>3, BeginsToRead, GoesOn DEF Decide
  <2>3. files \subseteq Uploads
    BY DEF TypeOK
  <2> QED
    BY <2>1, <2>2, <2>3, KnownStays DEF HasRow
<1>4. ASSUME NEW u \in Uploads, WriteFiles(u) PROVE FilesAreKnown'
  <2>1. files' = files \cup {u} /\ dropped' = dropped /\ row' = row
    BY <1>4 DEF WriteFiles
  <2>2. request'[u].phase = "written" /\ \A v \in Uploads \ {u} : request'[v] = request[v]
    BY <1>4, GoesOn DEF WriteFiles
  <2>3. files \subseteq Uploads
    BY DEF TypeOK
  <2> QED
    BY <2>1, <2>2, <2>3 DEF FilesAreKnown
<1>5. ASSUME NEW u \in Uploads, WriteFails(u) PROVE FilesAreKnown'
  <2>1. files' = files \cup {u} /\ dropped' = dropped \cup {u} /\ row' = row
    BY <1>5 DEF WriteFails
  <2>2. \A v \in Uploads \ {u} : request'[v].phase = request[v].phase
    BY <1>5, GivenBack DEF WriteFails
  <2>3. files \subseteq Uploads
    BY DEF TypeOK
  <2> QED
    BY <2>1, <2>2, <2>3 DEF FilesAreKnown
<1>6. ASSUME NEW u \in Uploads, CreateRow(u) PROVE FilesAreKnown'
  <2>1. files' = files /\ dropped' = dropped
    BY <1>6 DEF CreateRow
  <2>2. row'[u] = [job |-> request[u].job, expired |-> FALSE, message |-> None]
    BY <1>6 DEF CreateRow, TypeOK
  <2>3. request[u].job \in Threads
    BY <1>6 DEF CreateRow, Stages
  <2>4. row'[u] \in Rows
    BY <2>2, <2>3 DEF Rows
  <2>5. row'[u] # None
    BY <2>4, RowsAssumption
  <2>6. \A v \in Uploads \ {u} : row'[v] = row[v] /\ request'[v] = request[v]
    BY <1>6, GoesOn DEF CreateRow, TypeOK
  <2>7. files \subseteq Uploads
    BY DEF TypeOK
  <2> QED
    BY <2>1, <2>5, <2>6, <2>7, KnownStays DEF HasRow
<1>7. ASSUME NEW u \in Uploads, CreateFails(u) PROVE FilesAreKnown'
  <2>1. /\ files' \subseteq files /\ dropped \subseteq dropped' /\ row' = row
        /\ u \notin files' \/ u \in dropped'
    BY <1>7 DEF CreateFails
  <2>2. \A v \in Uploads \ {u} : request'[v].phase = request[v].phase
    BY <1>7, GivenBack DEF CreateFails
  <2>3. files' \subseteq Uploads
    BY <2>1 DEF TypeOK
  <2> QED
    BY <2>1, <2>2, <2>3, KnownStays DEF HasRow
<1>8. ASSUME NEW u \in Uploads, Answer(u) PROVE FilesAreKnown'
  <2>1. files' = files /\ dropped' = dropped /\ row' = row /\ request[u].phase # "written"
    BY <1>8 DEF Answer
  <2>2. \A v \in Uploads \ {u} : request'[v].phase = request[v].phase
    BY <1>8, GivenBack DEF Answer
  <2>3. files \subseteq Uploads
    BY DEF TypeOK
  <2> QED
    BY <2>1, <2>2, <2>3, KnownStays DEF HasRow
<1>9. ASSUME NEW u \in Uploads, SweepLook(u) PROVE FilesAreKnown'
  <2>1. files' = files /\ dropped' = dropped /\ request' = request /\ row' = row
    BY <1>9 DEF SweepLook, uploading
  <2> QED
    BY <2>1, KnownStays DEF HasRow
<1>10. ASSUME NEW u \in Uploads, Expire(u) PROVE FilesAreKnown'
  <2>1. row[u] \in Rows /\ row'[u] = [row[u] EXCEPT !.expired = TRUE]
    BY <1>10 DEF Expire, TypeOK
  <2>2. row'[u] \in Rows
    BY <2>1 DEF Rows
  <2>3. row'[u] # None
    BY <2>2, RowsAssumption
  <2>4. \A v \in Uploads \ {u} : row'[v] = row[v]
    BY <1>10 DEF Expire, TypeOK
  <2>5. files' = files /\ dropped' = dropped /\ request' = request
    BY <1>10 DEF Expire, uploading
  <2>6. files \subseteq Uploads
    BY DEF TypeOK
  <2> QED
    BY <2>3, <2>4, <2>5, <2>6, KnownStays DEF HasRow
<1>11. ASSUME NEW m \in Messages, NEW j \in Threads, NEW names \in SUBSET Uploads,
   Post(m, j, names) PROVE FilesAreKnown'
  <2>1. files' = files /\ dropped' = dropped /\ request' = request /\ row' = row
    BY <1>11 DEF Post, uploading
  <2> QED
    BY <2>1, KnownStays DEF HasRow
<1>12. ASSUME NEW m \in Messages, NEW u \in Uploads, Check(m, u) PROVE FilesAreKnown'
  <2>1. files' = files /\ dropped' = dropped /\ request' = request /\ row' = row
    BY <1>12 DEF Check, uploading
  <2> QED
    BY <2>1, KnownStays DEF HasRow
<1>13. ASSUME NEW m \in Messages, CreateMessage(m) PROVE FilesAreKnown'
  <2>1. files' = files /\ dropped' = dropped /\ request' = request /\ row' = row
    BY <1>13 DEF CreateMessage, uploading
  <2> QED
    BY <2>1, KnownStays DEF HasRow
<1>14. ASSUME NEW m \in Messages, MarkSent(m) PROVE FilesAreKnown'
  <2>1. files' = files /\ dropped' = dropped /\ request' = request
    BY <1>14 DEF MarkSent, uploading
  <2>2. files \subseteq Uploads
    BY DEF TypeOK
  <2>3. \A v \in Uploads : HasRow(v)' <=> HasRow(v)
    BY <1>14, MarkedRows DEF MarkSent
  <2> QED
    BY <2>1, <2>2, <2>3, KnownStays
<1>15. ASSUME NEW m \in Messages, PostEnds(m) PROVE FilesAreKnown'
  <2>1. files' = files /\ dropped' = dropped /\ request' = request /\ row' = row
    BY <1>15 DEF PostEnds, uploading
  <2> QED
    BY <2>1, KnownStays DEF HasRow
<1>16. ASSUME NEW j \in Threads, CloseThread(j) PROVE FilesAreKnown'
  <2>1. files' = files /\ dropped' = dropped /\ request' = request /\ row' = row
    BY <1>16 DEF CloseThread, uploading
  <2> QED
    BY <2>1, KnownStays DEF HasRow
<1>17. ASSUME SweepMark PROVE FilesAreKnown'
  <2>1. files' = files /\ dropped' = dropped /\ request' = request
    BY <1>17 DEF SweepMark, uploading
  <2>2. files \subseteq Uploads /\ sweep.carrier \in Messages
    BY <1>17 DEF TypeOK, SweepMark
  <2>3. \A v \in Uploads : HasRow(v)' <=> HasRow(v)
    BY <1>17, <2>2, MarkedRows DEF SweepMark
  <2> QED
    BY <2>1, <2>2, <2>3, KnownStays
<1>18. ASSUME SweepFiles PROVE FilesAreKnown'
  <2>1. files' \subseteq files /\ dropped' = dropped /\ request' = request /\ row' = row
    BY <1>18 DEF SweepFiles, uploading
  <2> QED
    BY <2>1, KnownStays DEF HasRow
<1>19. ASSUME SweepRow PROVE FilesAreKnown'
  <2>1. files' = files /\ dropped' = dropped /\ request' = request
    BY <1>19 DEF SweepRow, uploading
  <2>2. sweep.at \notin files
    BY <1>19 DEF SweepRow, SweepHolds
  <2>3. \A v \in Uploads \ {sweep.at} : row'[v] = row[v]
    BY <1>19 DEF SweepRow, TypeOK
  <2>4. files \subseteq Uploads
    BY DEF TypeOK
  <2> QED
    BY <2>1, <2>2, <2>3, <2>4, KnownStays DEF HasRow
<1>20. ASSUME SweepSkips PROVE FilesAreKnown'
  <2>1. files' = files /\ dropped' = dropped /\ request' = request /\ row' = row
    BY <1>20 DEF SweepSkips, uploading
  <2> QED
    BY <2>1, KnownStays DEF HasRow
<1>21. ASSUME EndSweep PROVE FilesAreKnown'
  <2>1. sweep.by \in Uploads /\ request[sweep.by].phase = "sweeping"
    BY <1>21 DEF EndSweep, SweepHolds, TypeOK
  <2>2. \A v \in Uploads \ {sweep.by} : request'[v] = request[v]
    BY <1>21, <2>1, BeginsToRead DEF EndSweep
  <2>3. files' = files /\ dropped' = dropped /\ row' = row /\ files \subseteq Uploads
    BY <1>21 DEF EndSweep, TypeOK
  <2> QED
    BY <2>1, <2>2, <2>3, KnownStays DEF HasRow
<1>22. ASSUME Crash PROVE FilesAreKnown'
  <2>1. files' = files /\ row' = row /\ files \subseteq Uploads
    BY <1>22 DEF Crash, TypeOK
  <2>2. dropped' = dropped \cup {v \in Uploads : request[v].phase = "written"}
    BY <1>22 DEF Crash
  <2> QED
    BY <2>1, <2>2, KnownStays DEF HasRow
<1> QED
  BY <1>1, <1>2, <1>3, <1>4, <1>5, <1>6, <1>7, <1>8, <1>9, <1>10, <1>11, <1>12, <1>13,
     <1>14, <1>15, <1>16, <1>17, <1>18, <1>19, <1>20, <1>21, <1>22 DEF Next

--------------------------------------------------------------------------------
(* The quota.                                                                      *)

InFlight == {u \in Uploads : request[u].phase \in {"held", "written"}}

\* What is unsent, and what of it one job has.
UnsentOf(j) == {u \in InFlight \cup Counting : request[u].job = j}

\* The quota speaks of finite sets.
LEMMA QuotaSays ==
    /\ QuotaKept <=> /\ Cardinality(InFlight \cup Counting) <= AccountCap
                     /\ \A j \in Threads : Cardinality(UnsentOf(j)) <= JobCap
    /\ \A S \in SUBSET Uploads : IsFiniteSet(S) /\ Cardinality(S) \in Nat
    /\ InFlight \cup Counting \subseteq Uploads
    /\ \A j : UnsentOf(j) \subseteq Uploads
<1>1. \A S \in SUBSET Uploads : IsFiniteSet(S) /\ Cardinality(S) \in Nat
  BY UploadsAssumption, FS_Subset, FS_CardinalityType
<1>2. InFlight \cup Counting \subseteq Uploads
  BY DEF InFlight, Counting
<1> QED
  BY <1>1, <1>2 DEF QuotaKept, UnsentOf, InFlight

\* Fewer uploads unsent stay within both caps.
LEMMA FewerAreKept ==
    ASSUME TypeOK, QuotaKept,
           InFlight' \cup Counting' \subseteq InFlight \cup Counting,
           \A v \in InFlight' \cup Counting' : request'[v].job = request[v].job
    PROVE  QuotaKept'
<1>2. \A j : {u \in InFlight' \cup Counting' : request'[u].job = j} \subseteq UnsentOf(j)
  BY DEF UnsentOf
<1>3. Cardinality(InFlight' \cup Counting') <= Cardinality(InFlight \cup Counting)
  BY QuotaSays, FS_Subset
<1>4. \A j : Cardinality({u \in InFlight' \cup Counting' : request'[u].job = j})
                 <= Cardinality(UnsentOf(j))
  BY <1>2, QuotaSays, FS_Subset
<1>5. /\ Cardinality(InFlight' \cup Counting') \in Nat
      /\ \A j : Cardinality({u \in InFlight' \cup Counting' : request'[u].job = j}) \in Nat
  <2>1. InFlight' \cup Counting' \in SUBSET Uploads
    BY QuotaSays
  <2>2. \A j : {u \in InFlight' \cup Counting' : request'[u].job = j} \in SUBSET Uploads
    BY <2>1
  <2> QED
    BY <2>1, <2>2, QuotaSays
<1>6. /\ Cardinality(InFlight \cup Counting) \in Nat
      /\ \A j : Cardinality(UnsentOf(j)) \in Nat
  BY QuotaSays
<1>7. /\ Cardinality(InFlight \cup Counting) <= AccountCap
      /\ \A j \in Threads : Cardinality(UnsentOf(j)) <= JobCap
  BY QuotaSays
<1>8. Cardinality(InFlight' \cup Counting') <= AccountCap
  BY <1>3, <1>5, <1>6, <1>7, UploadsAssumption
<1>9. ASSUME NEW j \in Threads
      PROVE  Cardinality({u \in InFlight' \cup Counting' : request'[u].job = j}) <= JobCap
  <2> DEFINE n == Cardinality({u \in InFlight' \cup Counting' : request'[u].job = j})
             before == Cardinality(UnsentOf(j))
  <2>1. n <= before /\ n \in Nat /\ before \in Nat /\ before <= JobCap
    BY <1>4, <1>5, <1>6, <1>7
  <2> HIDE DEF n, before
  <2>2. n <= JobCap
    BY <2>1, UploadsAssumption
  <2> QED
    BY <2>2 DEF n
<1> QED
  BY <1>8, <1>9 DEF QuotaKept, InFlight

\* What is unsent is counted, by a read that nothing was given back during.
LEMMA UnsentIsCounted ==
    ASSUME TypeOK, Stages, CountsHold, NEW u \in Uploads,
           request[u].phase = "queried", ~request[u].stale
    PROVE  InFlight \cup Counting \subseteq
               {v \in request[u].seen : row[v] # None => ~row[v].expired}
               \cup (held \ request[u].seen)
<1>1. /\ \A v \in request[u].seen : request[v].phase \in {"created", "done"}
      /\ Counting \subseteq request[u].seen \cup held
  BY DEF CountsHold
<1>2. InFlight \subseteq held \ request[u].seen
  BY <1>1 DEF InFlight, Stages, Placed
<1>3. \A v \in Counting : row[v] # None => ~row[v].expired
  BY DEF Counting
<1> QED
  BY <1>1, <1>2, <1>3

\* An upload that is admitted adds one to fewer than the caps allow.
LEMMA OneMore ==
    ASSUME TypeOK, Stages, CountsHold, QuotaKept, NEW u \in Uploads,
           request[u].phase = "queried", ~request[u].stale, ~CapReached(u),
           InFlight' = InFlight \cup {u}, Counting' = Counting,
           \A v \in Uploads : request'[v].job = request[v].job
    PROVE  QuotaKept'
<1> DEFINE counted == {v \in request[u].seen : row[v] # None => ~row[v].expired}
                      \cup (held \ request[u].seen)
           mine == {v \in counted : request[v].job = request[u].job}
           before == InFlight \cup Counting
           after == InFlight' \cup Counting'
           afterOf(j) == {v \in after : request'[v].job = j}
<1>1. request[u] \in Requests
  BY DEF TypeOK
<1>2. counted \subseteq Uploads
  BY <1>1 DEF TypeOK, Requests
<1>3. before \subseteq counted
  BY UnsentIsCounted
<1>4. ~(Cardinality(mine) >= JobCap) /\ ~(Cardinality(counted) >= AccountCap)
  BY DEF CapReached
<1>5. after = before \cup {u} /\ before \subseteq Uploads
  BY QuotaSays
<1>6. Cardinality(before) \in Nat /\ Cardinality(counted) \in Nat /\ Cardinality(mine) \in Nat
  <2>1. mine \in SUBSET Uploads /\ before \in SUBSET Uploads /\ counted \in SUBSET Uploads
    BY <1>2, <1>5
  <2> HIDE DEF mine, before, counted
  <2> QED
    BY <2>1, QuotaSays
<1>7. u \notin before
  BY DEF InFlight, Counting, Unsent, Stages, HasRow
<1>8. Cardinality(after) <= AccountCap
  <2> HIDE DEF before, counted, mine, after
  <2>1. IsFiniteSet(before) /\ IsFiniteSet(counted)
    BY <1>2, <1>5, QuotaSays
  <2>2. Cardinality(before) <= Cardinality(counted)
    BY <1>3, <2>1, FS_Subset
  <2>3. Cardinality(after) = Cardinality(before) + 1
    BY <1>5, <1>7, <2>1, FS_AddElement
  <2> QED
    BY <1>4, <1>6, <2>2, <2>3, UploadsAssumption
<1>9. ASSUME NEW j \in Threads PROVE Cardinality(afterOf(j)) <= JobCap
  <2>1. CASE request[u].job = j
    <3> DEFINE beforeOf == {v \in before : request[v].job = j}
    <3>1. afterOf(j) = beforeOf \cup {u} /\ u \notin beforeOf
      BY <1>5, <1>7, <2>1
    <3>2. beforeOf \subseteq mine
      BY <1>3, <2>1
    <3>3. mine \in SUBSET Uploads /\ beforeOf \in SUBSET Uploads
      BY <1>2, <1>5
    <3> HIDE DEF beforeOf, mine, afterOf, counted
    <3>4. IsFiniteSet(beforeOf) /\ Cardinality(beforeOf) \in Nat /\ IsFiniteSet(mine)
      BY <3>3, QuotaSays
    <3>5. Cardinality(beforeOf) <= Cardinality(mine)
      BY <3>2, <3>4, FS_Subset
    <3>6. Cardinality(afterOf(j)) = Cardinality(beforeOf) + 1
      BY <3>1, <3>4, FS_AddElement
    <3> QED
      BY <1>4, <1>6, <3>4, <3>5, <3>6, UploadsAssumption
  <2>2. CASE request[u].job # j
    <3>1. afterOf(j) = UnsentOf(j)
      BY <1>5, <2>2 DEF UnsentOf
    <3> QED
      BY <3>1, QuotaSays
  <2> QED
    BY <2>1, <2>2
<1> QED
  BY <1>8, <1>9 DEF QuotaKept, InFlight

\* However many are admitted at once, no more are unsent than the caps allow.
LEMMA QuotaStep ==
    ASSUME TypeOK, Stages, SweepHolds, CountsHold, QuotaKept, Next
    PROVE  QuotaKept'
<1>1. ASSUME NEW u \in Uploads, NEW j \in Threads, Arrive(u, j) PROVE QuotaKept'
  <2>1. request'[u].phase \in {"reading", "sweeping"} /\ request[u].phase = "none"
    BY <1>1 DEF Arrive, TypeOK
  <2>2. \A v \in Uploads \ {u} : request'[v] = request[v]
    BY <1>1 DEF Arrive, TypeOK
  <2>3. Counting' = Counting /\ u \notin Counting
    BY <1>1, <2>1 DEF Arrive, Counting, Unsent, Stages, HasRow
  <2>4. Counting \subseteq Uploads
    BY DEF Counting
  <2> QED
    BY <2>1, <2>2, <2>3, <2>4, FewerAreKept DEF InFlight
<1>2. ASSUME NEW u \in Uploads, QueryStored(u) PROVE QuotaKept'
  <2>1. /\ request'[u].phase = "queried" /\ request'[u].job = request[u].job
        /\ \A v \in Uploads \ {u} : request'[v] = request[v]
    BY <1>2 DEF QueryStored, TypeOK, Requests
  <2>2. Counting' = Counting /\ Counting \subseteq Uploads
    BY <1>2 DEF QueryStored, Counting, Unsent
  <2> QED
    BY <2>1, <2>2, FewerAreKept DEF InFlight
<1>3. ASSUME NEW u \in Uploads, Decide(u) PROVE QuotaKept'
  <2>1. Counting' = Counting /\ Counting \subseteq Uploads /\ request[u].phase = "queried"
    BY <1>3 DEF Decide, Counting, Unsent
  <2>2. CASE request' = BeginRead(u)
    BY <2>1, <2>2, BeginsToRead, FewerAreKept DEF InFlight
  <2>3. CASE Goes(u, "done")
    BY <2>1, <2>3, GoesOn, FewerAreKept DEF InFlight
  <2>4. CASE ~request[u].stale /\ ~CapReached(u) /\ Goes(u, "held")
    <3>1. /\ request'[u].phase = "held" /\ request'[u].job = request[u].job
          /\ \A v \in Uploads \ {u} : request'[v] = request[v]
      BY <2>4, GoesOn
    <3>2. InFlight' = InFlight \cup {u} /\ \A v \in Uploads : request'[v].job = request[v].job
      BY <3>1 DEF InFlight
    <3> QED
      BY <2>1, <2>4, <3>2, OneMore
  <2> QED
    BY <1>3, <2>2, <2>3, <2>4 DEF Decide
<1>4. ASSUME NEW u \in Uploads, WriteFiles(u) PROVE QuotaKept'
  <2>1. Counting' = Counting /\ Counting \subseteq Uploads /\ request[u].phase = "held"
    BY <1>4 DEF WriteFiles, Counting, Unsent
  <2> QED
    BY <1>4, <2>1, GoesOn, FewerAreKept DEF InFlight, WriteFiles
<1>5. ASSUME NEW u \in Uploads, WriteFails(u) PROVE QuotaKept'
  <2>1. Counting' = Counting /\ Counting \subseteq Uploads /\ Released(u)
    BY <1>5 DEF WriteFails, Counting, Unsent
  <2> QED
    BY <2>1, GivenBack, FewerAreKept DEF InFlight
<1>6. ASSUME NEW u \in Uploads, CreateRow(u) PROVE QuotaKept'
  <2>1. request[u].phase = "written" /\ Counting' \subseteq Counting \cup {u}
    BY <1>6 DEF CreateRow, Counting, Unsent, TypeOK
  <2>2. /\ request'[u].phase = "created" /\ request'[u].job = request[u].job
        /\ \A v \in Uploads \ {u} : request'[v] = request[v]
    BY <1>6, GoesOn DEF CreateRow
  <2>3. Counting \subseteq Uploads
    BY DEF Counting
  <2> QED
    BY <2>1, <2>2, <2>3, FewerAreKept DEF InFlight
<1>7. ASSUME NEW u \in Uploads, CreateFails(u) PROVE QuotaKept'
  <2>1. Counting' = Counting /\ Counting \subseteq Uploads /\ Released(u)
    BY <1>7 DEF CreateFails, Counting, Unsent
  <2> QED
    BY <2>1, GivenBack, FewerAreKept DEF InFlight
<1>8. ASSUME NEW u \in Uploads, Answer(u) PROVE QuotaKept'
  <2>1. Counting' = Counting /\ Counting \subseteq Uploads /\ Released(u)
    BY <1>8 DEF Answer, Counting, Unsent
  <2> QED
    BY <2>1, GivenBack, FewerAreKept DEF InFlight
<1>9. ASSUME NEW u \in Uploads, SweepLook(u) PROVE QuotaKept'
  <2>1. request' = request /\ Counting' \subseteq Counting
    BY <1>9 DEF SweepLook, uploading, Counting, Unsent
  <2> QED
    BY <2>1, FewerAreKept DEF InFlight
<1>10. ASSUME NEW u \in Uploads, Expire(u) PROVE QuotaKept'
  <2>1. row[u] \in Rows /\ row'[u] = [row[u] EXCEPT !.expired = TRUE]
    BY <1>10 DEF Expire, TypeOK
  <2>2. row'[u].expired /\ \A v \in Uploads \ {u} : row'[v] = row[v]
    BY <1>10, <2>1 DEF Expire, TypeOK, Rows
  <2>3. request' = request /\ Counting' \subseteq Counting
    BY <1>10, <2>2 DEF Expire, uploading, Counting, Unsent
  <2> QED
    BY <2>3, FewerAreKept DEF InFlight
<1>11. ASSUME NEW m \in Messages, NEW j \in Threads, NEW names \in SUBSET Uploads,
   Post(m, j, names) PROVE QuotaKept'
  <2>1. request' = request /\ Counting' \subseteq Counting
    BY <1>11 DEF Post, uploading, Counting, Unsent
  <2> QED
    BY <2>1, FewerAreKept DEF InFlight
<1>12. ASSUME NEW m \in Messages, NEW u \in Uploads, Check(m, u) PROVE QuotaKept'
  <2>1. request' = request /\ Counting' \subseteq Counting
    BY <1>12 DEF Check, uploading, Counting, Unsent
  <2> QED
    BY <2>1, FewerAreKept DEF InFlight
<1>13. ASSUME NEW m \in Messages, CreateMessage(m) PROVE QuotaKept'
  <2>1. request' = request /\ Counting' \subseteq Counting
    BY <1>13 DEF CreateMessage, uploading, Counting, Unsent
  <2> QED
    BY <2>1, FewerAreKept DEF InFlight
<1>14. ASSUME NEW m \in Messages, MarkSent(m) PROVE QuotaKept'
  <2>1. request' = request /\ Counting' \subseteq Counting
    BY <1>14, MarkedRows DEF MarkSent, uploading, Counting, Unsent, HasRow
  <2> QED
    BY <2>1, FewerAreKept DEF InFlight
<1>15. ASSUME NEW m \in Messages, PostEnds(m) PROVE QuotaKept'
  <2>1. request' = request /\ Counting' \subseteq Counting
    BY <1>15 DEF PostEnds, uploading, Counting, Unsent
  <2> QED
    BY <2>1, FewerAreKept DEF InFlight
<1>16. ASSUME NEW j \in Threads, CloseThread(j) PROVE QuotaKept'
  <2>1. request' = request /\ Counting' \subseteq Counting
    BY <1>16 DEF CloseThread, uploading, Counting, Unsent
  <2> QED
    BY <2>1, FewerAreKept DEF InFlight
<1>17. ASSUME SweepMark PROVE QuotaKept'
  <2>1. sweep.carrier \in Messages
    BY <1>17 DEF SweepMark, TypeOK
  <2>2. request' = request /\ Counting' \subseteq Counting
    BY <1>17, <2>1, MarkedRows DEF SweepMark, uploading, Counting, Unsent, HasRow
  <2> QED
    BY <2>2, FewerAreKept DEF InFlight
<1>18. ASSUME SweepFiles PROVE QuotaKept'
  <2>1. request' = request /\ Counting' \subseteq Counting
    BY <1>18 DEF SweepFiles, uploading, Counting, Unsent
  <2> QED
    BY <2>1, FewerAreKept DEF InFlight
<1>19. ASSUME SweepRow PROVE QuotaKept'
  <2>1. request' = request /\ Counting' \subseteq Counting
    BY <1>19 DEF SweepRow, uploading, Counting, Unsent, TypeOK
  <2> QED
    BY <2>1, FewerAreKept DEF InFlight
<1>20. ASSUME SweepSkips PROVE QuotaKept'
  <2>1. request' = request /\ Counting' \subseteq Counting
    BY <1>20 DEF SweepSkips, uploading, Counting, Unsent
  <2> QED
    BY <2>1, FewerAreKept DEF InFlight
<1>21. ASSUME EndSweep PROVE QuotaKept'
  <2>1. sweep.by \in Uploads /\ request[sweep.by].phase = "sweeping"
    BY <1>21 DEF EndSweep, SweepHolds, TypeOK
  <2>2. /\ request'[sweep.by].phase = "reading" /\ request'[sweep.by].job = request[sweep.by].job
        /\ \A v \in Uploads \ {sweep.by} : request'[v] = request[v]
    BY <1>21, <2>1, BeginsToRead DEF EndSweep
  <2>3. Counting' = Counting /\ Counting \subseteq Uploads
    BY <1>21 DEF EndSweep, Counting, Unsent
  <2> QED
    BY <2>1, <2>2, <2>3, FewerAreKept DEF InFlight
<1>22. ASSUME Crash PROVE QuotaKept'
  <2>1. ASSUME NEW v \in Uploads
        PROVE  request'[v].job = request[v].job /\ request'[v].phase \in {"none",
           "done"}
    <3>1. request[v] \in Requests
      BY DEF TypeOK
    <3>2. request'[v] = IF request[v].phase = "none" THEN request[v]
                        ELSE [request[v] EXCEPT !.phase = "done", !.seen = {},
                           !.stale = FALSE]
      BY <1>22 DEF Crash
    <3> QED
      BY <3>1, <3>2 DEF Requests
  <2>2. Counting' = Counting /\ Counting \subseteq Uploads
    BY <1>22 DEF Crash, Counting, Unsent
  <2> QED
    BY <2>1, <2>2, FewerAreKept DEF InFlight
<1> QED
  BY <1>1, <1>2, <1>3, <1>4, <1>5, <1>6, <1>7, <1>8, <1>9, <1>10, <1>11, <1>12, <1>13,
     <1>14, <1>15, <1>16, <1>17, <1>18, <1>19, <1>20, <1>21, <1>22 DEF Next

--------------------------------------------------------------------------------
(* The theorems.                                                                   *)

\* Nothing has been uploaded when the process starts.
LEMMA InitHolds ==
    ASSUME Init
    PROVE  IInv
<1>1. TypeOK
  BY DEF Init, TypeOK, Requests, Posts, NoSweep
<1>2. Stages /\ CountsHold /\ SweepHolds /\ ChecksHold
  BY DEF Init, Stages, Placed, HasRow, CountsHold, SweepHolds, NoSweep, ChecksHold
<1>3. FilesAreKept
  BY DEF Init, FilesAreKept, CarriedFileStays, FilesAreKnown, Stored
<1>4. QuotaKept
  <2>1. InFlight \cup Counting = {} /\ \A j : UnsentOf(j) = {}
    BY DEF Init, InFlight, Counting, Unsent, UnsentOf
  <2>2. Cardinality({}) = 0
    BY FS_EmptySet
  <2> QED
    BY <2>1, <2>2, QuotaSays, UploadsAssumption
<1> QED
  BY <1>1, <1>2, <1>3, <1>4 DEF IInv

\* Whatever the requests, the posts, the sweep, time and crashes do, the invariant holds.
THEOREM UploadsInvariant == Spec => []IInv
<1>1. Init => IInv
  BY InitHolds
<1>2. IInv /\ [Next]_vars => IInv'
  <2> SUFFICES ASSUME IInv, [Next]_vars PROVE IInv'
    OBVIOUS
  <2>1. CASE Next
    <3>1. TypeOK' /\ Stages' /\ CountsHold'
      BY <2>1, TypeStep, StagesStep, CountsStep DEF IInv
    <3>2. SweepHolds' /\ ChecksHold'
      BY <2>1, SweepStep, ChecksStep DEF IInv
    <3>3. CarriedFileStays' /\ FilesAreKnown' /\ QuotaKept'
      BY <2>1, CarriedStep, KnownStep, QuotaStep DEF IInv, FilesAreKept
    <3> QED
      BY <3>1, <3>2, <3>3 DEF IInv, FilesAreKept
  <2>2. CASE UNCHANGED vars
    <3>1. TypeOK' /\ Stages' /\ CountsHold'
      BY <2>2 DEF IInv, vars, TypeOK, Stages, Placed, HasRow, CountsHold, Counting, Unsent
    <3>2. SweepHolds' /\ ChecksHold'
      BY <2>2 DEF IInv, vars, SweepHolds, ChecksHold, HasRow, Carriers, Stored
    <3>3. FilesAreKept' /\ QuotaKept'
      BY <2>2 DEF IInv, vars, FilesAreKept, CarriedFileStays, FilesAreKnown, Stored,
         QuotaKept, Counting, Unsent
    <3> QED
      BY <3>1, <3>2, <3>3 DEF IInv
  <2> QED
    BY <2>1, <2>2
<1> QED
  BY <1>1, <1>2, PTL DEF Spec

\* The state stays of its type.
THEOREM UploadsAreTyped == Spec => []TypeOK
BY UploadsInvariant, PTL DEF IInv

\* However many uploads arrive at once, what is admitted and what is stored unsent never
\* passes the caps: no upload is for a moment in neither the rows nor the places.
THEOREM QuotaHolds == Spec => []QuotaKept
BY UploadsInvariant, PTL DEF IInv

\* No stored message loses a file it carries and no file is left that nothing knows of,
\* but through the failures the code names.
THEOREM FilesStay == Spec => []FilesAreKept
BY UploadsInvariant, PTL DEF IInv
--------------------------------------------------------------------------------
(* What one party has read. A mark on its way was sent by a page whose lines had    *)
(* been looked at, and what stands on a page that is looked at is read or about to   *)
(* be: some mark of the tab is still to be stamped, or was stamped no earlier than    *)
(* the line was written. An instant that marks are stamped with hides only lines      *)
(* that were seen, written at that very instant, or not yet on the page.              *)

\* Whatever was written by then was seen, or stamped over before its page had it.
Covered(instant) ==
    \A m \in Lines : sent[m] # None /\ sent[m] <= instant =>
        m \in seen \cup unshown \/ sent[m] = instant

\* No instant is of the future.
Past(instant) == instant \in Reading!Times /\ instant <= now

InstantsArePast ==
    /\ \A m \in Reading!Written : Past(sent[m])
    /\ readAt # None => Past(readAt)
    /\ \A k \in marks : /\ k.step \in {"stamped", "recorded"} => Past(k.at)
                        /\ k.step = "stamped" /\ k.copy # None => Past(k.copy)
    /\ \A t \in Tabs : tab[t] # None /\ tab[t].clear # None => Past(tab[t].clear)

\* What stands on a page was written; what a page that is looked at shows was seen, and
\* so was what a mark was sent with.
PagesAreReal ==
    /\ \A t \in Tabs : events[t] \subseteq Reading!Written
    /\ \A t \in Tabs : tab[t] # None => tab[t].shown \subseteq Reading!Written
    /\ \A t \in Tabs : Reading!Open(t) /\ tab[t].visible => tab[t].shown \subseteq seen
    /\ \A k \in marks : k.shown \subseteq seen

StampsCover ==
    /\ readAt # None => Covered(readAt)
    /\ \A k \in marks : k.step = "stamped" =>
           Covered(k.at) /\ (k.copy # None => Covered(k.copy))

\* An instant that was recorded holds, unless an older one was recorded over it.
Holds(instant) == readAt # None /\ readAt >= instant

RecordedHolds ==
    ~crossed => \A k \in marks : k.step = "recorded" => Holds(k.at)

\* Some mark of this tab will still make the line read.
WillBeRead(t, m) ==
    \E k \in marks : /\ k.tab = t
                     /\ k.step = "sent" \/ (k.step = "stamped" /\ sent[m] <= k.at)

ShownIsMarked ==
    ~crossed => \A t \in Tabs : Reading!Open(t) /\ tab[t].visible =>
        \A m \in tab[t].shown : Holds(sent[m]) \/ WillBeRead(t, m)

\* Nothing older than the instant a list was counted at is unread.
NothingOlder(instant) ==
    \A m \in Reading!Written : sent[m] < instant => Holds(sent[m])

ListsAreClear ==
    ~crossed => \A t \in Tabs : tab[t] # None /\ tab[t].clear # None =>
        NothingOlder(tab[t].clear)

InboxInv ==
    /\ Reading!TypeOK
    /\ InstantsArePast
    /\ PagesAreReal
    /\ StampsCover
    /\ RecordedHolds
    /\ ShownIsMarked
    /\ ListsAreClear

--------------------------------------------------------------------------------
(* What one step makes of the tabs and of the marks.                               *)

\* A step moved this tab only, and it shows that now.
NowShows(t, mode, visible, shown, clear) ==
    /\ tab' \in [Tabs -> Reading!OrNone(Reading!Views)]
    /\ \A u \in Tabs \ {t} : tab'[u] = tab[u]
    /\ tab'[t] # None
    /\ tab'[t].mode = mode /\ tab'[t].visible = visible
    /\ tab'[t].shown = shown /\ tab'[t].clear = clear

LEMMA ViewMoves ==
    ASSUME NEW v \in Reading!Views
    PROVE  /\ LET w == [v EXCEPT !.mode = "open"]
              IN  /\ w \in Reading!Views /\ w.mode = "open" /\ w.visible = v.visible
                  /\ w.shown = v.shown /\ w.clear = v.clear
           /\ \A visible \in BOOLEAN :
              LET w == [v EXCEPT !.visible = visible]
              IN  /\ w \in Reading!Views /\ w.mode = v.mode /\ w.visible = visible
                  /\ w.shown = v.shown /\ w.clear = v.clear
BY DEF Reading!Views

LEMMA ViewGrows ==
    ASSUME NEW v \in Reading!Views, NEW m \in Lines
    PROVE  LET w == [v EXCEPT !.shown = @ \cup {m}]
           IN  /\ w \in Reading!Views /\ w.mode = v.mode /\ w.visible = v.visible
               /\ w.shown = v.shown \cup {m} /\ w.clear = v.clear
BY DEF Reading!Views

LEMMA ViewTells ==
    ASSUME NEW v \in Reading!Views, NEW clear \in Reading!OrNone(Reading!Times)
    PROVE  LET w == [v EXCEPT !.clear = clear]
           IN  /\ w \in Reading!Views /\ w.mode = v.mode /\ w.visible = v.visible
               /\ w.shown = v.shown /\ w.clear = clear
BY DEF Reading!Views

LEMMA ViewFields ==
    ASSUME Reading!TypeOK, NEW t \in Tabs, tab[t] # None
    PROVE  /\ tab[t] \in Reading!Views /\ tab[t].visible \in BOOLEAN /\ tab[t].shown \subseteq Lines
           /\ tab[t].mode \in {"loading", "open"} /\ tab[t].clear \in Reading!OrNone(Reading!Times)
BY DEF Reading!TypeOK, Reading!OrNone, Reading!Views

\* One tab was put to v.
LEMMA TabPut ==
    ASSUME Reading!TypeOK, NEW t \in Tabs, NEW v \in Reading!Views,
       tab' = [tab EXCEPT ![t] = v]
    PROVE  NowShows(t, v.mode, v.visible, v.shown, v.clear)
<1>1. tab' \in [Tabs -> Reading!OrNone(Reading!Views)] /\ tab'[t] = v /\ \A u \in Tabs \ {t} : tab'[u] = tab[u]
  BY DEF Reading!TypeOK, Reading!OrNone
<1> QED
  BY <1>1, ReadingAssumption DEF NowShows

\* The answer to a mark changes nothing of a page but the count of its list.
SameView(t) ==
    /\ tab[t] # None
    /\ tab'[t].mode = tab[t].mode /\ tab'[t].visible = tab[t].visible
    /\ tab'[t].shown = tab[t].shown

LEMMA AnsweredShows ==
    ASSUME Reading!TypeOK, NEW k \in marks, Reading!Answered(k)
    PROVE  \A t \in Tabs : tab'[t] # None => SameView(t)
<1> SUFFICES ASSUME NEW t \in Tabs, tab'[t] # None PROVE SameView(t)
  OBVIOUS
<1>1. CASE t = k.tab /\ Reading!Open(t)
  <2>1. tab[t] \in Reading!Views /\ tab[t] # None
    BY <1>1, ViewFields DEF Reading!Open
  <2>2. tab'[t] = [tab[t] EXCEPT !.clear = k.at]
    BY <1>1 DEF Reading!Answered
  <2> QED
    BY <2>1, <2>2 DEF SameView, Reading!Views
<1>2. CASE ~(t = k.tab /\ Reading!Open(t))
  <2>1. tab'[t] = tab[t]
    BY <1>2 DEF Reading!Answered
  <2> QED
    BY <2>1 DEF SameView
<1> QED
  BY <1>1, <1>2

LEMMA CountedType ==
    ASSUME Reading!TypeOK
    PROVE  Reading!Counted \in Reading!OrNone(Reading!Times) /\ Reading!Written \subseteq Lines
BY DEF Reading!TypeOK, Reading!Counted, Reading!OrNone, Reading!Written

LEMMA LoadShows ==
    ASSUME Reading!TypeOK, NEW t \in Tabs, Reading!Load(t)
    PROVE  NowShows(t, "loading", TRUE, Reading!Written, Reading!Counted)
<1> DEFINE v == [mode |-> "loading", visible |-> TRUE, shown |-> Reading!Written, clear |-> Reading!Counted]
<1>1. v \in Reading!Views
  BY CountedType DEF Reading!Views
<1>2. tab' = [tab EXCEPT ![t] = v]
  BY DEF Reading!Load
<1>3. v.mode = "loading" /\ v.visible = TRUE /\ v.shown = Reading!Written /\ v.clear = Reading!Counted
  OBVIOUS
<1> HIDE DEF v
<1> QED
  BY <1>1, <1>2, <1>3, TabPut

LEMMA DrawShows ==
    ASSUME Reading!TypeOK, NEW t \in Tabs, Reading!Draw(t)
    PROVE  NowShows(t, "open", tab[t].visible, tab[t].shown, tab[t].clear)
<1> DEFINE v == [tab[t] EXCEPT !.mode = "open"]
<1>1. tab[t] \in Reading!Views
  BY ViewFields DEF Reading!Draw
<1>2. /\ v \in Reading!Views /\ v.mode = "open" /\ v.visible = tab[t].visible
      /\ v.shown = tab[t].shown /\ v.clear = tab[t].clear
  BY <1>1, ViewMoves
<1>3. tab' = [tab EXCEPT ![t] = v]
  BY DEF Reading!Draw
<1> HIDE DEF v
<1> QED
  BY <1>2, <1>3, TabPut

LEMMA ReceiveShows ==
    ASSUME Reading!TypeOK, NEW t \in Tabs, NEW m \in Lines, Reading!Receive(t, m)
    PROVE  NowShows(t, "open", tab[t].visible, tab[t].shown \cup {m}, tab[t].clear)
<1> DEFINE v == [tab[t] EXCEPT !.shown = @ \cup {m}]
<1>1. tab[t] \in Reading!Views /\ tab[t].mode = "open"
  BY ViewFields DEF Reading!Receive, Reading!Open
<1>2. /\ v \in Reading!Views /\ v.mode = "open" /\ v.visible = tab[t].visible
      /\ v.shown = tab[t].shown \cup {m} /\ v.clear = tab[t].clear
  BY <1>1, ViewGrows
<1>3. tab' = [tab EXCEPT ![t] = v]
  BY DEF Reading!Receive
<1> HIDE DEF v
<1> QED
  BY <1>2, <1>3, TabPut

LEMMA HideShows ==
    ASSUME Reading!TypeOK, NEW t \in Tabs, Reading!Hide(t)
    PROVE  NowShows(t, tab[t].mode, FALSE, tab[t].shown, tab[t].clear)
<1> DEFINE v == [tab[t] EXCEPT !.visible = FALSE]
<1>1. tab[t] \in Reading!Views
  BY ViewFields DEF Reading!Hide
<1>2. /\ v \in Reading!Views /\ v.mode = tab[t].mode /\ v.visible = FALSE
      /\ v.shown = tab[t].shown /\ v.clear = tab[t].clear
  BY <1>1, ViewMoves
<1>3. tab' = [tab EXCEPT ![t] = v]
  BY DEF Reading!Hide
<1> HIDE DEF v
<1> QED
  BY <1>2, <1>3, TabPut

LEMMA LookShows ==
    ASSUME Reading!TypeOK, NEW t \in Tabs, Reading!LookAgain(t)
    PROVE  NowShows(t, tab[t].mode, TRUE, tab[t].shown, tab[t].clear)
<1> DEFINE v == [tab[t] EXCEPT !.visible = TRUE]
<1>1. tab[t] \in Reading!Views
  BY ViewFields DEF Reading!LookAgain
<1>2. /\ v \in Reading!Views /\ v.mode = tab[t].mode /\ v.visible = TRUE
      /\ v.shown = tab[t].shown /\ v.clear = tab[t].clear
  BY <1>1, ViewMoves
<1>3. tab' = [tab EXCEPT ![t] = v]
  BY DEF Reading!LookAgain
<1> HIDE DEF v
<1> QED
  BY <1>2, <1>3, TabPut

LEMMA TellShows ==
    ASSUME Reading!TypeOK, NEW t \in Tabs, Reading!TellThreads(t)
    PROVE  NowShows(t, "open", tab[t].visible, tab[t].shown, Reading!Counted)
<1> DEFINE v == [tab[t] EXCEPT !.clear = Reading!Counted]
<1>1. tab[t] \in Reading!Views /\ tab[t].mode = "open"
  BY ViewFields DEF Reading!TellThreads, Reading!Open
<1>2. /\ v \in Reading!Views /\ v.mode = "open" /\ v.visible = tab[t].visible
      /\ v.shown = tab[t].shown /\ v.clear = Reading!Counted
  BY <1>1, ViewTells, CountedType
<1>3. tab' = [tab EXCEPT ![t] = v]
  BY DEF Reading!TellThreads
<1> HIDE DEF v
<1> QED
  BY <1>2, <1>3, TabPut

\* The mark a page sends names what it shows when it is open.
LEMMA MarkSends ==
    ASSUME NEW t \in Tabs, NEW mode, NEW visible, NEW shown \in SUBSET Lines, NEW clear,
           NEW looked, marks \subseteq Reading!Marks,
           NowShows(t, mode, visible, shown, clear), Reading!MarkRead(t, looked)
    PROVE  /\ marks' \subseteq Reading!Marks /\ marks \subseteq marks'
           /\ \A k \in marks' \ marks :
                  /\ k.tab = t /\ k.step = "sent" /\ (mode = "open" => k.shown = shown)
                  /\ (mode # "open" => k.shown = {}) /\ looked
           /\ looked => \E k \in marks' : k.tab = t /\ k.step = "sent"
<1> DEFINE k == Reading!Mark(t)
<1>1. /\ k.tab = t /\ k.step = "sent" /\ k \in Reading!Marks /\ (mode = "open" => k.shown = shown)
      /\ (mode # "open" => k.shown = {})
  BY DEF Reading!Mark, Reading!Marks, NowShows, Reading!OrNone
<1>2. marks' = IF looked THEN marks \cup {k} ELSE marks
  BY DEF Reading!MarkRead
<1> HIDE DEF k
<1> QED
  BY <1>1, <1>2

\* A mark names nothing that nobody saw, when the page that is looked at was seen.
LEMMA MarkIsSeen ==
    ASSUME NEW t \in Tabs, NEW mode, NEW visible, NEW shown, NEW clear,
       NEW looked \in BOOLEAN,
           NowShows(t, mode, visible, shown, clear), Reading!MarkRead(t, looked),
           mode = "open" /\ looked => shown \subseteq seen'
    PROVE  \A q \in marks' \ marks : q.shown \subseteq seen'
<1> DEFINE k == Reading!Mark(t)
<1>1. /\ mode = "open" => k.shown = shown
      /\ mode # "open" => k.shown = {}
  BY DEF Reading!Mark, NowShows
<1>2. marks' = IF looked THEN marks \cup {k} ELSE marks
  BY DEF Reading!MarkRead
<1> HIDE DEF k
<1>3. CASE ~looked
  BY <1>2, <1>3
<1>4. CASE looked
  <2>1. k.shown \subseteq seen'
    <3>1. CASE mode = "open"
      BY <1>1, <1>4, <3>1
    <3>2. CASE mode # "open"
      BY <1>1, <3>2
    <3> QED
      BY <3>1, <3>2
  <2>2. \A q \in marks' \ marks : q = k
    BY <1>2, <1>4
  <2> QED
    BY <2>1, <2>2
<1> QED
  BY <1>3, <1>4

\* The mark after its stamp, and after its record.
LEMMA StampedMark ==
    ASSUME Reading!TypeOK, NEW k \in marks
    PROVE  LET q == [k EXCEPT !.step = "stamped", !.copy = readAt, !.at = now]
           IN  /\ q \in Reading!Marks /\ q.tab = k.tab /\ q.shown = k.shown
               /\ q.step = "stamped" /\ q.copy = readAt /\ q.at = now
<1>1. k \in Reading!Marks /\ readAt \in Reading!OrNone(Reading!Times) /\ now \in Reading!OrNone(Reading!Times)
  BY DEF Reading!TypeOK, Reading!OrNone
<1>2. [k EXCEPT !.step = "stamped", !.copy = readAt, !.at = now] \in Reading!Marks
  BY <1>1 DEF Reading!Marks
<1> QED
  BY <1>1, <1>2 DEF Reading!Marks

RecordedMark(k) ==
    [tab |-> k.tab, shown |-> {}, step |-> "recorded", copy |-> None, at |-> Reading!Advanced(k)]

LEMMA AdvancedIsOne ==
    ASSUME Reading!TypeOK, InstantsArePast, NEW k \in marks, k.step = "stamped"
    PROVE  /\ Reading!Advanced(k) \in Reading!Times /\ Past(Reading!Advanced(k)) /\ Reading!Advanced(k) >= k.at
           /\ Reading!Advanced(k) = k.at \/ (k.copy # None /\ Reading!Advanced(k) = k.copy)
<1>1. Past(k.at) /\ (k.copy # None => Past(k.copy))
  BY DEF InstantsArePast
<1> QED
  BY <1>1, ReadingAssumption DEF Reading!Advanced, Past, Reading!Times

LEMMA RecordedType ==
    ASSUME Reading!TypeOK, InstantsArePast, NEW k \in marks, k.step = "stamped"
    PROVE  RecordedMark(k) \in Reading!Marks
BY AdvancedIsOne DEF RecordedMark, Reading!Marks, Reading!TypeOK, Reading!OrNone
\* Every action keeps the types.
LEMMA InboxTyped ==
    ASSUME InboxInv, Reading!Next
    PROVE  Reading!TypeOK'
<1>1. ASSUME NEW m \in Lines, Reading!Post(m) PROVE Reading!TypeOK'
  BY <1>1 DEF InboxInv, Reading!TypeOK, Reading!Post, Reading!OrNone
<1>2. ASSUME NEW k \in marks, Reading!Stamp(k) PROVE Reading!TypeOK'
  <2>1. marks' \subseteq Reading!Marks
    BY <1>2, StampedMark DEF InboxInv, Reading!TypeOK, Reading!Stamp
  <2>2. unshown' \subseteq Lines
    BY <1>2 DEF InboxInv, Reading!TypeOK, Reading!Stamp, Reading!Written
  <2> QED
    BY <1>2, <2>1, <2>2 DEF InboxInv, Reading!TypeOK, Reading!Stamp
<1>3. ASSUME NEW k \in marks, Reading!Record(k) PROVE Reading!TypeOK'
  <2>1. marks' \subseteq Reading!Marks
    BY <1>3, RecordedType DEF InboxInv, Reading!TypeOK, Reading!Record, RecordedMark
  <2>2. readAt' \in Reading!OrNone(Reading!Times)
    BY <1>3, AdvancedIsOne DEF InboxInv, Reading!Record, Reading!OrNone
  <2>3. crossed' \in BOOLEAN
    BY <1>3 DEF Reading!Record
  <2> QED
    BY <1>3, <2>1, <2>2, <2>3 DEF InboxInv, Reading!TypeOK, Reading!Record
<1>4. ASSUME NEW k \in marks, Reading!LoseMark(k) PROVE Reading!TypeOK'
  <2>1. crossed' \in BOOLEAN
    BY <1>4 DEF Reading!LoseMark
  <2> QED
    BY <1>4, <2>1 DEF InboxInv, Reading!TypeOK, Reading!LoseMark
<1>5. ASSUME NEW k \in marks, Reading!Answered(k) PROVE Reading!TypeOK'
  <2>1. ASSUME NEW t \in Tabs PROVE tab'[t] \in Reading!OrNone(Reading!Views)
    <3>1. CASE t = k.tab /\ Reading!Open(t)
      <4>1. tab[t] \in Reading!Views
        BY <3>1, ViewFields DEF InboxInv, Reading!Open
      <4>2. k.at \in Reading!OrNone(Reading!Times)
        BY DEF InboxInv, Reading!TypeOK, Reading!Marks
      <4>3. [tab[t] EXCEPT !.clear = k.at] \in Reading!Views
        BY <4>1, <4>2, ViewTells
      <4> QED
        BY <1>5, <3>1, <4>3 DEF Reading!Answered, Reading!OrNone
    <3>2. CASE ~(t = k.tab /\ Reading!Open(t))
      <4>1. tab'[t] = tab[t]
        BY <1>5, <3>2 DEF Reading!Answered
      <4> QED
        BY <4>1 DEF InboxInv, Reading!TypeOK
    <3> QED
      BY <3>1, <3>2
  <2>2. tab' \in [Tabs -> Reading!OrNone(Reading!Views)]
    BY <1>5, <2>1 DEF Reading!Answered
  <2> QED
    BY <1>5, <2>2 DEF InboxInv, Reading!TypeOK, Reading!Answered
<1>6. ASSUME Reading!Tick PROVE Reading!TypeOK'
  BY <1>6, ReadingAssumption DEF InboxInv, Reading!TypeOK, Reading!Tick, Reading!Times
<1>7. ASSUME NEW t \in Tabs, Reading!Load(t) PROVE Reading!TypeOK'
  <2>1. tab' \in [Tabs -> Reading!OrNone(Reading!Views)]
    BY <1>7, LoadShows DEF InboxInv, NowShows
  <2> QED
    BY <1>7, <2>1 DEF InboxInv, Reading!TypeOK, Reading!Load
<1>8. ASSUME NEW t \in Tabs, Reading!Draw(t) PROVE Reading!TypeOK'
  <2>1. NowShows(t, "open", tab[t].visible, tab[t].shown, tab[t].clear)
    BY <1>8, DrawShows DEF InboxInv
  <2>2. tab[t].shown \in SUBSET Lines
    BY <1>8, ViewFields DEF InboxInv, Reading!Draw
  <2>3. marks' \subseteq Reading!Marks
    BY <1>8, <2>1, <2>2, MarkSends DEF InboxInv, Reading!TypeOK, Reading!Draw
  <2>4. seen' \subseteq Lines
    BY <1>8, <2>2 DEF InboxInv, Reading!TypeOK, Reading!Draw, Reading!Looked
  <2> QED
    BY <1>8, <2>1, <2>3, <2>4 DEF InboxInv, Reading!TypeOK, Reading!Draw, NowShows
<1>9. ASSUME NEW t \in Tabs, NEW m \in Lines, Reading!Receive(t,
   m) PROVE Reading!TypeOK'
  <2>1. NowShows(t, "open", tab[t].visible, tab[t].shown \cup {m}, tab[t].clear)
    BY <1>9, ReceiveShows DEF InboxInv
  <2>2. tab[t].shown \cup {m} \in SUBSET Lines
    BY <1>9, ViewFields DEF InboxInv, Reading!Receive, Reading!Open
  <2>3. marks' \subseteq Reading!Marks
    BY <1>9, <2>1, <2>2, MarkSends DEF InboxInv, Reading!TypeOK, Reading!Receive
  <2>4. seen' \subseteq Lines /\ events' \in [Tabs -> SUBSET Lines]
    BY <1>9 DEF InboxInv, Reading!TypeOK, Reading!Receive, Reading!Looked
  <2> QED
    BY <1>9, <2>1, <2>3, <2>4 DEF InboxInv, Reading!TypeOK, Reading!Receive, NowShows
<1>10. ASSUME NEW t \in Tabs, Reading!Hide(t) PROVE Reading!TypeOK'
  <2>1. tab' \in [Tabs -> Reading!OrNone(Reading!Views)]
    BY <1>10, HideShows DEF InboxInv, NowShows
  <2> QED
    BY <1>10, <2>1 DEF InboxInv, Reading!TypeOK, Reading!Hide
<1>11. ASSUME NEW t \in Tabs, Reading!LookAgain(t) PROVE Reading!TypeOK'
  <2>1. NowShows(t, tab[t].mode, TRUE, tab[t].shown, tab[t].clear)
    BY <1>11, LookShows DEF InboxInv
  <2>2. tab[t].shown \in SUBSET Lines
    BY <1>11, ViewFields DEF InboxInv, Reading!LookAgain
  <2>3. marks' \subseteq Reading!Marks
    BY <1>11, <2>1, <2>2, MarkSends DEF InboxInv, Reading!TypeOK, Reading!LookAgain
  <2>4. seen' \subseteq Lines
    BY <1>11, <2>2 DEF InboxInv, Reading!TypeOK, Reading!LookAgain, Reading!Looked
  <2> QED
    BY <1>11, <2>1, <2>3, <2>4 DEF InboxInv, Reading!TypeOK, Reading!LookAgain, NowShows
<1>12. ASSUME NEW t \in Tabs, Reading!TellThreads(t) PROVE Reading!TypeOK'
  <2>1. tab' \in [Tabs -> Reading!OrNone(Reading!Views)]
    BY <1>12, TellShows DEF InboxInv, NowShows
  <2> QED
    BY <1>12, <2>1 DEF InboxInv, Reading!TypeOK, Reading!TellThreads
<1>13. ASSUME NEW t \in Tabs, Reading!Leave(t) PROVE Reading!TypeOK'
  BY <1>13 DEF InboxInv, Reading!TypeOK, Reading!Leave, Reading!OrNone
<1> QED
  BY <1>1, <1>2, <1>3, <1>4, <1>5, <1>6, <1>7, <1>8, <1>9, <1>10, <1>11, <1>12,
     <1>13 DEF Reading!Next

\* What only grows: what was written, the clock, what was seen, and, as long as no mark
\* was recorded over a later one, what is read.
InboxGrows ==
    /\ Reading!Written \subseteq Reading!Written'
    /\ \A m \in Reading!Written : sent'[m] = sent[m]
    /\ \A m \in Reading!Written' \ Reading!Written : sent'[m] = now
    /\ now' >= now /\ seen \subseteq seen' /\ unshown \subseteq unshown'
    /\ ~crossed' => ~crossed /\ (readAt # None => readAt' # None /\ readAt' >= readAt)

LEMMA SameGrows ==
    ASSUME Reading!TypeOK, sent' = sent, now' = now, readAt' = readAt,
       crossed' = crossed,
           seen \subseteq seen', unshown \subseteq unshown'
    PROVE  InboxGrows
<1>1. now' >= now /\ (readAt # None => readAt' # None /\ readAt' >= readAt)
  BY ReadingAssumption DEF Reading!TypeOK, Reading!OrNone, Reading!Times
<1> QED
  BY <1>1 DEF InboxGrows, Reading!Written


LEMMA InboxOnlyGrows ==
    ASSUME InboxInv, Reading!Next
    PROVE  InboxGrows
<1>1. ASSUME NEW m \in Lines, Reading!Post(m) PROVE InboxGrows
  <2>1. /\ now' = now /\ readAt' = readAt /\ crossed' = crossed /\ seen' = seen
        /\ unshown' = unshown /\ sent[m] = None /\ sent' = [sent EXCEPT ![m] = now]
    BY <1>1 DEF Reading!Post
  <2>2. now' >= now /\ (readAt # None => readAt' # None /\ readAt' >= readAt)
    BY <2>1, ReadingAssumption DEF InboxInv, Reading!TypeOK, Reading!OrNone,
       Reading!Times
  <2>3. \A q \in Lines : q # m => sent'[q] = sent[q]
    BY <2>1 DEF InboxInv, Reading!TypeOK
  <2>4. sent'[m] = now
    BY <2>1 DEF InboxInv, Reading!TypeOK
  <2> QED
    BY <2>1, <2>2, <2>3, <2>4 DEF InboxGrows, Reading!Written
<1>2. ASSUME NEW k \in marks, Reading!Stamp(k) PROVE InboxGrows
  <2>1. /\ sent' = sent /\ now' = now /\ readAt' = readAt /\ crossed' = crossed
        /\ seen \subseteq seen' /\ unshown \subseteq unshown'
    BY <1>2 DEF Reading!Stamp, Reading!Looked
  <2> QED
    BY <2>1, SameGrows DEF InboxInv
<1>3. ASSUME NEW k \in marks, Reading!Record(k) PROVE InboxGrows
  <2>1. /\ now' = now /\ seen' = seen /\ unshown' = unshown /\ sent' = sent
        /\ readAt' = Reading!Advanced(k) /\ k.step = "stamped"
        /\ ~crossed' => ~crossed /\ (readAt = None \/ ~(readAt > Reading!Advanced(k)))
    BY <1>3 DEF Reading!Record
  <2>2. Reading!Advanced(k) \in Reading!Times
    BY <2>1, AdvancedIsOne DEF InboxInv
  <2>3. now' >= now
    BY <2>1, ReadingAssumption DEF InboxInv, Reading!TypeOK, Reading!Times
  <2>4. ~crossed' => (readAt # None => readAt' # None /\ readAt' >= readAt)
    BY <2>1, <2>2, ReadingAssumption DEF InboxInv, Reading!TypeOK, Reading!OrNone,
       Reading!Times
  <2> QED
    BY <2>1, <2>3, <2>4 DEF InboxGrows, Reading!Written
<1>4. ASSUME NEW k \in marks, Reading!LoseMark(k) PROVE InboxGrows
  <2>1. /\ sent' = sent /\ now' = now /\ readAt' = readAt /\ (~crossed' => ~crossed)
        /\ seen' = seen /\ unshown' = unshown
    BY <1>4 DEF Reading!LoseMark
  <2>2. now' >= now /\ (readAt # None => readAt' # None /\ readAt' >= readAt)
    BY <2>1, ReadingAssumption DEF InboxInv, Reading!TypeOK, Reading!OrNone,
       Reading!Times
  <2> QED
    BY <2>1, <2>2 DEF InboxGrows, Reading!Written
<1>5. ASSUME NEW k \in marks, Reading!Answered(k) PROVE InboxGrows
  <2>1. /\ sent' = sent /\ now' = now /\ readAt' = readAt /\ crossed' = crossed
        /\ seen \subseteq seen' /\ unshown \subseteq unshown'
    BY <1>5 DEF Reading!Answered, Reading!Looked
  <2> QED
    BY <2>1, SameGrows DEF InboxInv
<1>6. ASSUME Reading!Tick PROVE InboxGrows
  <2>1. /\ sent' = sent /\ readAt' = readAt /\ crossed' = crossed
        /\ seen' = seen /\ unshown' = unshown /\ now' = now + 1
    BY <1>6 DEF Reading!Tick
  <2>2. now' >= now /\ (readAt # None => readAt' # None /\ readAt' >= readAt)
    BY <2>1, ReadingAssumption DEF InboxInv, Reading!TypeOK, Reading!OrNone,
       Reading!Times
  <2> QED
    BY <2>1, <2>2 DEF InboxGrows, Reading!Written
<1>7. ASSUME NEW t \in Tabs, Reading!Load(t) PROVE InboxGrows
  <2>1. /\ sent' = sent /\ now' = now /\ readAt' = readAt /\ crossed' = crossed
        /\ seen \subseteq seen' /\ unshown \subseteq unshown'
    BY <1>7 DEF Reading!Load, Reading!Looked
  <2> QED
    BY <2>1, SameGrows DEF InboxInv
<1>8. ASSUME NEW t \in Tabs, Reading!Draw(t) PROVE InboxGrows
  <2>1. /\ sent' = sent /\ now' = now /\ readAt' = readAt /\ crossed' = crossed
        /\ seen \subseteq seen' /\ unshown \subseteq unshown'
    BY <1>8 DEF Reading!Draw, Reading!Looked
  <2> QED
    BY <2>1, SameGrows DEF InboxInv
<1>9. ASSUME NEW t \in Tabs, NEW m \in Lines, Reading!Receive(t, m) PROVE InboxGrows
  <2>1. /\ sent' = sent /\ now' = now /\ readAt' = readAt /\ crossed' = crossed
        /\ seen \subseteq seen' /\ unshown \subseteq unshown'
    BY <1>9 DEF Reading!Receive, Reading!Looked
  <2> QED
    BY <2>1, SameGrows DEF InboxInv
<1>10. ASSUME NEW t \in Tabs, Reading!Hide(t) PROVE InboxGrows
  <2>1. /\ sent' = sent /\ now' = now /\ readAt' = readAt /\ crossed' = crossed
        /\ seen \subseteq seen' /\ unshown \subseteq unshown'
    BY <1>10 DEF Reading!Hide, Reading!Looked
  <2> QED
    BY <2>1, SameGrows DEF InboxInv
<1>11. ASSUME NEW t \in Tabs, Reading!LookAgain(t) PROVE InboxGrows
  <2>1. /\ sent' = sent /\ now' = now /\ readAt' = readAt /\ crossed' = crossed
        /\ seen \subseteq seen' /\ unshown \subseteq unshown'
    BY <1>11 DEF Reading!LookAgain, Reading!Looked
  <2> QED
    BY <2>1, SameGrows DEF InboxInv
<1>12. ASSUME NEW t \in Tabs, Reading!TellThreads(t) PROVE InboxGrows
  <2>1. /\ sent' = sent /\ now' = now /\ readAt' = readAt /\ crossed' = crossed
        /\ seen \subseteq seen' /\ unshown \subseteq unshown'
    BY <1>12 DEF Reading!TellThreads, Reading!Looked
  <2> QED
    BY <2>1, SameGrows DEF InboxInv
<1>13. ASSUME NEW t \in Tabs, Reading!Leave(t) PROVE InboxGrows
  <2>1. /\ sent' = sent /\ now' = now /\ readAt' = readAt /\ crossed' = crossed
        /\ seen \subseteq seen' /\ unshown \subseteq unshown'
    BY <1>13 DEF Reading!Leave, Reading!Looked
  <2> QED
    BY <2>1, SameGrows DEF InboxInv
<1> QED
  BY <1>1, <1>2, <1>3, <1>4, <1>5, <1>6, <1>7, <1>8, <1>9, <1>10, <1>11, <1>12,
     <1>13 DEF Reading!Next

LEMMA PastStays ==
    ASSUME Reading!TypeOK, Reading!TypeOK', InboxGrows, NEW instant, Past(instant)
    PROVE  instant \in Reading!Times /\ instant <= now'
BY ReadingAssumption DEF Reading!TypeOK, InboxGrows, Past, Reading!Times

\* An instant that covered what was written covers it still.
CoveredNext(instant) ==
    \A m \in Lines : sent'[m] # None /\ sent'[m] <= instant =>
        m \in seen' \cup unshown' \/ sent'[m] = instant

LEMMA CoveredStays ==
    ASSUME InboxInv, InboxGrows, NEW instant, Past(instant), Covered(instant)
    PROVE  CoveredNext(instant)
<1> SUFFICES ASSUME NEW m \in Lines, sent'[m] # None, sent'[m] <= instant
             PROVE  m \in seen' \cup unshown' \/ sent'[m] = instant
  BY DEF CoveredNext
<1>1. m \in Reading!Written'
  BY DEF Reading!Written
<1>2. CASE m \in Reading!Written
  BY <1>2 DEF InboxGrows, Covered, Reading!Written
<1>3. CASE m \notin Reading!Written
  <2>1. sent'[m] = now /\ now <= instant /\ instant <= now
    BY <1>1, <1>3 DEF InboxGrows, Past
  <2> QED
    BY <2>1, ReadingAssumption DEF InboxInv, Reading!TypeOK, Past, Reading!Times
<1> QED
  BY <1>2, <1>3

HoldsNext(instant) == readAt' # None /\ readAt' >= instant

LEMMA HoldsStays ==
    ASSUME InboxInv, Reading!TypeOK', InboxGrows, ~crossed',
       NEW instant \in Reading!Times, Holds(instant)
    PROVE  HoldsNext(instant)
BY ReadingAssumption DEF InboxInv, Reading!TypeOK, InboxGrows, Holds, HoldsNext,
   Reading!OrNone, Reading!Times

LEMMA NothingOlderStays ==
    ASSUME InboxInv, Reading!TypeOK', InboxGrows, ~crossed', NEW instant, Past(instant),
           NothingOlder(instant)
    PROVE  \A m \in Reading!Written' : sent'[m] < instant => HoldsNext(sent'[m])
<1> SUFFICES ASSUME NEW m \in Reading!Written',
   sent'[m] < instant PROVE HoldsNext(sent'[m])
  OBVIOUS
<1>1. CASE m \in Reading!Written
  <2>1. sent'[m] = sent[m] /\ sent[m] \in Reading!Times
    BY <1>1 DEF InboxInv, InstantsArePast, InboxGrows, Past
  <2>2. Holds(sent[m])
    BY <1>1, <2>1 DEF NothingOlder
  <2> QED
    BY <2>1, <2>2, HoldsStays
<1>2. CASE m \notin Reading!Written
  <2>1. sent'[m] = now /\ instant <= now /\ now < instant
    BY <1>2 DEF InboxGrows, Past
  <2> QED
    BY <2>1, ReadingAssumption DEF InboxInv, Reading!TypeOK, Past, Reading!Times
<1> QED
  BY <1>1, <1>2

\* A list that counted nothing unread leaves nothing unread that was written by now.
LEMMA CountedNothing ==
    ASSUME InboxInv, Reading!Counted # None
    PROVE  Reading!Counted = now /\ NothingOlder(now)
<1>1. Reading!UnreadCount = 0 /\ Reading!Counted = now
  BY DEF Reading!Counted
<1> DEFINE unread == {m \in Lines : Reading!IsUnread(m, readAt)}
<1>2. IsFiniteSet(unread)
  BY ReadingAssumption, FS_Subset
<1>3. Cardinality(unread) \in Nat
  BY <1>2, FS_CardinalityType
<1>4. Reading!Cardinality(unread) = Cardinality(unread)
  BY DEF Reading!Cardinality, Cardinality
<1>5. Cardinality(unread) = 0
  BY <1>1, <1>3, <1>4 DEF Reading!UnreadCount
<1>6. unread = {}
  BY <1>2, <1>5, FS_EmptySet
<1>7. ASSUME NEW m \in Reading!Written PROVE Holds(sent[m])
  <2>1. ~Reading!IsUnread(m, readAt)
    BY <1>6 DEF Reading!Written
  <2> QED
    BY <2>1, ReadingAssumption DEF Reading!IsUnread, Reading!Written, Holds, InboxInv,
       Reading!TypeOK, Reading!OrNone, Reading!Times
<1> QED
  BY <1>1, <1>7 DEF NothingOlder

--------------------------------------------------------------------------------
(* The parts of the invariant.                                                     *)

\* The marks and the tabs whose instants are as they were.
LEMMA RestIsPast ==
    ASSUME InboxInv, Reading!TypeOK', InboxGrows
    PROVE  /\ \A m \in Reading!Written' : sent'[m] \in Reading!Times /\ sent'[m] <= now'
           /\ readAt # None => readAt \in Reading!Times /\ readAt <= now'
           /\ \A k \in marks : /\ k.step \in {"stamped", "recorded"} => k.at \in Reading!Times /\ k.at <= now'
                               /\ k.step = "stamped" /\ k.copy # None =>
                                      k.copy \in Reading!Times /\ k.copy <= now'
           /\ \A t \in Tabs : tab[t] # None /\ tab[t].clear # None =>
                  tab[t].clear \in Reading!Times /\ tab[t].clear <= now'
<1>1. ASSUME NEW m \in Reading!Written' PROVE sent'[m] \in Reading!Times /\ sent'[m] <= now'
  <2>1. CASE m \in Reading!Written
    BY <2>1, PastStays DEF InboxInv, InstantsArePast, InboxGrows
  <2>2. CASE m \notin Reading!Written
    BY <2>2, ReadingAssumption DEF InboxInv, Reading!TypeOK, InboxGrows, Reading!Times
  <2> QED
    BY <2>1, <2>2
<1> QED
  BY <1>1, PastStays DEF InboxInv, InstantsArePast

\* No instant is of the future.
LEMMA InstantsStayPast ==
    ASSUME InboxInv, Reading!TypeOK', InboxGrows, Reading!Next
    PROVE  InstantsArePast'
<1>1. ASSUME NEW m \in Lines, Reading!Post(m) PROVE InstantsArePast'
  <2>1. readAt' = readAt /\ marks' \subseteq marks /\ tab' = tab
    BY <1>1 DEF Reading!Post
  <2> QED
    BY <2>1, RestIsPast DEF InstantsArePast, Past
<1>2. ASSUME NEW k \in marks, Reading!Stamp(k) PROVE InstantsArePast'
  <2>1. readAt' = readAt /\ tab' = tab /\ now' = now
    BY <1>2 DEF Reading!Stamp
  <2>2. ASSUME NEW q \in marks'
        PROVE  \/ q \in marks
               \/ q.step = "stamped" /\ q.at = now /\ q.copy = readAt
    BY <1>2, StampedMark DEF InboxInv, Reading!Stamp
  <2>3. now \in Reading!Times /\ now <= now'
    BY <2>1, ReadingAssumption DEF InboxInv, Reading!TypeOK, Reading!Times
  <2> QED
    BY <2>1, <2>2, <2>3, RestIsPast DEF InstantsArePast, Past
<1>3. ASSUME NEW k \in marks, Reading!Record(k) PROVE InstantsArePast'
  <2>1. readAt' = Reading!Advanced(k) /\ tab' = tab /\ now' = now /\ k.step = "stamped"
    BY <1>3 DEF Reading!Record
  <2>2. Reading!Advanced(k) \in Reading!Times /\ Reading!Advanced(k) <= now'
    BY <2>1, AdvancedIsOne DEF InboxInv, Past
  <2>3. ASSUME NEW q \in marks'
        PROVE  q \in marks \/ (q.step = "recorded" /\ q.at = Reading!Advanced(k))
    BY <1>3 DEF Reading!Record
  <2> QED
    BY <2>1, <2>2, <2>3, RestIsPast DEF InstantsArePast, Past
<1>4. ASSUME NEW k \in marks, Reading!LoseMark(k) PROVE InstantsArePast'
  <2>1. readAt' = readAt /\ marks' \subseteq marks /\ tab' = tab
    BY <1>4 DEF Reading!LoseMark
  <2> QED
    BY <2>1, RestIsPast DEF InstantsArePast, Past
<1>5. ASSUME NEW k \in marks, Reading!Answered(k) PROVE InstantsArePast'
  <2>1. readAt' = readAt /\ marks' \subseteq marks
    BY <1>5 DEF Reading!Answered
  <2>2. k.at \in Reading!Times /\ k.at <= now'
    BY <1>5, RestIsPast DEF Reading!Answered
  <2>3. ASSUME NEW t \in Tabs, tab'[t] # None, tab'[t].clear # None
        PROVE  tab'[t].clear \in Reading!Times /\ tab'[t].clear <= now'
    <3>1. CASE t = k.tab /\ Reading!Open(t)
      <4>1. tab[t] \in Reading!Views
        BY <3>1, ViewFields DEF InboxInv, Reading!Open
      <4>2. tab'[t] = [tab[t] EXCEPT !.clear = k.at]
        BY <1>5, <3>1 DEF Reading!Answered
      <4>3. tab'[t].clear = k.at
        BY <4>1, <4>2 DEF Reading!Views
      <4> QED
        BY <2>2, <4>3
    <3>2. CASE ~(t = k.tab /\ Reading!Open(t))
      <4>1. tab'[t] = tab[t]
        BY <1>5, <3>2 DEF Reading!Answered
      <4> QED
        BY <2>3, <4>1, RestIsPast
    <3> QED
      BY <3>1, <3>2
  <2> QED
    BY <2>1, <2>3, RestIsPast DEF InstantsArePast, Past
<1>6. ASSUME Reading!Tick PROVE InstantsArePast'
  <2>1. readAt' = readAt /\ marks' \subseteq marks /\ tab' = tab
    BY <1>6 DEF Reading!Tick
  <2> QED
    BY <2>1, RestIsPast DEF InstantsArePast, Past
<1>7. ASSUME NEW t \in Tabs, Reading!Load(t) PROVE InstantsArePast'
  <2>1. readAt' = readAt /\ marks' = marks /\ NowShows(t, "loading", TRUE, Reading!Written, Reading!Counted)
    BY <1>7, LoadShows DEF InboxInv, Reading!Load
  <2>2. Reading!Counted # None => Reading!Counted \in Reading!Times /\ Reading!Counted <= now'
    BY CountedNothing, ReadingAssumption DEF InboxInv, Reading!TypeOK, Reading!Times,
       InboxGrows
  <2> QED
    BY <2>1, <2>2, RestIsPast DEF InstantsArePast, Past, NowShows
<1>8. ASSUME NEW t \in Tabs, Reading!Draw(t) PROVE InstantsArePast'
  <2>1. readAt' = readAt /\ NowShows(t, "open", tab[t].visible, tab[t].shown, tab[t].clear)
        /\ Reading!MarkRead(t, tab[t].visible) /\ tab[t] # None
    BY <1>8, DrawShows DEF InboxInv, Reading!Draw
  <2>2. \A q \in marks' \ marks : q.step = "sent"
    BY <2>1, MarkSends, ViewFields DEF InboxInv, Reading!TypeOK
  <2> QED
    BY <2>1, <2>2, RestIsPast DEF InstantsArePast, Past, NowShows
<1>9. ASSUME NEW t \in Tabs, NEW m \in Lines, Reading!Receive(t,
   m) PROVE InstantsArePast'
  <2>1. readAt' = readAt /\ NowShows(t, "open", tab[t].visible, tab[t].shown \cup {m}, tab[t].clear)
        /\ Reading!MarkRead(t, tab[t].visible) /\ tab[t] # None
    BY <1>9, ReceiveShows DEF InboxInv, Reading!Receive, Reading!Open
  <2>2. tab[t].shown \cup {m} \in SUBSET Lines
    BY <2>1, ViewFields DEF InboxInv
  <2>3. \A q \in marks' \ marks : q.step = "sent"
    BY <2>1, <2>2, MarkSends DEF InboxInv, Reading!TypeOK
  <2> QED
    BY <2>1, <2>3, RestIsPast DEF InstantsArePast, Past, NowShows
<1>10. ASSUME NEW t \in Tabs, Reading!Hide(t) PROVE InstantsArePast'
  <2>1. readAt' = readAt /\ marks' = marks
        /\ NowShows(t, tab[t].mode, FALSE, tab[t].shown, tab[t].clear) /\ tab[t] # None
    BY <1>10, HideShows DEF InboxInv, Reading!Hide
  <2> QED
    BY <2>1, RestIsPast DEF InstantsArePast, Past, NowShows
<1>11. ASSUME NEW t \in Tabs, Reading!LookAgain(t) PROVE InstantsArePast'
  <2>1. readAt' = readAt /\ NowShows(t, tab[t].mode, TRUE, tab[t].shown, tab[t].clear)
        /\ Reading!MarkRead(t, TRUE) /\ tab[t] # None
    BY <1>11, LookShows DEF InboxInv, Reading!LookAgain
  <2>2. \A q \in marks' \ marks : q.step = "sent"
    BY <2>1, MarkSends, ViewFields DEF InboxInv, Reading!TypeOK
  <2> QED
    BY <2>1, <2>2, RestIsPast DEF InstantsArePast, Past, NowShows
<1>12. ASSUME NEW t \in Tabs, Reading!TellThreads(t) PROVE InstantsArePast'
  <2>1. readAt' = readAt /\ marks' = marks
        /\ NowShows(t, "open", tab[t].visible, tab[t].shown, Reading!Counted)
    BY <1>12, TellShows DEF InboxInv, Reading!TellThreads
  <2>2. Reading!Counted # None => Reading!Counted \in Reading!Times /\ Reading!Counted <= now'
    BY CountedNothing, ReadingAssumption DEF InboxInv, Reading!TypeOK, Reading!Times,
       InboxGrows
  <2> QED
    BY <2>1, <2>2, RestIsPast DEF InstantsArePast, Past, NowShows
<1>13. ASSUME NEW t \in Tabs, Reading!Leave(t) PROVE InstantsArePast'
  <2>1. readAt' = readAt /\ marks' = marks
    BY <1>13 DEF Reading!Leave
  <2>2. \A u \in Tabs : tab'[u] # None => tab'[u] = tab[u]
    BY <1>13 DEF InboxInv, Reading!TypeOK, Reading!Leave
  <2> QED
    BY <2>1, <2>2, RestIsPast DEF InstantsArePast, Past
<1> QED
  BY <1>1, <1>2, <1>3, <1>4, <1>5, <1>6, <1>7, <1>8, <1>9, <1>10, <1>11, <1>12,
     <1>13 DEF Reading!Next

\* What stands on a page after a step that changed nothing of it.
LEMMA RestIsReal ==
    ASSUME InboxInv, InboxGrows
    PROVE  /\ \A t \in Tabs : events[t] \subseteq Reading!Written'
           /\ \A t \in Tabs : tab[t] # None => tab[t].shown \subseteq Reading!Written'
           /\ \A t \in Tabs : Reading!Open(t) /\ tab[t].visible => tab[t].shown \subseteq seen'
           /\ \A k \in marks : k.shown \subseteq seen'
BY DEF InboxInv, PagesAreReal, InboxGrows

\* The page of one tab changed, and marks were sent from it.
LEMMA OnePageIsReal ==
    ASSUME InboxInv, InboxGrows, NEW t \in Tabs, NEW mode, NEW visible, NEW shown,
       NEW clear,
           NowShows(t, mode, visible, shown, clear), shown \subseteq Reading!Written',
           mode = "open" /\ visible => shown \subseteq seen',
           \A u \in Tabs : events'[u] \subseteq Reading!Written',
           \A q \in marks' \ marks : q.shown \subseteq seen'
    PROVE  PagesAreReal'
<1>1. \A u \in Tabs : tab'[u] # None => tab'[u].shown \subseteq Reading!Written'
  BY RestIsReal DEF NowShows
<1>2. \A u \in Tabs : Reading!Open(u)' /\ tab'[u].visible => tab'[u].shown \subseteq seen'
  BY RestIsReal DEF NowShows, Reading!Open
<1>3. \A k \in marks' : k.shown \subseteq seen'
  BY RestIsReal
<1> QED
  BY <1>1, <1>2, <1>3 DEF PagesAreReal

\* Pages show what was written, and what is looked at was seen.
LEMMA PagesStayReal ==
    ASSUME InboxInv, Reading!TypeOK', InboxGrows, Reading!Next
    PROVE  PagesAreReal'
<1>1. ASSUME NEW m \in Lines, Reading!Post(m) PROVE PagesAreReal'
  <2>1. m \in Reading!Written'
    BY <1>1, ReadingAssumption DEF InboxInv, Reading!TypeOK, Reading!Post,
       Reading!Written, Reading!Times
  <2>2. \A t \in Tabs : events'[t] \subseteq events[t] \cup {m}
    BY <1>1 DEF Reading!Post
  <2>3. marks' = marks /\ tab' = tab
    BY <1>1 DEF Reading!Post
  <2> QED
    BY <2>1, <2>2, <2>3, RestIsReal DEF PagesAreReal, Reading!Open
<1>2. ASSUME NEW k \in marks, Reading!Stamp(k) PROVE PagesAreReal'
  <2>1. events' = events /\ tab' = tab
    BY <1>2 DEF Reading!Stamp
  <2>2. \A q \in marks' : q \in marks \/ q.shown = k.shown
    BY <1>2, StampedMark DEF InboxInv, Reading!Stamp
  <2> QED
    BY <2>1, <2>2, RestIsReal DEF PagesAreReal, Reading!Open
<1>3. ASSUME NEW k \in marks, Reading!Record(k) PROVE PagesAreReal'
  <2>1. events' = events /\ tab' = tab
    BY <1>3 DEF Reading!Record
  <2>2. \A q \in marks' : q \in marks \/ q.shown = {}
    BY <1>3 DEF Reading!Record
  <2> QED
    BY <2>1, <2>2, RestIsReal DEF PagesAreReal, Reading!Open
<1>4. ASSUME NEW k \in marks, Reading!LoseMark(k) PROVE PagesAreReal'
  <2>1. /\ events' = events /\ marks' \subseteq marks /\ tab' = tab
    BY <1>4 DEF Reading!LoseMark
  <2> QED
    BY <2>1, RestIsReal DEF PagesAreReal, Reading!Open
<1>5. ASSUME NEW k \in marks, Reading!Answered(k) PROVE PagesAreReal'
  <2>1. events' = events /\ marks' \subseteq marks
    BY <1>5 DEF Reading!Answered
  <2>2. \A t \in Tabs : tab'[t] # None => SameView(t)
    BY <1>5, AnsweredShows DEF InboxInv
  <2> QED
    BY <2>1, <2>2, RestIsReal DEF PagesAreReal, Reading!Open, SameView
<1>6. ASSUME Reading!Tick PROVE PagesAreReal'
  <2>1. /\ events' = events /\ marks' \subseteq marks /\ tab' = tab
    BY <1>6 DEF Reading!Tick
  <2> QED
    BY <2>1, RestIsReal DEF PagesAreReal, Reading!Open
<1>7. ASSUME NEW t \in Tabs, Reading!Load(t) PROVE PagesAreReal'
  <2>1. events' = events /\ marks' = marks /\ NowShows(t, "loading", TRUE, Reading!Written, Reading!Counted)
    BY <1>7, LoadShows DEF InboxInv, Reading!Load
  <2>2. Reading!Written \subseteq Reading!Written' /\ \A u \in Tabs : events'[u] \subseteq Reading!Written'
    BY <2>1, RestIsReal DEF InboxGrows
  <2> QED
    BY <2>1, <2>2, OnePageIsReal
<1>8. ASSUME NEW t \in Tabs, Reading!Draw(t) PROVE PagesAreReal'
  <2>1. events' = events /\ NowShows(t, "open", tab[t].visible, tab[t].shown, tab[t].clear)
        /\ Reading!MarkRead(t, tab[t].visible) /\ tab[t] # None /\ Reading!Looked(tab[t].shown, tab[t].visible)
    BY <1>8, DrawShows DEF InboxInv, Reading!Draw
  <2>2. tab[t].visible => tab[t].shown \subseteq seen'
    BY <2>1 DEF Reading!Looked
  <2>3. \A q \in marks' \ marks : q.shown \subseteq seen'
    <3>1. tab[t].visible \in BOOLEAN
      BY <2>1, ViewFields DEF InboxInv
    <3> QED
      BY <2>1, <2>2, <3>1, MarkIsSeen
  <2>4. tab[t].shown \subseteq Reading!Written' /\ \A u \in Tabs : events'[u] \subseteq Reading!Written'
    BY <2>1, RestIsReal
  <2> QED
    BY <2>1, <2>2, <2>3, <2>4, OnePageIsReal
<1>9. ASSUME NEW t \in Tabs, NEW m \in Lines, Reading!Receive(t, m) PROVE PagesAreReal'
  <2> DEFINE shown == tab[t].shown \cup {m}
  <2>1. NowShows(t, "open", tab[t].visible, shown, tab[t].clear)
        /\ Reading!MarkRead(t, tab[t].visible) /\ Reading!Looked({m}, tab[t].visible)
        /\ Reading!Open(t) /\ tab[t] # None /\ m \in events[t]
    BY <1>9, ReceiveShows DEF InboxInv, Reading!Receive, Reading!Open
  <2>2. tab[t].visible => shown \subseteq seen'
    BY <2>1, RestIsReal DEF Reading!Looked
  <2>3. shown \in SUBSET Lines
    BY <2>1, ViewFields DEF InboxInv
  <2>4. shown \subseteq Reading!Written' /\ \A u \in Tabs : events'[u] \subseteq Reading!Written'
    <3>1. \A u \in Tabs : events'[u] \subseteq events[u]
      BY <1>9 DEF InboxInv, Reading!TypeOK, Reading!Receive
    <3> QED
      BY <2>1, <3>1, RestIsReal
  <2> HIDE DEF shown
  <2>5. \A q \in marks' \ marks : q.shown \subseteq seen'
    <3>1. tab[t].visible \in BOOLEAN
      BY <2>1, ViewFields DEF InboxInv
    <3> QED
      BY <2>1, <2>2, <3>1, MarkIsSeen
  <2> QED
    BY <2>1, <2>2, <2>4, <2>5, OnePageIsReal
<1>10. ASSUME NEW t \in Tabs, Reading!Hide(t) PROVE PagesAreReal'
  <2>1. events' = events /\ marks' = marks
        /\ NowShows(t, tab[t].mode, FALSE, tab[t].shown, tab[t].clear) /\ tab[t] # None
    BY <1>10, HideShows DEF InboxInv, Reading!Hide
  <2>2. tab[t].shown \subseteq Reading!Written' /\ \A u \in Tabs : events'[u] \subseteq Reading!Written'
    BY <2>1, RestIsReal
  <2> QED
    BY <2>1, <2>2, OnePageIsReal
<1>11. ASSUME NEW t \in Tabs, Reading!LookAgain(t) PROVE PagesAreReal'
  <2>1. events' = events /\ NowShows(t, tab[t].mode, TRUE, tab[t].shown, tab[t].clear)
        /\ Reading!MarkRead(t, TRUE) /\ tab[t] # None
    BY <1>11, LookShows DEF InboxInv, Reading!LookAgain
  <2>2. tab[t].mode = "open" => tab[t].shown \subseteq seen'
    BY <1>11, <2>1 DEF Reading!LookAgain, Reading!Looked, Reading!Open
  <2>3. \A q \in marks' \ marks : q.shown \subseteq seen'
    BY <2>1, <2>2, MarkIsSeen
  <2>4. tab[t].shown \subseteq Reading!Written' /\ \A u \in Tabs : events'[u] \subseteq Reading!Written'
    BY <2>1, RestIsReal
  <2> QED
    BY <2>1, <2>2, <2>3, <2>4, OnePageIsReal
<1>12. ASSUME NEW t \in Tabs, Reading!TellThreads(t) PROVE PagesAreReal'
  <2>1. events' = events /\ marks' = marks /\ seen' = seen
        /\ NowShows(t, "open", tab[t].visible, tab[t].shown, Reading!Counted) /\ Reading!Open(t) /\ tab[t] # None
    BY <1>12, TellShows DEF InboxInv, Reading!TellThreads, Reading!Open
  <2>2. tab[t].shown \subseteq Reading!Written' /\ \A u \in Tabs : events'[u] \subseteq Reading!Written'
    BY <2>1, RestIsReal
  <2>3. tab[t].visible => tab[t].shown \subseteq seen'
    BY <2>1, RestIsReal
  <2> QED
    BY <2>1, <2>2, <2>3, OnePageIsReal
<1>13. ASSUME NEW t \in Tabs, Reading!Leave(t) PROVE PagesAreReal'
  <2>1. marks' = marks /\ \A u \in Tabs : events'[u] \subseteq events[u]
    BY <1>13 DEF InboxInv, Reading!TypeOK, Reading!Leave
  <2>2. \A u \in Tabs : tab'[u] # None => tab'[u] = tab[u]
    BY <1>13 DEF InboxInv, Reading!TypeOK, Reading!Leave
  <2> QED
    BY <2>1, <2>2, RestIsReal DEF PagesAreReal, Reading!Open
<1> QED
  BY <1>1, <1>2, <1>3, <1>4, <1>5, <1>6, <1>7, <1>8, <1>9, <1>10, <1>11, <1>12,
     <1>13 DEF Reading!Next

LEMMA RestIsCovered ==
    ASSUME InboxInv, InboxGrows
    PROVE  /\ readAt # None => CoveredNext(readAt)
           /\ \A k \in marks : k.step = "stamped" =>
                  CoveredNext(k.at) /\ (k.copy # None => CoveredNext(k.copy))
<1>1. readAt # None => CoveredNext(readAt)
  BY CoveredStays DEF InboxInv, InstantsArePast, StampsCover
<1>2. ASSUME NEW k \in marks, k.step = "stamped" PROVE CoveredNext(k.at)
  BY <1>2, CoveredStays DEF InboxInv, InstantsArePast, StampsCover
<1>3. ASSUME NEW k \in marks, k.step = "stamped",
   k.copy # None PROVE CoveredNext(k.copy)
  BY <1>3, CoveredStays DEF InboxInv, InstantsArePast, StampsCover
<1> QED
  BY <1>1, <1>2, <1>3

\* What a mark is stamped with covers what its page had been shown.
LEMMA StampsGoOnCovering ==
    ASSUME InboxInv, InboxGrows, Reading!Next
    PROVE  StampsCover'
<1>1. ASSUME NEW m \in Lines, Reading!Post(m) PROVE StampsCover'
  <2>1. readAt' = readAt /\ \A q \in marks' \ marks : q.step # "stamped"
    BY <1>1 DEF Reading!Post
  <2> QED
    BY <2>1, RestIsCovered, Zenon DEF StampsCover, Covered, CoveredNext
<1>2. ASSUME NEW k \in marks, Reading!Stamp(k) PROVE StampsCover'
  <2>1. readAt' = readAt /\ sent' = sent /\ seen' = seen /\ unshown' = unshown \cup (Reading!Written \ k.shown)
        /\ k.step = "sent"
    BY <1>2 DEF Reading!Stamp
  <2>2. CoveredNext(now)
    <3>1. k.shown \subseteq seen
      BY DEF InboxInv, PagesAreReal
    <3> QED
      BY <2>1, <3>1 DEF CoveredNext, Reading!Written
  <2>3. \A q \in marks' : q \in marks \/ (q.step = "stamped" /\ q.at = now /\ q.copy = readAt)
    BY <1>2, StampedMark DEF InboxInv, Reading!Stamp
  <2>4. readAt # None => CoveredNext(readAt)
    BY RestIsCovered
  <2>5. ASSUME NEW q \in marks', q.step = "stamped"
        PROVE  CoveredNext(q.at) /\ (q.copy # None => CoveredNext(q.copy))
    BY <2>2, <2>3, <2>4, <2>5, RestIsCovered
  <2> QED
    BY <2>1, <2>4, <2>5, Zenon DEF StampsCover, Covered, CoveredNext
<1>3. ASSUME NEW k \in marks, Reading!Record(k) PROVE StampsCover'
  <2>1. readAt' = Reading!Advanced(k) /\ k.step = "stamped"
    BY <1>3 DEF Reading!Record
  <2>2. CoveredNext(Reading!Advanced(k))
    BY <2>1, RestIsCovered, AdvancedIsOne DEF InboxInv
  <2>3. \A q \in marks' : q \in marks \/ q.step = "recorded"
    BY <1>3 DEF Reading!Record
  <2>4. ASSUME NEW q \in marks', q.step = "stamped"
        PROVE  CoveredNext(q.at) /\ (q.copy # None => CoveredNext(q.copy))
    BY <2>3, <2>4, RestIsCovered
  <2>5. readAt' # None => CoveredNext(readAt')
    BY <2>1, <2>2
  <2> QED
    BY <2>4, <2>5, Zenon DEF StampsCover, Covered, CoveredNext
<1>4. ASSUME NEW k \in marks, Reading!LoseMark(k) PROVE StampsCover'
  <2>1. readAt' = readAt /\ \A q \in marks' \ marks : q.step # "stamped"
    BY <1>4 DEF Reading!LoseMark
  <2> QED
    BY <2>1, RestIsCovered, Zenon DEF StampsCover, Covered, CoveredNext
<1>5. ASSUME NEW k \in marks, Reading!Answered(k) PROVE StampsCover'
  <2>1. readAt' = readAt /\ \A q \in marks' \ marks : q.step # "stamped"
    BY <1>5 DEF Reading!Answered
  <2> QED
    BY <2>1, RestIsCovered, Zenon DEF StampsCover, Covered, CoveredNext
<1>6. ASSUME Reading!Tick PROVE StampsCover'
  <2>1. readAt' = readAt /\ \A q \in marks' \ marks : q.step # "stamped"
    BY <1>6 DEF Reading!Tick
  <2> QED
    BY <2>1, RestIsCovered, Zenon DEF StampsCover, Covered, CoveredNext
<1>7. ASSUME NEW t \in Tabs, Reading!Load(t) PROVE StampsCover'
  <2>1. readAt' = readAt /\ \A q \in marks' \ marks : q.step # "stamped"
    BY <1>7 DEF Reading!Load
  <2> QED
    BY <2>1, RestIsCovered, Zenon DEF StampsCover, Covered, CoveredNext
<1>8. ASSUME NEW t \in Tabs, Reading!Draw(t) PROVE StampsCover'
  <2>1. readAt' = readAt /\ Reading!MarkRead(t, tab[t].visible)
    BY <1>8 DEF Reading!Draw
  <2>2. \A q \in marks' \ marks : q.step # "stamped"
    BY <2>1 DEF Reading!MarkRead, Reading!Mark
  <2> QED
    BY <2>1, <2>2, RestIsCovered, Zenon DEF StampsCover, Covered, CoveredNext
<1>9. ASSUME NEW t \in Tabs, NEW m \in Lines, Reading!Receive(t, m) PROVE StampsCover'
  <2>1. readAt' = readAt /\ Reading!MarkRead(t, tab[t].visible)
    BY <1>9 DEF Reading!Receive
  <2>2. \A q \in marks' \ marks : q.step # "stamped"
    BY <2>1 DEF Reading!MarkRead, Reading!Mark
  <2> QED
    BY <2>1, <2>2, RestIsCovered, Zenon DEF StampsCover, Covered, CoveredNext
<1>10. ASSUME NEW t \in Tabs, Reading!Hide(t) PROVE StampsCover'
  <2>1. readAt' = readAt /\ \A q \in marks' \ marks : q.step # "stamped"
    BY <1>10 DEF Reading!Hide
  <2> QED
    BY <2>1, RestIsCovered, Zenon DEF StampsCover, Covered, CoveredNext
<1>11. ASSUME NEW t \in Tabs, Reading!LookAgain(t) PROVE StampsCover'
  <2>1. readAt' = readAt /\ Reading!MarkRead(t, TRUE)
    BY <1>11 DEF Reading!LookAgain
  <2>2. \A q \in marks' \ marks : q.step # "stamped"
    BY <2>1 DEF Reading!MarkRead, Reading!Mark
  <2> QED
    BY <2>1, <2>2, RestIsCovered, Zenon DEF StampsCover, Covered, CoveredNext
<1>12. ASSUME NEW t \in Tabs, Reading!TellThreads(t) PROVE StampsCover'
  <2>1. readAt' = readAt /\ \A q \in marks' \ marks : q.step # "stamped"
    BY <1>12 DEF Reading!TellThreads
  <2> QED
    BY <2>1, RestIsCovered, Zenon DEF StampsCover, Covered, CoveredNext
<1>13. ASSUME NEW t \in Tabs, Reading!Leave(t) PROVE StampsCover'
  <2>1. readAt' = readAt /\ \A q \in marks' \ marks : q.step # "stamped"
    BY <1>13 DEF Reading!Leave
  <2> QED
    BY <2>1, RestIsCovered, Zenon DEF StampsCover, Covered, CoveredNext
<1> QED
  BY <1>1, <1>2, <1>3, <1>4, <1>5, <1>6, <1>7, <1>8, <1>9, <1>10, <1>11, <1>12,
     <1>13 DEF Reading!Next

LEMMA RestHolds ==
    ASSUME InboxInv, Reading!TypeOK', InboxGrows, ~crossed'
    PROVE  \A k \in marks : k.step = "recorded" => HoldsNext(k.at)
BY HoldsStays DEF InboxInv, RecordedHolds, InstantsArePast, Past, InboxGrows

\* An instant that was recorded is not taken back by an older one.
LEMMA RecordsGoOnHolding ==
    ASSUME InboxInv, Reading!TypeOK', InboxGrows, Reading!Next
    PROVE  RecordedHolds'
<1>1. ASSUME NEW m \in Lines, Reading!Post(m) PROVE RecordedHolds'
  <2>1. \A q \in marks' \ marks : q.step # "recorded"
    BY <1>1 DEF Reading!Post
  <2> QED
    BY <2>1, RestHolds DEF RecordedHolds, Holds, HoldsNext
<1>2. ASSUME NEW k \in marks, Reading!Stamp(k) PROVE RecordedHolds'
  <2>1. \A q \in marks' : q \in marks \/ q.step = "stamped"
    BY <1>2, StampedMark DEF InboxInv, Reading!Stamp
  <2> QED
    BY <2>1, RestHolds DEF RecordedHolds, Holds, HoldsNext
<1>3. ASSUME NEW k \in marks, Reading!Record(k) PROVE RecordedHolds'
  <2>1. readAt' = Reading!Advanced(k) /\ k.step = "stamped"
    BY <1>3 DEF Reading!Record
  <2>2. \A q \in marks' : q \in marks \/ q.at = Reading!Advanced(k)
    BY <1>3 DEF Reading!Record
  <2>3. HoldsNext(Reading!Advanced(k))
    BY <2>1, AdvancedIsOne, ReadingAssumption DEF InboxInv, HoldsNext, Reading!Times
  <2> QED
    BY <2>2, <2>3, RestHolds DEF RecordedHolds, Holds, HoldsNext
<1>4. ASSUME NEW k \in marks, Reading!LoseMark(k) PROVE RecordedHolds'
  <2>1. \A q \in marks' \ marks : q.step # "recorded"
    BY <1>4 DEF Reading!LoseMark
  <2> QED
    BY <2>1, RestHolds DEF RecordedHolds, Holds, HoldsNext
<1>5. ASSUME NEW k \in marks, Reading!Answered(k) PROVE RecordedHolds'
  <2>1. \A q \in marks' \ marks : q.step # "recorded"
    BY <1>5 DEF Reading!Answered
  <2> QED
    BY <2>1, RestHolds DEF RecordedHolds, Holds, HoldsNext
<1>6. ASSUME Reading!Tick PROVE RecordedHolds'
  <2>1. \A q \in marks' \ marks : q.step # "recorded"
    BY <1>6 DEF Reading!Tick
  <2> QED
    BY <2>1, RestHolds DEF RecordedHolds, Holds, HoldsNext
<1>7. ASSUME NEW t \in Tabs, Reading!Load(t) PROVE RecordedHolds'
  <2>1. \A q \in marks' \ marks : q.step # "recorded"
    BY <1>7 DEF Reading!Load
  <2> QED
    BY <2>1, RestHolds DEF RecordedHolds, Holds, HoldsNext
<1>8. ASSUME NEW t \in Tabs, Reading!Draw(t) PROVE RecordedHolds'
  <2>1. Reading!MarkRead(t, tab[t].visible)
    BY <1>8 DEF Reading!Draw
  <2>2. \A q \in marks' \ marks : q.step # "recorded"
    BY <2>1 DEF Reading!MarkRead, Reading!Mark
  <2> QED
    BY <2>2, RestHolds DEF RecordedHolds, Holds, HoldsNext
<1>9. ASSUME NEW t \in Tabs, NEW m \in Lines, Reading!Receive(t, m) PROVE RecordedHolds'
  <2>1. Reading!MarkRead(t, tab[t].visible)
    BY <1>9 DEF Reading!Receive
  <2>2. \A q \in marks' \ marks : q.step # "recorded"
    BY <2>1 DEF Reading!MarkRead, Reading!Mark
  <2> QED
    BY <2>2, RestHolds DEF RecordedHolds, Holds, HoldsNext
<1>10. ASSUME NEW t \in Tabs, Reading!Hide(t) PROVE RecordedHolds'
  <2>1. \A q \in marks' \ marks : q.step # "recorded"
    BY <1>10 DEF Reading!Hide
  <2> QED
    BY <2>1, RestHolds DEF RecordedHolds, Holds, HoldsNext
<1>11. ASSUME NEW t \in Tabs, Reading!LookAgain(t) PROVE RecordedHolds'
  <2>1. Reading!MarkRead(t, TRUE)
    BY <1>11 DEF Reading!LookAgain
  <2>2. \A q \in marks' \ marks : q.step # "recorded"
    BY <2>1 DEF Reading!MarkRead, Reading!Mark
  <2> QED
    BY <2>2, RestHolds DEF RecordedHolds, Holds, HoldsNext
<1>12. ASSUME NEW t \in Tabs, Reading!TellThreads(t) PROVE RecordedHolds'
  <2>1. \A q \in marks' \ marks : q.step # "recorded"
    BY <1>12 DEF Reading!TellThreads
  <2> QED
    BY <2>1, RestHolds DEF RecordedHolds, Holds, HoldsNext
<1>13. ASSUME NEW t \in Tabs, Reading!Leave(t) PROVE RecordedHolds'
  <2>1. \A q \in marks' \ marks : q.step # "recorded"
    BY <1>13 DEF Reading!Leave
  <2> QED
    BY <2>1, RestHolds DEF RecordedHolds, Holds, HoldsNext
<1> QED
  BY <1>1, <1>2, <1>3, <1>4, <1>5, <1>6, <1>7, <1>8, <1>9, <1>10, <1>11, <1>12,
     <1>13 DEF Reading!Next

\* A line some mark of this tab will still make read, after the step.
WillBeReadNext(t, m) ==
    \E k \in marks' : /\ k.tab = t
                      /\ k.step = "sent" \/ (k.step = "stamped" /\ sent'[m] <= k.at)

ReadNext(t, m) == HoldsNext(sent'[m]) \/ WillBeReadNext(t, m)

\* Unless a mark is taken away, what was to be read still is.
LEMMA RestIsMarked ==
    ASSUME InboxInv, Reading!TypeOK', InboxGrows, ~crossed', marks \subseteq marks',
           NEW t \in Tabs, Reading!Open(t), tab[t].visible, NEW m \in tab[t].shown
    PROVE  ReadNext(t, m)
<1>1. m \in Reading!Written /\ sent'[m] = sent[m] /\ sent[m] \in Reading!Times /\ ~crossed
  BY DEF InboxInv, PagesAreReal, InstantsArePast, Past, InboxGrows, Reading!Open
<1>2. Holds(sent[m]) \/ WillBeRead(t, m)
  BY <1>1 DEF InboxInv, ShownIsMarked
<1>3. CASE Holds(sent[m])
  BY <1>1, <1>3, HoldsStays DEF ReadNext
<1>4. CASE WillBeRead(t, m)
  BY <1>1, <1>4 DEF ReadNext, WillBeRead, WillBeReadNext
<1> QED
  BY <1>2, <1>3, <1>4

\* Of one mark that was taken away, the others still stand.
LEMMA OtherMarksStand ==
    ASSUME InboxInv, Reading!TypeOK', InboxGrows, ~crossed', NEW k \in marks,
       marks \ {k} \subseteq marks',
           NEW t \in Tabs, Reading!Open(t), tab[t].visible, NEW m \in tab[t].shown
    PROVE  \/ ReadNext(t, m)
           \/ k.tab = t /\ (k.step = "sent" \/ (k.step = "stamped" /\ sent[m] <= k.at))
<1>1. m \in Reading!Written /\ sent'[m] = sent[m] /\ sent[m] \in Reading!Times /\ ~crossed
  BY DEF InboxInv, PagesAreReal, InstantsArePast, Past, InboxGrows, Reading!Open
<1>2. Holds(sent[m]) \/ WillBeRead(t, m)
  BY <1>1 DEF InboxInv, ShownIsMarked
<1>3. CASE Holds(sent[m])
  BY <1>1, <1>3, HoldsStays DEF ReadNext
<1>4. CASE WillBeRead(t, m)
  BY <1>1, <1>4 DEF ReadNext, WillBeRead, WillBeReadNext
<1> QED
  BY <1>2, <1>3, <1>4

\* A page that is looked at sent a mark.
LEMMA MarkedNow ==
    ASSUME NEW t \in Tabs, NEW m, \E k \in marks' : k.tab = t /\ k.step = "sent"
    PROVE  ReadNext(t, m)
BY DEF ReadNext, WillBeReadNext

\* One tab moved: it sent a mark if it is looked at, or shows nothing that was not marked.
LEMMA OnePageIsMarked ==
    ASSUME InboxInv, Reading!TypeOK', InboxGrows, ~crossed', marks \subseteq marks',
           NEW t \in Tabs, NEW mode, NEW visible, NEW shown, NEW clear,
           NowShows(t, mode, visible, shown, clear),
           mode = "open" /\ visible => \/ \E k \in marks' : k.tab = t /\ k.step = "sent"
                                       \/ Reading!Open(t) /\ tab[t].visible /\ shown = tab[t].shown
    PROVE  \A u \in Tabs : tab'[u] # None /\ tab'[u].mode = "open" /\ tab'[u].visible =>
               \A m \in tab'[u].shown : ReadNext(u, m)
<1> SUFFICES ASSUME NEW u \in Tabs, tab'[u] # None, tab'[u].mode = "open",
   tab'[u].visible,
                    NEW m \in tab'[u].shown
             PROVE  ReadNext(u, m)
  OBVIOUS
<1>1. CASE u = t
  <2>1. mode = "open" /\ visible /\ m \in shown
    BY <1>1 DEF NowShows
  <2>2. CASE \E k \in marks' : k.tab = t /\ k.step = "sent"
    BY <1>1, <2>2, MarkedNow
  <2>3. CASE Reading!Open(t) /\ tab[t].visible /\ shown = tab[t].shown
    BY <1>1, <2>1, <2>3, RestIsMarked
  <2> QED
    BY <2>1, <2>2, <2>3
<1>2. CASE u # t
  <2>1. tab'[u] = tab[u]
    BY <1>2 DEF NowShows
  <2>2. Reading!Open(u) /\ tab[u].visible /\ m \in tab[u].shown
    BY <2>1 DEF Reading!Open
  <2> QED
    BY <2>2, RestIsMarked
<1> QED
  BY <1>1, <1>2

ShownIsMarkedNext ==
    ~crossed' => \A t \in Tabs : tab'[t] # None /\ tab'[t].mode = "open" /\ tab'[t].visible =>
        \A m \in tab'[t].shown : ReadNext(t, m)

LEMMA MarkedNextIsMarked ==
    ASSUME ShownIsMarkedNext
    PROVE  ShownIsMarked'
BY DEF ShownIsMarkedNext, ShownIsMarked, ReadNext, HoldsNext, WillBeReadNext, Holds,
   WillBeRead, Reading!Open

\* What a page that is looked at shows is read, or will be by a mark of that page.
LEMMA ShownGoesOnMarked ==
    ASSUME InboxInv, Reading!TypeOK', InboxGrows, Reading!Next
    PROVE  ShownIsMarkedNext
<1>1. ASSUME NEW m \in Lines, Reading!Post(m) PROVE ShownIsMarkedNext
  <2>1. marks' = marks /\ tab' = tab
    BY <1>1 DEF Reading!Post
  <2> QED
    BY <2>1, RestIsMarked DEF ShownIsMarkedNext, Reading!Open
<1>2. ASSUME NEW k \in marks, Reading!Stamp(k) PROVE ShownIsMarkedNext
  <2> SUFFICES ASSUME ~crossed', NEW t \in Tabs, tab'[t] # None, tab'[t].mode = "open",
                      tab'[t].visible, NEW m \in tab'[t].shown
               PROVE  ReadNext(t, m)
    BY DEF ShownIsMarkedNext
  <2>1. tab' = tab /\ marks \ {k} \subseteq marks' /\ sent' = sent /\ k.step = "sent"
    BY <1>2 DEF Reading!Stamp
  <2>2. Reading!Open(t) /\ tab[t].visible /\ m \in tab[t].shown
    BY <2>1 DEF Reading!Open
  <2>3. \E q \in marks' : q.tab = k.tab /\ q.step = "stamped" /\ q.at = now
    BY <1>2, StampedMark DEF InboxInv, Reading!Stamp
  <2>4. sent'[m] <= now
    BY <2>1, <2>2 DEF InboxInv, PagesAreReal, InstantsArePast, Past, Reading!Open
  <2>5. k.tab = t => ReadNext(t, m)
    BY <2>3, <2>4 DEF ReadNext, WillBeReadNext
  <2> QED
    BY <2>1, <2>2, <2>5, OtherMarksStand
<1>3. ASSUME NEW k \in marks, Reading!Record(k) PROVE ShownIsMarkedNext
  <2> SUFFICES ASSUME ~crossed', NEW t \in Tabs, tab'[t] # None, tab'[t].mode = "open",
                      tab'[t].visible, NEW m \in tab'[t].shown
               PROVE  ReadNext(t, m)
    BY DEF ShownIsMarkedNext
  <2>1. tab' = tab /\ marks \ {k} \subseteq marks' /\ sent' = sent /\ k.step = "stamped"
        /\ readAt' = Reading!Advanced(k)
    BY <1>3 DEF Reading!Record
  <2>2. Reading!Open(t) /\ tab[t].visible /\ m \in tab[t].shown
    BY <2>1 DEF Reading!Open
  <2>3. sent[m] \in Reading!Times
    BY <2>2 DEF InboxInv, PagesAreReal, InstantsArePast, Past, Reading!Open
  <2>4. k.at \in Reading!Times /\ Reading!Advanced(k) \in Reading!Times /\ Reading!Advanced(k) >= k.at
    BY <2>1, AdvancedIsOne DEF InboxInv, InstantsArePast, Past
  <2>5. sent[m] <= k.at => HoldsNext(sent'[m])
    BY <2>1, <2>3, <2>4, ReadingAssumption DEF HoldsNext, Reading!Times
  <2> QED
    BY <2>1, <2>2, <2>5, OtherMarksStand DEF ReadNext
<1>4. ASSUME NEW k \in marks, Reading!LoseMark(k) PROVE ShownIsMarkedNext
  <2> SUFFICES ASSUME ~crossed', NEW t \in Tabs, tab'[t] # None, tab'[t].mode = "open",
                      tab'[t].visible, NEW m \in tab'[t].shown
               PROVE  ReadNext(t, m)
    BY DEF ShownIsMarkedNext
  <2>1. tab' = tab /\ marks \ {k} \subseteq marks' /\ k.step = "recorded"
    BY <1>4 DEF Reading!LoseMark
  <2>2. Reading!Open(t) /\ tab[t].visible /\ m \in tab[t].shown
    BY <2>1 DEF Reading!Open
  <2> QED
    BY <2>1, <2>2, OtherMarksStand
<1>5. ASSUME NEW k \in marks, Reading!Answered(k) PROVE ShownIsMarkedNext
  <2> SUFFICES ASSUME ~crossed', NEW t \in Tabs, tab'[t] # None, tab'[t].mode = "open",
                      tab'[t].visible, NEW m \in tab'[t].shown
               PROVE  ReadNext(t, m)
    BY DEF ShownIsMarkedNext
  <2>1. marks \ {k} \subseteq marks' /\ k.step = "recorded"
    BY <1>5 DEF Reading!Answered
  <2>2. SameView(t)
    BY <1>5, AnsweredShows DEF InboxInv
  <2>3. Reading!Open(t) /\ tab[t].visible /\ m \in tab[t].shown
    BY <2>2 DEF Reading!Open, SameView
  <2> QED
    BY <2>1, <2>3, OtherMarksStand
<1>6. ASSUME Reading!Tick PROVE ShownIsMarkedNext
  <2>1. marks' = marks /\ tab' = tab
    BY <1>6 DEF Reading!Tick
  <2> QED
    BY <2>1, RestIsMarked DEF ShownIsMarkedNext, Reading!Open
<1>7. ASSUME NEW t \in Tabs, Reading!Load(t) PROVE ShownIsMarkedNext
  <2>1. marks' = marks /\ NowShows(t, "loading", TRUE, Reading!Written, Reading!Counted)
    BY <1>7, LoadShows DEF InboxInv, Reading!Load
  <2> QED
    BY <2>1, OnePageIsMarked DEF ShownIsMarkedNext
<1>8. ASSUME NEW t \in Tabs, Reading!Draw(t) PROVE ShownIsMarkedNext
  <2>1. NowShows(t, "open", tab[t].visible, tab[t].shown, tab[t].clear)
        /\ Reading!MarkRead(t, tab[t].visible) /\ tab[t] # None
    BY <1>8, DrawShows DEF InboxInv, Reading!Draw
  <2>2. tab[t].shown \in SUBSET Lines /\ marks \subseteq Reading!Marks
    BY <2>1, ViewFields DEF InboxInv, Reading!TypeOK
  <2>3. marks \subseteq marks' /\ (tab[t].visible => \E k \in marks' : k.tab = t /\ k.step = "sent")
    BY <2>1, <2>2, MarkSends
  <2> QED
    BY <2>1, <2>3, OnePageIsMarked DEF ShownIsMarkedNext
<1>9. ASSUME NEW t \in Tabs, NEW m \in Lines, Reading!Receive(t,
   m) PROVE ShownIsMarkedNext
  <2> DEFINE shown == tab[t].shown \cup {m}
  <2>1. NowShows(t, "open", tab[t].visible, shown, tab[t].clear)
        /\ Reading!MarkRead(t, tab[t].visible) /\ tab[t] # None
    BY <1>9, ReceiveShows DEF InboxInv, Reading!Receive, Reading!Open
  <2>2. shown \in SUBSET Lines /\ marks \subseteq Reading!Marks
    BY <2>1, ViewFields DEF InboxInv, Reading!TypeOK
  <2> HIDE DEF shown
  <2>3. marks \subseteq marks' /\ (tab[t].visible => \E k \in marks' : k.tab = t /\ k.step = "sent")
    BY <2>1, <2>2, MarkSends
  <2> QED
    BY <2>1, <2>3, OnePageIsMarked DEF ShownIsMarkedNext
<1>10. ASSUME NEW t \in Tabs, Reading!Hide(t) PROVE ShownIsMarkedNext
  <2>1. marks' = marks
        /\ NowShows(t, tab[t].mode, FALSE, tab[t].shown, tab[t].clear) /\ tab[t] # None
    BY <1>10, HideShows DEF InboxInv, Reading!Hide
  <2> QED
    BY <2>1, OnePageIsMarked DEF ShownIsMarkedNext
<1>11. ASSUME NEW t \in Tabs, Reading!LookAgain(t) PROVE ShownIsMarkedNext
  <2>1. NowShows(t, tab[t].mode, TRUE, tab[t].shown, tab[t].clear)
        /\ Reading!MarkRead(t, TRUE) /\ tab[t] # None
    BY <1>11, LookShows DEF InboxInv, Reading!LookAgain
  <2>2. tab[t].shown \in SUBSET Lines /\ marks \subseteq Reading!Marks
    BY <2>1, ViewFields DEF InboxInv, Reading!TypeOK
  <2>3. marks \subseteq marks' /\ \E k \in marks' : k.tab = t /\ k.step = "sent"
    BY <2>1, <2>2, MarkSends
  <2> QED
    BY <2>1, <2>3, OnePageIsMarked DEF ShownIsMarkedNext
<1>12. ASSUME NEW t \in Tabs, Reading!TellThreads(t) PROVE ShownIsMarkedNext
  <2>1. marks' = marks /\ Reading!Open(t)
        /\ NowShows(t, "open", tab[t].visible, tab[t].shown, Reading!Counted)
    BY <1>12, TellShows DEF InboxInv, Reading!TellThreads
  <2> QED
    BY <2>1, OnePageIsMarked DEF ShownIsMarkedNext
<1>13. ASSUME NEW t \in Tabs, Reading!Leave(t) PROVE ShownIsMarkedNext
  <2>1. marks' = marks
    BY <1>13 DEF Reading!Leave
  <2>2. \A u \in Tabs : tab'[u] # None => tab'[u] = tab[u]
    BY <1>13 DEF InboxInv, Reading!TypeOK, Reading!Leave
  <2> QED
    BY <2>1, <2>2, RestIsMarked DEF ShownIsMarkedNext, Reading!Open
<1> QED
  BY <1>1, <1>2, <1>3, <1>4, <1>5, <1>6, <1>7, <1>8, <1>9, <1>10, <1>11, <1>12,
     <1>13 DEF Reading!Next

\* Nothing older than this is unread after the step.
NothingOlderNext(instant) ==
    \A m \in Reading!Written' : sent'[m] < instant => HoldsNext(sent'[m])

LEMMA RestIsClear ==
    ASSUME InboxInv, Reading!TypeOK', InboxGrows, ~crossed'
    PROVE  \A t \in Tabs : tab[t] # None /\ tab[t].clear # None => NothingOlderNext(tab[t].clear)
BY NothingOlderStays DEF NothingOlderNext, InboxInv, ListsAreClear, InstantsArePast,
   InboxGrows

LEMMA CountIsClear ==
    ASSUME InboxInv, Reading!TypeOK', InboxGrows, ~crossed', Reading!Counted # None
    PROVE  NothingOlderNext(Reading!Counted)
<1>1. Reading!Counted = now /\ NothingOlder(now) /\ Past(now)
  BY CountedNothing, ReadingAssumption DEF InboxInv, Reading!TypeOK, Past, Reading!Times
<1> QED
  BY <1>1, NothingOlderStays DEF NothingOlderNext

ListsAreClearNext ==
    ~crossed' => \A t \in Tabs : tab'[t] # None /\ tab'[t].clear # None =>
        NothingOlderNext(tab'[t].clear)

LEMMA ClearNextIsClear ==
    ASSUME ListsAreClearNext
    PROVE  ListsAreClear'
BY DEF ListsAreClearNext, ListsAreClear, NothingOlderNext, NothingOlder, HoldsNext,
   Holds

\* A list that tells of nothing unread was right when it was counted, and is still of
\* what was written by then.
LEMMA ListsStayClear ==
    ASSUME InboxInv, Reading!TypeOK', InboxGrows, Reading!Next
    PROVE  ListsAreClearNext
<1>1. ASSUME NEW m \in Lines, Reading!Post(m) PROVE ListsAreClearNext
  <2>1. tab' = tab
    BY <1>1 DEF Reading!Post
  <2> QED
    BY <2>1, RestIsClear DEF ListsAreClearNext
<1>2. ASSUME NEW k \in marks, Reading!Stamp(k) PROVE ListsAreClearNext
  <2>1. tab' = tab
    BY <1>2 DEF Reading!Stamp
  <2> QED
    BY <2>1, RestIsClear DEF ListsAreClearNext
<1>3. ASSUME NEW k \in marks, Reading!Record(k) PROVE ListsAreClearNext
  <2>1. tab' = tab
    BY <1>3 DEF Reading!Record
  <2> QED
    BY <2>1, RestIsClear DEF ListsAreClearNext
<1>4. ASSUME NEW k \in marks, Reading!LoseMark(k) PROVE ListsAreClearNext
  <2>1. tab' = tab
    BY <1>4 DEF Reading!LoseMark
  <2> QED
    BY <2>1, RestIsClear DEF ListsAreClearNext
<1>5. ASSUME NEW k \in marks, Reading!Answered(k) PROVE ListsAreClearNext
  <2> SUFFICES ASSUME ~crossed', NEW t \in Tabs, tab'[t] # None, tab'[t].clear # None
               PROVE  NothingOlderNext(tab'[t].clear)
    BY DEF ListsAreClearNext
  <2>1. CASE t = k.tab /\ Reading!Open(t)
    <3>1. tab[t] \in Reading!Views
      BY <2>1, ViewFields DEF InboxInv, Reading!Open
    <3>2. tab'[t] = [tab[t] EXCEPT !.clear = k.at]
      BY <1>5, <2>1 DEF Reading!Answered
    <3>3. tab'[t].clear = k.at /\ k.step = "recorded"
      BY <1>5, <3>1, <3>2 DEF Reading!Views, Reading!Answered
    <3>4. Past(k.at) /\ Holds(k.at)
      BY <3>3 DEF InboxInv, InstantsArePast, RecordedHolds, InboxGrows
    <3>5. NothingOlder(k.at)
      BY <3>4, ReadingAssumption DEF NothingOlder, Holds, InboxInv, InstantsArePast,
         Past, Reading!TypeOK, Reading!OrNone, Reading!Times
    <3>6. NothingOlderNext(k.at)
      BY <3>4, <3>5, NothingOlderStays DEF NothingOlderNext
    <3> QED
      BY <3>3, <3>6
  <2>2. CASE ~(t = k.tab /\ Reading!Open(t))
    <3>1. tab'[t] = tab[t]
      BY <1>5, <2>2 DEF Reading!Answered
    <3> QED
      BY <3>1, RestIsClear
  <2> QED
    BY <2>1, <2>2
<1>6. ASSUME Reading!Tick PROVE ListsAreClearNext
  <2>1. tab' = tab
    BY <1>6 DEF Reading!Tick
  <2> QED
    BY <2>1, RestIsClear DEF ListsAreClearNext
<1>7. ASSUME NEW t \in Tabs, Reading!Load(t) PROVE ListsAreClearNext
  <2>1. NowShows(t, "loading", TRUE, Reading!Written, Reading!Counted)
    BY <1>7, LoadShows DEF InboxInv
  <2> QED
    BY <2>1, RestIsClear, CountIsClear DEF ListsAreClearNext, NowShows
<1>8. ASSUME NEW t \in Tabs, Reading!Draw(t) PROVE ListsAreClearNext
  <2>1. NowShows(t, "open", tab[t].visible, tab[t].shown, tab[t].clear) /\ tab[t] # None
    BY <1>8, DrawShows DEF InboxInv, Reading!Draw
  <2> QED
    BY <2>1, RestIsClear DEF ListsAreClearNext, NowShows
<1>9. ASSUME NEW t \in Tabs, NEW m \in Lines, Reading!Receive(t,
   m) PROVE ListsAreClearNext
  <2>1. NowShows(t, "open", tab[t].visible, tab[t].shown \cup {m}, tab[t].clear) /\ tab[t] # None
    BY <1>9, ReceiveShows DEF InboxInv, Reading!Receive, Reading!Open
  <2> QED
    BY <2>1, RestIsClear DEF ListsAreClearNext, NowShows
<1>10. ASSUME NEW t \in Tabs, Reading!Hide(t) PROVE ListsAreClearNext
  <2>1. NowShows(t, tab[t].mode, FALSE, tab[t].shown, tab[t].clear) /\ tab[t] # None
    BY <1>10, HideShows DEF InboxInv, Reading!Hide
  <2> QED
    BY <2>1, RestIsClear DEF ListsAreClearNext, NowShows
<1>11. ASSUME NEW t \in Tabs, Reading!LookAgain(t) PROVE ListsAreClearNext
  <2>1. NowShows(t, tab[t].mode, TRUE, tab[t].shown, tab[t].clear) /\ tab[t] # None
    BY <1>11, LookShows DEF InboxInv, Reading!LookAgain
  <2> QED
    BY <2>1, RestIsClear DEF ListsAreClearNext, NowShows
<1>12. ASSUME NEW t \in Tabs, Reading!TellThreads(t) PROVE ListsAreClearNext
  <2>1. NowShows(t, "open", tab[t].visible, tab[t].shown, Reading!Counted)
    BY <1>12, TellShows DEF InboxInv
  <2> QED
    BY <2>1, RestIsClear, CountIsClear DEF ListsAreClearNext, NowShows
<1>13. ASSUME NEW t \in Tabs, Reading!Leave(t) PROVE ListsAreClearNext
  <2>1. \A u \in Tabs : tab'[u] # None => tab'[u] = tab[u]
    BY <1>13 DEF InboxInv, Reading!TypeOK, Reading!Leave
  <2> QED
    BY <2>1, RestIsClear DEF ListsAreClearNext
<1> QED
  BY <1>1, <1>2, <1>3, <1>4, <1>5, <1>6, <1>7, <1>8, <1>9, <1>10, <1>11, <1>12,
     <1>13 DEF Reading!Next

LEMMA InboxBegins == Reading!Init => InboxInv
<1> SUFFICES ASSUME Reading!Init PROVE InboxInv
  OBVIOUS
<1>1. Reading!TypeOK
  <2>1. now \in Reading!Times
    BY ReadingAssumption DEF Reading!Init, Reading!Times
  <2>2. sent \in [Lines -> Reading!OrNone(Reading!Times)] /\ tab \in [Tabs -> Reading!OrNone(Reading!Views)]
    BY DEF Reading!Init, Reading!OrNone
  <2>3. events \in [Tabs -> SUBSET Lines] /\ readAt \in Reading!OrNone(Reading!Times) /\ marks \subseteq Reading!Marks
    BY DEF Reading!Init, Reading!OrNone
  <2> QED
    BY <2>1, <2>2, <2>3 DEF Reading!Init, Reading!TypeOK
<1>2. Reading!Written = {}
  BY DEF Reading!Init, Reading!Written
<1> QED
  BY <1>1, <1>2 DEF Reading!Init, InboxInv, InstantsArePast, PagesAreReal, StampsCover,
     RecordedHolds,
     ShownIsMarked, ListsAreClear, Reading!Open

LEMMA InboxGoesOn ==
    ASSUME InboxInv, [Reading!Next]_(Reading!vars)
    PROVE  InboxInv'
<1>1. CASE Reading!Next
  <2>1. Reading!TypeOK' /\ InboxGrows
    BY <1>1, InboxTyped, InboxOnlyGrows
  <2>2. InstantsArePast' /\ PagesAreReal' /\ StampsCover' /\ RecordedHolds'
    BY <1>1, <2>1, InstantsStayPast, PagesStayReal, StampsGoOnCovering,
       RecordsGoOnHolding
  <2>3. ShownIsMarked' /\ ListsAreClear'
    BY <1>1, <2>1, ShownGoesOnMarked, MarkedNextIsMarked, ListsStayClear,
       ClearNextIsClear
  <2> QED
    BY <2>1, <2>2, <2>3 DEF InboxInv
<1>2. CASE UNCHANGED (Reading!vars)
  BY <1>2 DEF Reading!vars, InboxInv, Reading!TypeOK, Reading!Written, InstantsArePast,
     Past, PagesAreReal, StampsCover,
     Covered, RecordedHolds, Holds, ShownIsMarked, WillBeRead, ListsAreClear, NothingOlder, Reading!Open
<1> QED
  BY <1>1, <1>2

LEMMA InboxIsTrue ==
    ASSUME InboxInv
    PROVE  Reading!ReadIsTrue
<1>1. ASSUME NEW m \in Lines, Reading!IsRead(m)
      PROVE  m \in seen \cup unshown \/ sent[m] = readAt
  <2>1. m \in Reading!Written /\ readAt # None /\ ~(sent[m] > readAt) /\ sent[m] # None
    BY <1>1 DEF Reading!IsRead, Reading!IsUnread, Reading!Written
  <2>2. sent[m] <= readAt
    BY <2>1, ReadingAssumption DEF InboxInv, InstantsArePast, Past, Reading!Times
  <2> QED
    BY <2>1, <2>2 DEF InboxInv, StampsCover, Covered
<1>2. ASSUME NEW m \in Reading!Written, Holds(sent[m])
      PROVE  Reading!IsRead(m)
  BY <1>2, ReadingAssumption DEF Reading!IsRead, Reading!IsUnread, Holds,
     Reading!Written, InboxInv, InstantsArePast, Past, Reading!Times
<1>3. ASSUME NEW t \in Tabs, Reading!Open(t), tab[t].visible, Reading!Quiet(t),
   ~crossed, NEW m \in tab[t].shown
      PROVE  Reading!IsRead(m)
  <2>1. Holds(sent[m]) \/ WillBeRead(t, m)
    BY <1>3 DEF InboxInv, ShownIsMarked
  <2>2. ~WillBeRead(t, m)
    BY <1>3 DEF Reading!Quiet, WillBeRead
  <2>3. m \in Reading!Written
    BY <1>3 DEF InboxInv, PagesAreReal, Reading!Open
  <2> QED
    BY <1>2, <2>1, <2>2, <2>3
<1>4. ASSUME NEW t \in Tabs, tab[t] # None, tab[t].clear # None, ~crossed,
             NEW m \in Lines, Reading!IsUnread(m, readAt)
      PROVE  sent[m] >= tab[t].clear
  <2>1. m \in Reading!Written
    BY <1>4 DEF Reading!IsUnread, Reading!Written
  <2>2. ~Holds(sent[m])
    BY <1>2, <1>4, <2>1 DEF Reading!IsRead
  <2>3. ~(sent[m] < tab[t].clear)
    BY <1>4, <2>1, <2>2 DEF InboxInv, ListsAreClear, NothingOlder
  <2>4. sent[m] \in Reading!Times /\ tab[t].clear \in Reading!Times
    BY <1>4, <2>1 DEF InboxInv, InstantsArePast, Past
  <2> QED
    BY <2>3, <2>4, ReadingAssumption DEF Reading!Times
<1>5. Reading!ReadWasSeen
  BY <1>1 DEF Reading!ReadWasSeen
<1>6. Reading!OpenIsRead
  BY <1>3 DEF Reading!OpenIsRead
<1>7. Reading!NothingHidden
  BY <1>4 DEF Reading!NothingHidden
<1> QED
  BY <1>5, <1>6, <1>7 DEF Reading!ReadIsTrue

\* However marks overlap, are lost or come late, the invariant of the inbox holds.
THEOREM InboxInvariant == Reading!Spec => []InboxInv
BY InboxBegins, InboxGoesOn, PTL DEF Reading!Spec

\* A step of the scene of the reader is a step of the inbox.
LEMMA ReaderGoesOn ==
    ASSUME scene = "reading", [ThreadNext]_<<scene, vars, ReadingVars>>
    PROVE  scene' = "reading" /\ [Reading!Next]_(Reading!vars)
BY DEF ThreadNext, In, Read, ReadingVars, Reading!vars, Reading!Next

SceneHolds == scene = "reading" => InboxInv

LEMMA SceneGoesOn ==
    ASSUME SceneHolds, [ThreadNext]_<<scene, vars, ReadingVars>>
    PROVE  SceneHolds'
<1>1. CASE scene = "reading"
  BY <1>1, ReaderGoesOn, InboxGoesOn DEF SceneHolds
<1>2. CASE scene # "reading"
  <2>1. scene' = scene
    BY <1>2 DEF ThreadNext, In, Read
  <2> QED
    BY <1>2, <2>1 DEF SceneHolds
<1> QED
  BY <1>1, <1>2

\* What a party is told it has read is what it was shown, and a list that tells of
\* nothing unread hides nothing: for any number of lines, tabs and marks on their way
\* (POST .../messages/read, markRead and its callers, the unread counts).
THEOREM ReadingIsTrue == ThreadSpec => []ReadIsTrue
<1>1. ThreadInit => SceneHolds
  BY InboxBegins DEF ThreadInit, SceneHolds
<1>2. SceneHolds => ReadIsTrue
  BY InboxIsTrue DEF SceneHolds, ReadIsTrue
<1> QED
  BY <1>1, <1>2, SceneGoesOn, PTL DEF ThreadSpec
================================================================================
