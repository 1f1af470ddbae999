-------------------------------- MODULE Uploads --------------------------------
(* The files of a conversation, of one account: an upload writes its files and    *)
(* then its row, a message posted afterwards names the rows it carries, and a     *)
(* sweep removes what no message carried in time. The quota of unsent uploads     *)
(* counts stored rows and, in the memory of the process, the uploads that are     *)
(* still on their way; that memory is kept per DID, so one account is enough.     *)
(*                                                                              *)
(* One step per await: uploads, posts and the sweep interleave anywhere, each of *)
(* their storage calls may fail, and the process may die.                        *)
EXTENDS FiniteSets, Integers

CONSTANTS Uploads, Messages,
          Threads,      \* the jobs whose conversation they belong to
          JobCap,       \* UNSENT_UPLOADS_PER_JOB
          AccountCap,   \* UNSENT_UPLOADS_PER_ACCOUNT
          None

ASSUME UploadsAssumption ==
    /\ IsFiniteSet(Uploads)
    /\ JobCap \in Nat \ {0} /\ AccountCap \in Nat \ {0}
    /\ None \notin Messages \cup Uploads

VARIABLES writable,  \* the threads whose job has not ended
          request,   \* the POST /attachments of each upload
          held,      \* the places held in this process
          row,       \* the stored rows, None where there is none
          files,     \* the uploads whose files are on disk
          post,      \* the POST /messages of each message
          carries,   \* the stored messages and the uploads they name; None: not stored
          sweep,     \* the sweep that runs, if one does
          raced,     \* history: expired between a post's check and its write
          dropped    \* history: a crash or a failed write or removal left the files behind

vars == <<writable, request, held, row, files, post, carries, sweep, raced, dropped>>

posting == <<post, carries>>
uploading == <<request, held>>

Requests == [phase : {"none", "sweeping", "reading", "queried", "held", "written", "created", "done"},
             job : Threads \cup {None}, seen : SUBSET Uploads, stale : BOOLEAN]
Rows == [job : Threads, expired : BOOLEAN, message : Messages \cup {None}]
Posts == [phase : {"none", "checking", "stored", "done"}, job : Threads \cup {None},
          names : SUBSET Uploads, left : SUBSET Uploads, attached : SUBSET Uploads]
NoSweep == [by |-> None, left |-> {}, at |-> None, carrier |-> None, fileGone |-> FALSE]

\* A stored row is never missing.
ASSUME RowsAssumption == None \notin Rows

TypeOK ==
    /\ writable \subseteq Threads
    /\ request \in [Uploads -> Requests]
    /\ held \subseteq Uploads
    /\ row \in [Uploads -> Rows \cup {None}]
    /\ files \subseteq Uploads
    /\ post \in [Messages -> Posts]
    /\ carries \in [Messages -> {None} \cup SUBSET Uploads]
    /\ sweep \in [by : Uploads \cup {None}, left : SUBSET Uploads, at : Uploads \cup {None},
                  carrier : Messages \cup {None}, fileGone : BOOLEAN]
    /\ raced \subseteq Uploads /\ dropped \subseteq Uploads

Init ==
    /\ writable = Threads
    /\ request = [u \in Uploads |->
                     [phase |-> "none", job |-> None, seen |-> {}, stale |-> FALSE]]
    /\ held = {}
    /\ row = [u \in Uploads |-> None]
    /\ files = {}
    /\ post = [m \in Messages |->
                  [phase |-> "none", job |-> None, names |-> {}, left |-> {}, attached |-> {}]]
    /\ carries = [m \in Messages |-> None]
    /\ sweep = NoSweep
    /\ raced = {}
    /\ dropped = {}

--------------------------------------------------------------------------------
(* What storage answers.                                                        *)

Stored(m) == carries[m] # None
Unsent(u) == row[u] # None /\ row[u].message = None

\* listUnsentByUploader, with the caller's window of an hour.
Counting == {u \in Uploads : Unsent(u) /\ ~row[u].expired}

\* listUnsentOlderThan.
Overdue == {u \in Uploads : Unsent(u) /\ row[u].expired}

\* The uploads the stored messages of one thread name.
Attached(j) ==
    UNION {carries[m] : m \in {n \in Messages : Stored(n) /\ post[n].job = j}}

\* The first message of the thread that carries u.
Carriers(u) == {m \in Messages : Stored(m) /\ u \in carries[m]}

--------------------------------------------------------------------------------
(* POST /jobs/:jobId/attachments.                                               *)

Goes(u, phase) ==
    request' = [request EXCEPT ![u] = [@ EXCEPT !.phase = phase, !.seen = {}, !.stale = FALSE]]

\* A read of the stored rows begins; a release from now on makes it stale.
BeginRead(u) == [request EXCEPT ![u] = [@ EXCEPT !.phase = "reading", !.stale = FALSE]]

\* sweepUnsentUploads first, for the request that finds its interval over.
Arrive(u, j) ==
    /\ request[u].phase = "none" /\ j \in writable
    /\ \/ /\ request' = [request EXCEPT ![u] = [phase |-> "reading", job |-> j,
                                                seen |-> {}, stale |-> FALSE]]
          /\ UNCHANGED sweep
       \/ /\ sweep = NoSweep
          /\ request' = [request EXCEPT ![u] = [phase |-> "sweeping", job |-> j,
                                                seen |-> {}, stale |-> FALSE]]
          /\ sweep' = [NoSweep EXCEPT !.by = u, !.left = Overdue]
    /\ UNCHANGED <<writable, held, row, files, posting, raced, dropped>>

\* reserveUnsentUpload: the rows as the database answers them ...
QueryStored(u) ==
    /\ request[u].phase = "reading"
    /\ request' = [request EXCEPT ![u] = [@ EXCEPT !.phase = "queried", !.seen = Counting]]
    /\ UNCHANGED <<writable, held, row, files, posting, sweep, raced, dropped>>

\* unsentUploadCapReached, of the rows read and of the places that are in none of them.
CapReached(u) ==
    LET counted == {v \in request[u].seen : row[v] # None => ~row[v].expired}
                   \cup (held \ request[u].seen)
    IN  \/ Cardinality({v \in counted : request[v].job = request[u].job}) >= JobCap
        \/ Cardinality(counted) >= AccountCap

DecideOnce(u) ==
    /\ request[u].phase = "queried"
    /\ IF CapReached(u)
       THEN Goes(u, "done") /\ UNCHANGED held
       ELSE Goes(u, "held") /\ held' = held \cup {u}
    /\ UNCHANGED <<writable, row, files, posting, sweep, raced, dropped>>

\* ... and, in one stretch once they are here, the count and the hold: unless a place was
\* given back during the read, which repeats it.
Decide(u) ==
    /\ request[u].phase = "queried"
    /\ \/ request[u].stale /\ request' = BeginRead(u) /\ UNCHANGED held
       \/ ~request[u].stale /\ CapReached(u) /\ Goes(u, "done") /\ UNCHANGED held
       \/ ~request[u].stale /\ ~CapReached(u) /\ Goes(u, "held") /\ held' = held \cup {u}
    /\ UNCHANGED <<writable, row, files, posting, sweep, raced, dropped>>

WriteFiles(u) ==
    /\ request[u].phase = "held"
    /\ Goes(u, "written")
    /\ files' = files \cup {u}
    /\ UNCHANGED <<writable, held, row, posting, sweep, raced, dropped>>

CreateRow(u) ==
    /\ request[u].phase = "written"
    /\ row' = [row EXCEPT ![u] = [job |-> request[u].job, expired |-> FALSE, message |-> None]]
    /\ Goes(u, "created")
    /\ UNCHANGED <<writable, held, files, posting, sweep, raced, dropped>>

\* releaseUnsentUpload: every read under way repeats itself.
Released(u) ==
    /\ held' = held \ {u}
    /\ request' = [v \in Uploads |->
                      IF v = u THEN [request[v] EXCEPT !.phase = "done"]
                      ELSE [request[v] EXCEPT !.stale = (request[v].phase \in {"reading", "queried"})]]

\* The answer: bytes that are refused, or the row.
Answer(u) ==
    /\ request[u].phase \in {"held", "created"}
    /\ Released(u)
    /\ UNCHANGED <<writable, row, files, posting, sweep, raced, dropped>>

\* The second of two files, the thumbnail, cannot be written: the first one stays.
WriteFails(u) ==
    /\ request[u].phase = "held"
    /\ Released(u)
    /\ files' = files \cup {u}
    /\ dropped' = dropped \cup {u}
    /\ UNCHANGED <<writable, row, posting, sweep, raced>>

CreateFailsKeepingFiles(u) ==
    /\ request[u].phase = "written"
    /\ Released(u)
    /\ UNCHANGED <<writable, row, files, posting, sweep, raced, dropped>>

\* A row that cannot be created takes its files with it, unless removing them fails too.
CreateFails(u) ==
    /\ request[u].phase = "written"
    /\ Released(u)
    /\ \/ files' = files \ {u} /\ UNCHANGED dropped
       \/ dropped' = dropped \cup {u} /\ UNCHANGED files
    /\ UNCHANGED <<writable, row, posting, sweep, raced>>

--------------------------------------------------------------------------------
(* POST /jobs/:jobId/messages, of a message that names uploads.                 *)

Post(m, j, names) ==
    /\ post[m].phase = "none" /\ j \in writable
    /\ names # {}
    /\ post' = [post EXCEPT ![m] = [phase |-> "checking", job |-> j, names |-> names,
                                    left |-> names, attached |-> Attached(j)]]
    /\ UNCHANGED <<writable, uploading, row, files, carries, sweep, raced, dropped>>

\* findById of one named upload, and the checks on it; anything else refuses the message.
Qualifies(m, u) ==
    row[u] # None /\ row[u].job = post[m].job /\ u \notin post[m].attached /\ ~row[u].expired

Check(m, u) ==
    /\ post[m].phase = "checking" /\ u \in post[m].left
    /\ post' = IF Qualifies(m, u) THEN [post EXCEPT ![m].left = @ \ {u}]
               ELSE [post EXCEPT ![m].phase = "done"]
    /\ UNCHANGED <<writable, uploading, row, files, carries, sweep, raced, dropped>>

CreateMessage(m) ==
    /\ post[m].phase = "checking" /\ post[m].left = {}
    /\ carries' = [carries EXCEPT ![m] = post[m].names]
    /\ post' = [post EXCEPT ![m].phase = "stored"]
    /\ UNCHANGED <<writable, uploading, row, files, sweep, raced, dropped>>

\* markSent, of the rows that are there.
Marked(us, m) ==
    [u \in Uploads |-> IF u \in us /\ row[u] # None THEN [row[u] EXCEPT !.message = m] ELSE row[u]]

MarkSent(m) ==
    /\ post[m].phase = "stored"
    /\ row' = Marked(post[m].names, m)
    /\ post' = [post EXCEPT ![m].phase = "done"]
    /\ UNCHANGED <<writable, uploading, files, carries, sweep, raced, dropped>>

\* A message that cannot be stored, or a mark that fails: the message is kept.
PostEnds(m) ==
    /\ post[m].phase \in {"checking", "stored"}
    /\ post' = [post EXCEPT ![m].phase = "done"]
    /\ UNCHANGED <<writable, uploading, row, files, carries, sweep, raced, dropped>>

--------------------------------------------------------------------------------
(* sweepUnsentUploads. Two sweeps are ten minutes apart and are taken not to      *)
(* overlap.                                                                     *)

SweepBlindly(u) ==
    /\ sweep.by # None /\ sweep.at = None /\ u \in sweep.left
    /\ sweep' = [sweep EXCEPT !.at = u]
    /\ UNCHANGED <<writable, uploading, row, files, posting, raced, dropped>>

\* The thread's messages are read again for each row.
SweepLook(u) ==
    /\ sweep.by # None /\ sweep.at = None /\ u \in sweep.left
    /\ \/ Carriers(u) = {} /\ sweep' = [sweep EXCEPT !.at = u]
       \/ \E m \in Carriers(u) : sweep' = [sweep EXCEPT !.at = u, !.carrier = m]
    /\ UNCHANGED <<writable, uploading, row, files, posting, raced, dropped>>

SweepOver == [sweep EXCEPT !.left = @ \ {sweep.at}, !.at = None, !.carrier = None, !.fileGone = FALSE]

\* A carried upload is marked; any other loses its files and then its row.
SweepMark ==
    /\ sweep.at # None /\ sweep.carrier # None
    /\ row' = Marked({sweep.at}, sweep.carrier)
    /\ sweep' = SweepOver
    /\ UNCHANGED <<writable, uploading, files, posting, raced, dropped>>

SweepFiles ==
    /\ sweep.at # None /\ sweep.carrier = None /\ ~sweep.fileGone
    /\ files' = files \ {sweep.at}
    /\ sweep' = [sweep EXCEPT !.fileGone = TRUE]
    /\ UNCHANGED <<writable, uploading, row, posting, raced, dropped>>

SweepRow ==
    /\ sweep.at # None /\ sweep.fileGone
    /\ row' = [row EXCEPT ![sweep.at] = None]
    /\ sweep' = SweepOver
    /\ UNCHANGED <<writable, uploading, files, posting, raced, dropped>>

\* A row that fails anywhere is logged and skipped.
SweepSkips ==
    /\ sweep.at # None
    /\ sweep' = SweepOver
    /\ UNCHANGED <<writable, uploading, row, files, posting, raced, dropped>>

\* The request that swept goes on.
EndSweep ==
    /\ sweep.by # None /\ sweep.at = None /\ sweep.left = {}
    /\ request' = BeginRead(sweep.by)
    /\ sweep' = NoSweep
    /\ UNCHANGED <<writable, held, row, files, posting, raced, dropped>>

--------------------------------------------------------------------------------
(* Time and failure.                                                            *)

\* UNSENT_UPLOAD_TTL_MS passes for one row.
Expire(u) ==
    /\ row[u] # None /\ ~row[u].expired
    /\ row' = [row EXCEPT ![u].expired = TRUE]
    /\ raced' = IF \E m \in Messages : /\ post[m].phase = "checking"
                                       /\ u \in post[m].names \ post[m].left
                THEN raced \cup {u} ELSE raced
    /\ UNCHANGED <<writable, uploading, files, posting, sweep, dropped>>

\* The hire ends: threadIsWritable is FALSE from now on, for requests not yet past it.
CloseThread(j) ==
    /\ j \in writable
    /\ writable' = writable \ {j}
    /\ UNCHANGED <<uploading, row, files, posting, sweep, raced, dropped>>

\* The process dies, with every request, place and sweep in it.
Crash ==
    /\ request' = [u \in Uploads |->
                      IF request[u].phase = "none" THEN request[u]
                      ELSE [request[u] EXCEPT !.phase = "done", !.seen = {}, !.stale = FALSE]]
    /\ held' = {}
    /\ post' = [m \in Messages |->
                   IF post[m].phase = "none" THEN post[m] ELSE [post[m] EXCEPT !.phase = "done"]]
    /\ sweep' = NoSweep
    /\ dropped' = dropped \cup {u \in Uploads : request[u].phase = "written"}
    /\ UNCHANGED <<writable, row, files, carries, raced>>

Next ==
    \/ \E u \in Uploads :
           \/ \E j \in Threads : Arrive(u, j)
           \/ QueryStored(u)
           \/ Decide(u)
           \/ WriteFiles(u)
           \/ WriteFails(u)
           \/ CreateRow(u)
           \/ CreateFails(u)
           \/ Answer(u)
           \/ SweepLook(u)
           \/ Expire(u)
    \/ \E m \in Messages :
           \/ \E j \in Threads, names \in SUBSET Uploads : Post(m, j, names)
           \/ \E u \in Uploads : Check(m, u)
           \/ CreateMessage(m)
           \/ MarkSent(m)
           \/ PostEnds(m)
    \/ \E j \in Threads : CloseThread(j)
    \/ SweepMark
    \/ SweepFiles
    \/ SweepRow
    \/ SweepSkips
    \/ EndSweep
    \/ Crash

Spec == Init /\ [][Next]_vars

--------------------------------------------------------------------------------
(* Properties.                                                                  *)

\* However many uploads arrive at once, those admitted and those stored unsent never
\* pass either cap together: no upload is for a moment in neither the rows nor the
\* places (reserveUnsentUpload).
QuotaKept ==
    LET unsent == {u \in Uploads : request[u].phase \in {"held", "written"}} \cup Counting
    IN  /\ Cardinality(unsent) <= AccountCap
        /\ \A j \in Threads : Cardinality({u \in unsent : request[u].job = j}) <= JobCap

\* What a message carries is there to be read: neither a mark that failed, nor a crash,
\* nor a sweep loses the files or the row of a message that was stored, unless the hour
\* ended between the check of the upload and the write of the message.
CarriedFileStays ==
    \A m \in Messages : Stored(m) =>
        \A u \in carries[m] \ raced : row[u] # None /\ u \in files

\* A file on disk has a row, or a request or a sweep that will see to it: only a crash
\* between the file and the row, a thumbnail that could not be written or a removal that
\* failed leaves it behind (POST /attachments: "nothing else would remove them").
FilesAreKnown ==
    \A u \in files : row[u] # None \/ request[u].phase = "written" \/ u \in dropped

\* No file is lost and none is left over.
FilesAreKept == CarriedFileStays /\ FilesAreKnown
================================================================================
