------------------------------- MODULE MCUploads -------------------------------
(* What a conversation carries and what is read of it, for TLC, in two scenes     *)
(* that share nothing: three uploads and a message, enough to fill either cap and *)
(* to be refused by it; and one tab over two lines of the other party, with two   *)
(* marks on their way at once.                                                    *)
EXTENDS Uploads, TLC

CONSTANTS Tabs, Lines, MaxNow, MaxMarks

VARIABLES scene,
          now, seat, sent, readAt, marks, tab, events, seen, unshown, crossed

Reading == INSTANCE Inbox WITH Messages <- Lines

\* The lines are finitely many, the clock's bound is a number, and no instant and no
\* tab is null.
ASSUME ReadingAssumption ==
    /\ IsFiniteSet(Lines) /\ MaxNow \in Nat
    /\ None \notin Nat /\ None \notin Reading!Views

ReadingVars == <<now, seat, sent, readAt, marks, tab, events, seen, unshown, crossed>>

NothingToRead ==
    /\ now = None /\ seat = None /\ sent = None /\ readAt = None /\ marks = {}
    /\ tab = None /\ events = None /\ seen = None /\ unshown = None /\ crossed = None

ThreadInit ==
    \/ scene = "uploads" /\ Init /\ NothingToRead
    \/ scene = "reading" /\ Init /\ Reading!Init

In == scene = "uploads" /\ UNCHANGED <<scene, ReadingVars>>
Read == scene = "reading" /\ UNCHANGED <<scene, vars>>

ThreadNext ==
    \/ \E u \in Uploads, j \in Threads : In /\ Arrive(u, j)
    \/ \E u \in Uploads : In /\ QueryStored(u)
    \/ \E u \in Uploads : In /\ Decide(u)
    \/ \E u \in Uploads : In /\ WriteFiles(u)
    \/ \E u \in Uploads : In /\ WriteFails(u)
    \/ \E u \in Uploads : In /\ CreateRow(u)
    \/ \E u \in Uploads : In /\ CreateFails(u)
    \/ \E u \in Uploads : In /\ Answer(u)
    \/ \E u \in Uploads : In /\ SweepLook(u)
    \/ \E u \in Uploads : In /\ Expire(u)
    \/ \E m \in Messages, j \in Threads, names \in SUBSET Uploads : In /\ Post(m, j, names)
    \/ \E m \in Messages, u \in Uploads : In /\ Check(m, u)
    \/ \E m \in Messages : In /\ CreateMessage(m)
    \/ \E m \in Messages : In /\ MarkSent(m)
    \/ \E m \in Messages : In /\ PostEnds(m)
    \/ \E j \in Threads : In /\ CloseThread(j)
    \/ In /\ SweepMark
    \/ In /\ SweepFiles
    \/ In /\ SweepRow
    \/ In /\ SweepSkips
    \/ In /\ EndSweep
    \/ In /\ Crash
    \/ \E m \in Lines : Read /\ Reading!Post(m)
    \/ \E k \in marks : Read /\ Reading!Stamp(k)
    \/ \E k \in marks : Read /\ Reading!Record(k)
    \/ \E k \in marks : Read /\ Reading!LoseMark(k)
    \/ \E k \in marks : Read /\ Reading!Answered(k)
    \/ Read /\ Reading!Tick
    \/ \E t \in Tabs : Read /\ Reading!Load(t)
    \/ \E t \in Tabs : Read /\ Reading!Draw(t)
    \/ \E t \in Tabs, m \in Lines : Read /\ Reading!Receive(t, m)
    \/ \E t \in Tabs : Read /\ Reading!Hide(t)
    \/ \E t \in Tabs : Read /\ Reading!LookAgain(t)
    \/ \E t \in Tabs : Read /\ Reading!TellThreads(t)
    \/ \E t \in Tabs : Read /\ Reading!Leave(t)

ThreadSpec == ThreadInit /\ [][ThreadNext]_<<scene, vars, ReadingVars>>

Symmetry == Permutations(Uploads) \cup Permutations(Threads)

\* What a party is told it has read is what it was shown (Inbox).
ReadIsTrue == scene = "reading" => Reading!ReadIsTrue
================================================================================
