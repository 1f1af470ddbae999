\* Three uploads on two jobs, one allowed per job and two in all, and one message.
CONSTANTS
    Uploads = {u1, u2, u3}
    Messages = {m1}
    Threads = {j1, j2}
    JobCap = 1
    AccountCap = 2
    Tabs = {t1}
    Lines = {n1, n2}
    MaxNow = 1
    MaxMarks = 2
    None = None

SPECIFICATION ThreadSpec
SYMMETRY Symmetry
\* Every upload and message is sent once; then nothing is left to do but wait.
CHECK_DEADLOCK FALSE

INVARIANTS
    QuotaKept
    FilesAreKept
    ReadIsTrue
