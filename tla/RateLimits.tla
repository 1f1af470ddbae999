------------------------------ MODULE RateLimits -------------------------------
(* The four rate limits every request passes first: the class its method, path   *)
(* and Accept header put it in, and one fixed window for each address and class,  *)
(* kept in the memory of the process. A refusal carries a Retry-After in seconds. *)
EXTENDS Integers, Sequences, SequencesExt

CONSTANTS Callers,       \* the addresses requests come from
          Requests,      \* the requests they make, of RequestShapes
          Limits,        \* the limit of each class; 0 lets one through
          Window,        \* WINDOW_MS
          Second,        \* a second, in the unit of Window
          MaxNow,        \* bound: the clock stops here
          None

Classes == {"upstream", "write", "read", "verify"}

\* A request as far as its class depends on it: the kind of its path, the class the
\* table gives its method and path, and whether it is a GET that prefers a page.
Paths == {"pay", "static", "icon", "script", "page", "shell", "other"}
RequestShapes == [path : Paths, listed : Classes \cup {"exempt", None}, wantsPage : BOOLEAN]

VARIABLES now,
          buckets,       \* per address and class: the count of a window and its start
          log,           \* per address and class: when the last requests were let through
          due            \* per address and class: when the last refusal said to come back

vars == <<now, buckets, log, due>>

Buckets == [count : Nat, start : Nat]

TypeOK ==
    /\ now \in 0 .. MaxNow
    /\ buckets \in [Callers \X Classes -> Buckets \cup {None}]
    /\ log \in [Callers \X Classes -> Seq(0 .. MaxNow)]
    /\ due \in [Callers \X Classes -> Nat \cup {None}]

Init ==
    /\ now = 0
    /\ buckets = [key \in Callers \X Classes |-> None]
    /\ log = [key \in Callers \X Classes |-> <<>>]
    /\ due = [key \in Callers \X Classes |-> None]

--------------------------------------------------------------------------------

\* classifyRouteWithReason, in its order.
Exempt(request) ==
    /\ request.path # "pay"
    /\ \/ request.path \in {"static", "icon", "script", "page"}
       \/ request.path = "shell" /\ request.wantsPage
       \/ request.listed = "exempt"

Classified(request) ==
    IF request.path = "pay" \/ request.listed = None THEN "upstream" ELSE request.listed

\* What a limiter answers.
WindowIsOver(bucket) == bucket = None \/ now - bucket.start >= Window
IsSpent(key) == ~WindowIsOver(buckets[key]) /\ buckets[key].count >= Limits[key[2]]

\* Whole seconds, rounded up.
RetryAfterFloor(key) == Second * ((buckets[key].start + Window - now) \div Second)
RetryAfter(key) == Second * ((buckets[key].start + Window - now + Second - 1) \div Second)

LetThrough(key) ==
    /\ buckets' = [buckets EXCEPT ![key] =
           IF WindowIsOver(@) THEN [count |-> 1, start |-> now] ELSE [@ EXCEPT !.count = @ + 1]]
    /\ log' = [log EXCEPT ![key] = Append(@, now)]
    /\ due' = [due EXCEPT ![key] = None]
    /\ UNCHANGED now

Refuse(key) ==
    /\ due' = [due EXCEPT ![key] = now + RetryAfter(key)]
    /\ UNCHANGED <<now, buckets, log>>

\* The key is the address within the limiter of the class.
Key(caller, request) == <<caller, Classified(request)>>

Ask(caller, request) ==
    \/ Exempt(request) /\ UNCHANGED vars
    \/ /\ ~Exempt(request)
       /\ IF IsSpent(Key(caller, request)) THEN Refuse(Key(caller, request))
          ELSE LetThrough(Key(caller, request))

\* What happened a window ago is of no interest any more.
Tick ==
    /\ now < MaxNow
    /\ now' = now + 1
    /\ log' = [key \in DOMAIN log |-> SelectSeq(log[key], LAMBDA at : now' - at < Window)]
    /\ UNCHANGED <<buckets, due>>

\* A restarted process has counted nothing.
Restart ==
    /\ buckets' = [key \in DOMAIN buckets |-> None]
    /\ log' = [key \in DOMAIN log |-> <<>>]
    /\ due' = [key \in DOMAIN due |-> None]
    /\ UNCHANGED now

Next ==
    \/ \E caller \in Callers, request \in Requests : Ask(caller, request)
    \/ Tick
    \/ Restart

Spec == Init /\ [][Next]_vars

--------------------------------------------------------------------------------
(* Properties.                                                                   *)

\* Of one address and class, no span as long as the window lets through more than the
\* allowances of two windows, and a limit of nothing still lets one request through.
Allowance(class) == IF Limits[class] = 0 THEN 1 ELSE Limits[class]
AllowanceKept == \A key \in DOMAIN log : Len(log[key]) <= 2 * Allowance(key[2])

\* A caller who waits as long as it was told, and has not been let through meanwhile,
\* is not refused again.
WaitIsEnough == \A key \in DOMAIN due : due[key] # None /\ now >= due[key] => ~IsSpent(key)

\* Nobody is refused for what others asked, or for what it asked of another class: who
\* is refused has used up a window's allowance itself, within the span of a window.
RefusedForItsOwn ==
    \A key \in DOMAIN log :
        IsSpent(key) =>
            Len(SelectSeq(log[key], LAMBDA at : at >= buckets[key].start)) >= Limits[key[2]]

\* The limit holds everybody to its own allowance (createRateLimiter,
\* createClassRateLimitMiddleware).
LimitsAreFair == AllowanceKept /\ WaitIsEnough /\ RefusedForItsOwn
================================================================================
