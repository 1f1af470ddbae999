----------------------------- MODULE HireContract ------------------------------
(* What one hire promises its two parties, with nothing of how: which money has *)
(* moved before which step, and which endings each stage of the hire may have.  *)
(* HireLoop implements this module (HireLoop!Contract).                         *)
CONSTANT None

VARIABLES phase,     \* "terms", "hired", "delivered" or "over"
          deposit,   \* the deposit settled
          balance,   \* the remainder settled
          outcome    \* how the hire ended, None while it runs

contractVars == <<phase, deposit, balance, outcome>>

\* The endings that are open while the terms are being agreed, and only while
\* nothing has been paid on them.
UnpaidEndings == {"declined", "withdrawn"}

\* The endings of a hire whose work has not been delivered. Those that say the
\* buyer did not pay need an unpaid balance, the one that says the agent did not
\* deliver needs a paid one.
HiredEndings(paid) ==
    {"withdrawn", "expired_unstaged"}
        \cup (IF paid THEN {"paid_undelivered"} ELSE {"closed_unpaid", "staged_declined"})

\* The endings of delivered work.
DeliveredEndings == {"completed", "deemed_completed", "cited_closed", "withdrawn"}

Init ==
    /\ phase = "terms"
    /\ deposit = FALSE
    /\ balance = FALSE
    /\ outcome = None

PayDeposit ==
    /\ phase = "terms" /\ ~deposit
    /\ deposit' = TRUE
    /\ UNCHANGED <<phase, balance, outcome>>

Hire ==
    /\ phase = "terms" /\ deposit
    /\ phase' = "hired"
    /\ UNCHANGED <<deposit, balance, outcome>>

PayBalance ==
    /\ phase = "hired" /\ ~balance
    /\ balance' = TRUE
    /\ UNCHANGED <<phase, deposit, outcome>>

Deliver ==
    /\ phase = "hired" /\ balance
    /\ phase' = "delivered"
    /\ UNCHANGED <<deposit, balance, outcome>>

End(how) ==
    /\ \/ phase = "terms" /\ ~deposit /\ how \in UnpaidEndings
       \/ phase = "hired" /\ how \in HiredEndings(balance)
       \/ phase = "delivered" /\ how \in DeliveredEndings
    /\ phase' = "over"
    /\ outcome' = how
    /\ UNCHANGED <<deposit, balance>>

Next ==
    \/ PayDeposit
    \/ Hire
    \/ PayBalance
    \/ Deliver
    \/ \E how \in UnpaidEndings \cup HiredEndings(TRUE) \cup HiredEndings(FALSE)
                  \cup DeliveredEndings : End(how)

Spec == Init /\ [][Next]_contractVars
================================================================================
