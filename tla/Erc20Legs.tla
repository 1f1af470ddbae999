------------------------------ MODULE Erc20Legs --------------------------------
(* The two-transfer settlement of an ERC-20 rail: the wallet-response route of  *)
(* src/src/api/app.ts, confirmLegs and legStatus of adapters/payment/erc20.ts,  *)
(* and the three tables they write, each by a blind upsert. Every await between *)
(* two of those reads and writes lets another report run, on the same leg or on *)
(* another one, and a report can be lost at each of them.                       *)
(*                                                                              *)
(* A target is one (job, leg). That its job stays payable in this rail, and     *)
(* what a short payment is worth, are HireLoop's.                               *)
EXTENDS Naturals

CONSTANTS Targets,             \* (jobId, leg) pairs
          Hashes,              \* transaction hashes, normalised
          Reports,             \* wallet responses that can be in flight at once
          Pays,                \* Pays[h]: the <<target, role>> a transfer h pays in full
          None                 \* the code's null

Roles == {"price", "fee"}

ASSUME PaysAssumption == Pays \in [Hashes -> SUBSET (Targets \X Roles)]
ASSUME NoHashAssumption == None \notin Hashes /\ None \notin Targets \X Roles

VARIABLES chain,       \* the transfers whose receipt the chain shows with status 1
          spent,       \* spent-transfer rows: hash -> <<target, role>> or None
          half,        \* half-paid rows by target
          settled,     \* settlement rows by target: the pair of hashes
          report,      \* how far each wallet response has come
          overlapped   \* history: hashes two reports had looked up before either recorded

vars == <<chain, spent, half, settled, report, overlapped>>

OrNone(S) == S \cup {None}

\* UsdcTransferStatus, and "unasked" before legStatus has run.
TransferStatuses == {"confirmed", "not_confirmed", "not_signed", "mismatched"}

Settlements == [price : Hashes, fee : Hashes]
HalfPaid == [price : Hashes, fee : OrNone(Hashes), status : [Roles -> TransferStatuses]]

NoReport == [phase |-> "none"]
InFlight ==
    [phase : {"look", "record", "half", "settle"}, role : Roles, target : Targets,
     hash : [price : Hashes, fee : OrNone(Hashes)], replay : BOOLEAN,
     status : [Roles -> TransferStatuses \cup {"unasked"}]]

TypeOK ==
    /\ chain \subseteq Hashes
    /\ spent \in [Hashes -> OrNone(Targets \X Roles)]
    /\ half \in [Targets -> OrNone(HalfPaid)]
    /\ settled \in [Targets -> OrNone(Settlements)]
    /\ report \in [Reports -> InFlight \cup {NoReport}]
    /\ overlapped \subseteq Hashes

Init ==
    /\ chain = {}
    /\ spent = [h \in Hashes |-> None]
    /\ half = [t \in Targets |-> None]
    /\ settled = [t \in Targets |-> None]
    /\ report = [r \in Reports |-> NoReport]
    /\ overlapped = {}

--------------------------------------------------------------------------------

To(r, next) == report' = [report EXCEPT ![r] = next]
End(r) == To(r, NoReport)

\* The door: a fresh report on an unsettled leg, or the exact pair it settled
\* with. The two hashes differ; an unsigned fee is a null hash.
Arrive(r, target, price, fee) ==
    LET hash == [price |-> price, fee |-> fee]
    IN  /\ report[r] = NoReport
        /\ price # fee
        /\ settled[target] \in {None, hash}
        /\ To(r, [phase |-> "look", role |-> "price", target |-> target, hash |-> hash,
                  replay |-> settled[target] = hash, status |-> [role \in Roles |-> "unasked"]])
        /\ UNCHANGED <<chain, spent, half, settled, overlapped>>

\* After the price transfer the fee transfer, after both the half-paid row.
Judged(w, status) ==
    [w EXCEPT !.status[w.role] = status,
              !.phase = IF w.role = "price" THEN "look" ELSE "half",
              !.role = "fee"]

PaysAnything(w) == TRUE
PaysExpected(w) == <<w.target, w.role>> \in Pays[w.hash[w.role]]

SpentNowhere(w) == FALSE
SpentElsewhere(w) == spent[w.hash[w.role]] \notin {None, <<w.target, w.role>>}

\* legStatus up to findByHash: the receipt, what it pays, what it already backs.
LookUp(r) ==
    LET w == report[r]
        hash == w.hash[w.role]
        sawUnrecorded == {h \in {hash} : \E q \in Reports \ {r} :
                             report[q].phase = "record" /\ report[q].hash[report[q].role] = h}
    IN  /\ w.phase = "look"
        /\ IF hash = None THEN To(r, Judged(w, "not_signed"))
           ELSE IF hash \notin chain THEN To(r, Judged(w, "not_confirmed"))
           ELSE IF ~PaysExpected(w) \/ SpentElsewhere(w) THEN To(r, Judged(w, "mismatched"))
           ELSE To(r, [w EXCEPT !.phase = "record"])
        /\ overlapped' = overlapped \cup sawUnrecorded
        /\ UNCHANGED <<chain, spent, half, settled>>

\* spentTransferStorage.record: an upsert by hash.
RecordSpent(r) ==
    LET w == report[r]
    IN  /\ w.phase = "record"
        /\ spent' = [spent EXCEPT ![w.hash[w.role]] = <<w.target, w.role>>]
        /\ To(r, Judged(w, "confirmed"))
        /\ UNCHANGED <<chain, half, settled, overlapped>>

IsConfirmed(w, role) == w.status[role] = "confirmed"
OneConfirmed(w) == \E role \in Roles : IsConfirmed(w, role)
ExactlyOneConfirmed(w) == IsConfirmed(w, "price") # IsConfirmed(w, "fee")
BothConfirmed(w) == \A role \in Roles : IsConfirmed(w, role)

\* The half-paid row is recorded or cleared; a whole payment goes on to settle.
MarkHalfPaid(r) ==
    LET w == report[r]
    IN  /\ w.phase = "half"
        /\ half' = [half EXCEPT ![w.target] =
              IF ExactlyOneConfirmed(w)
              THEN [price |-> w.hash.price, fee |-> w.hash.fee, status |-> w.status]
              ELSE None]
        /\ IF BothConfirmed(w) /\ ~w.replay THEN To(r, [w EXCEPT !.phase = "settle"]) ELSE End(r)
        /\ UNCHANGED <<chain, spent, settled, overlapped>>

\* settlementRepo.record: an upsert by (job, leg).
RecordSettlement(r) ==
    LET w == report[r]
    IN  /\ w.phase = "settle"
        /\ settled' = [settled EXCEPT ![w.target] = w.hash]
        /\ End(r)
        /\ UNCHANGED <<chain, spent, half, overlapped>>

\* The process stops, or a table does not answer (503).
Lose(r) ==
    /\ report[r] # NoReport
    /\ End(r)
    /\ UNCHANGED <<chain, spent, half, settled, overlapped>>

\* A transfer lands.
Land(hash) ==
    /\ hash \notin chain
    /\ chain' = chain \cup {hash}
    /\ UNCHANGED <<spent, half, settled, report, overlapped>>

Next ==
    \/ \E r \in Reports :
           \/ \E target \in Targets, price \in Hashes, fee \in OrNone(Hashes) :
                  Arrive(r, target, price, fee)
           \/ LookUp(r)
           \/ RecordSpent(r)
           \/ MarkHalfPaid(r)
           \/ RecordSettlement(r)
           \/ Lose(r)
    \/ \E hash \in Hashes : Land(hash)

Spec == Init /\ [][Next]_vars

--------------------------------------------------------------------------------

\* A settled leg was paid: both its transfers have landed, the one in full to the
\* operator, the other to the platform, and are not the same transfer
\* (legStatus, confirmLegs).
SettledLegIsPaid ==
    \A t \in Targets : settled[t] # None =>
        /\ settled[t].price # settled[t].fee
        /\ \A role \in Roles :
               settled[t][role] \in chain /\ <<t, role>> \in Pays[settled[t][role]]

\* One transfer backs one role of one leg ("one receipt confirms unlimited jobs"
\* is what the spent table is against), and what it backs never changes. The
\* table is read before it is written, so this is promised of the transfers no
\* two reports looked up at once.
OneTransferOneLeg ==
    \A t, u \in Targets, i, j \in Roles :
        /\ settled[t] # None /\ settled[u] # None
        /\ settled[t][i] = settled[u][j]
        /\ settled[t][i] \notin overlapped
        => t = u /\ i = j

\* A settlement, once written, is backed by the spent rows of both its transfers,
\* whatever was reported since (save transfers looked up twice at once).
SettledLegIsBacked ==
    \A t \in Targets, role \in Roles :
        settled[t] # None /\ settled[t][role] \notin overlapped =>
            spent[settled[t][role]] = <<t, role>>

\* What a half-paid row says is so: exactly one of its transfers counts, and that
\* one has landed, pays this leg, and backs nothing else.
HoldIsHonest ==
    \A t \in Targets : half[t] # None =>
        \E role \in Roles :
            LET hash == half[t][role]
            IN  /\ \A other \in Roles : half[t].status[other] = "confirmed" <=> other = role
                /\ hash \in chain /\ <<t, role>> \in Pays[hash]
                /\ hash \notin overlapped => spent[hash] = <<t, role>>
================================================================================
