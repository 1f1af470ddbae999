---------------------------- MODULE Erc20LegsProofs ----------------------------
(* What Erc20Legs promises for any number of legs, transfers and reports.       *)
EXTENDS MCDeals, SequenceTheorems, TLAPS

--------------------------------------------------------------------------------
(* The inductive invariant. What a settlement or a half-paid row says was first *)
(* said by the statuses a report carries between its steps, so the invariant    *)
(* follows a transfer from the step that judged it to the row that counts it.   *)

\* A transfer counts for one role of one leg: it landed, it pays that role, and it
\* is spent on it, unless two reports looked it up at once.
Counts(hash, target, role) ==
    /\ hash \in chain
    /\ <<target, role>> \in Pays[hash]
    /\ hash \notin overlapped => spent[hash] = <<target, role>>

\* The same after the step, of a transfer named before it.
CountsNext(hash, target, role) ==
    /\ hash \in chain'
    /\ <<target, role>> \in Pays[hash]
    /\ hash \notin overlapped' => spent'[hash] = <<target, role>>

\* The two hashes of a report differ, and its price was judged before its fee.
ReportInOrder(r) ==
    /\ report[r].hash["price"] # report[r].hash["fee"]
    /\ report[r].role = "fee" => report[r].status["price"] # "unasked"
    /\ report[r].phase \in {"half", "settle"} =>
           report[r].role = "fee" /\ report[r].status["fee"] # "unasked"
    /\ report[r].phase = "settle" => \A role \in Roles : report[r].status[role] = "confirmed"

\* Every status "confirmed" is of a transfer that counts.
ReportIsTrue(r) ==
    \A role \in Roles : report[r].status[role] = "confirmed" =>
        Counts(report[r].hash[role], report[r].target, role)

\* A transfer about to be recorded landed, pays, and is spent on nothing else.
ReportMayRecord(r) ==
    report[r].phase = "record" =>
        LET hash == report[r].hash[report[r].role]
            use == <<report[r].target, report[r].role>>
        IN  /\ hash \in chain
            /\ use \in Pays[hash]
            /\ hash \notin overlapped => spent[hash] \in {None, use}

ReportsInOrder == \A r \in Reports : report[r] # NoReport => ReportInOrder(r)
ReportsAreTrue == \A r \in Reports : report[r] # NoReport => ReportIsTrue(r)
ReportsMayRecord == \A r \in Reports : report[r] # NoReport => ReportMayRecord(r)

\* Two reports about to record one transfer looked it up at once.
RecordsMeetOverlapped ==
    \A r, q \in Reports :
        /\ r # q /\ report[r].phase = "record" /\ report[q].phase = "record"
        /\ report[r].hash[report[r].role] = report[q].hash[report[q].role]
        => report[r].hash[report[r].role] \in overlapped

SettlementsCount ==
    \A t \in Targets : settled[t] # None =>
        /\ settled[t]["price"] # settled[t]["fee"]
        /\ \A role \in Roles : Counts(settled[t][role], t, role)

HoldsCount ==
    \A t \in Targets : half[t] # None =>
        \E role \in Roles :
            /\ \A other \in Roles : half[t].status[other] = "confirmed" <=> other = role
            /\ Counts(half[t][role], t, role)

IInv ==
    /\ TypeOK
    /\ ReportsInOrder
    /\ ReportsAreTrue
    /\ ReportsMayRecord
    /\ RecordsMeetOverlapped
    /\ SettlementsCount
    /\ HoldsCount

--------------------------------------------------------------------------------
(* Facts about one report.                                                      *)

\* A report in a phase of its own is in flight.
LEMMA InFlightType ==
    ASSUME TypeOK, NEW r \in Reports, report[r].phase # "none"
    PROVE  report[r] \in InFlight /\ report[r] # NoReport
BY DEF TypeOK, NoReport

LEMMA GoingType ==
    ASSUME TypeOK, NEW r \in Reports, report[r] # NoReport
    PROVE  report[r] \in InFlight
BY DEF TypeOK

\* The report a step moves on is the only one it changes.
LEMMA OnlyOneMoves ==
    ASSUME TypeOK, NEW r \in Reports, NEW next, To(r, next)
    PROVE  /\ report'[r] = next
           /\ \A q \in Reports : q # r => report'[q] = report[q]
BY DEF TypeOK, To

\* What a judged report looks like, in the records the state keeps.
LEMMA JudgedShape ==
    ASSUME NEW w \in InFlight, NEW status \in TransferStatuses
    PROVE  /\ Judged(w, status) \in InFlight
           /\ Judged(w, status).hash = w.hash
           /\ Judged(w, status).target = w.target
           /\ Judged(w, status).role = "fee"
           /\ Judged(w, status).phase = IF w.role = "price" THEN "look" ELSE "half"
           /\ Judged(w, status).status[w.role] = status
           /\ \A role \in Roles : role # w.role => Judged(w, status).status[role] = w.status[role]
BY DEF Judged, InFlight, TransferStatuses, Roles

LEMMA HashOfRole ==
    ASSUME NEW w \in InFlight, NEW role \in Roles
    PROVE  w.hash[role] \in OrNone(Hashes)
BY DEF InFlight, Roles, OrNone

--------------------------------------------------------------------------------
(* Types.                                                                       *)

\* A step that writes neither the legs' rows nor the spent rows.
LEMMA TypeMove ==
    ASSUME TypeOK, NEW r \in Reports, NEW next \in InFlight \cup {NoReport}, To(r, next),
           overlapped' \subseteq Hashes, UNCHANGED <<chain, spent, half, settled>>
    PROVE  TypeOK'
BY DEF TypeOK, To

\* A half-paid row keeps two judged statuses, a settlement two hashes.
LEMMA TypeStep ==
    ASSUME IInv, [Next]_vars
    PROVE  TypeOK'
<1> TypeOK
  BY DEF IInv
<1>1. ASSUME NEW r \in Reports, NEW target \in Targets, NEW price \in Hashes,
             NEW fee \in OrNone(Hashes), Arrive(r, target, price, fee)
      PROVE  TypeOK'
  <2> DEFINE hash == [price |-> price, fee |-> fee]
             next == [phase |-> "look", role |-> "price", target |-> target, hash |-> hash,
                      replay |-> settled[target] = hash, status |-> [role \in Roles |-> "unasked"]]
  <2>1. next \in InFlight
    BY DEF InFlight, OrNone, Roles
  <2>2. To(r, next) /\ overlapped' = overlapped /\ UNCHANGED <<chain, spent, half, settled>>
    BY <1>1 DEF Arrive
  <2> QED
    BY <2>1, <2>2, TypeMove DEF TypeOK
<1>2. ASSUME NEW r \in Reports, LookUp(r)
      PROVE  TypeOK'
  <2> DEFINE w == report[r]
  <2>1. w \in InFlight
    BY <1>2, InFlightType DEF LookUp
  <2>2. /\ Judged(w, "not_signed") \in InFlight
        /\ Judged(w, "not_confirmed") \in InFlight
        /\ Judged(w, "mismatched") \in InFlight
    BY <2>1, JudgedShape DEF TransferStatuses
  <2>3. [w EXCEPT !.phase = "record"] \in InFlight
    BY <2>1 DEF InFlight
  <2>4. PICK next \in InFlight : To(r, next)
    BY <1>2, <2>2, <2>3 DEF LookUp
  <2>5. w.hash[w.role] \in OrNone(Hashes)
    BY <2>1, HashOfRole DEF InFlight
  <2>6. overlapped' \subseteq Hashes
    <3>1. \A h : h = None => ~\E q \in Reports \ {r} :
              report[q].phase = "record" /\ report[q].hash[report[q].role] = h
      <4> SUFFICES ASSUME NEW q \in Reports, report[q].phase = "record",
                          report[q].hash[report[q].role] = None
                   PROVE  FALSE
        OBVIOUS
      <4>1. report[q] \in InFlight /\ report[q] # NoReport
        BY InFlightType
      <4>2. report[q].hash[report[q].role] \in chain
        BY <4>1 DEF IInv, ReportsMayRecord, ReportMayRecord
      <4> QED
        BY <4>2, NoHashAssumption DEF TypeOK
    <3> QED
      BY <1>2, <2>5, <3>1 DEF LookUp, TypeOK, OrNone
  <2> QED
    BY <1>2, <2>4, <2>6, TypeMove DEF LookUp
<1>3. ASSUME NEW r \in Reports, RecordSpent(r)
      PROVE  TypeOK'
  <2> DEFINE w == report[r]
  <2>1. w \in InFlight
    BY <1>3, InFlightType DEF RecordSpent
  <2>2. Judged(w, "confirmed") \in InFlight
    BY <2>1, JudgedShape DEF TransferStatuses
  <2>3. <<w.target, w.role>> \in Targets \X Roles
    BY <2>1 DEF InFlight
  <2>4. report' \in [Reports -> InFlight \cup {NoReport}]
    BY <1>3, <2>2 DEF RecordSpent, To, TypeOK
  <2>5. spent' \in [Hashes -> OrNone(Targets \X Roles)]
    BY <1>3, <2>3 DEF RecordSpent, TypeOK, OrNone
  <2> QED
    BY <1>3, <2>4, <2>5 DEF RecordSpent, TypeOK
<1>4. ASSUME NEW r \in Reports, MarkHalfPaid(r)
      PROVE  TypeOK'
  <2> DEFINE w == report[r]
             halfRow == [price |-> w.hash.price, fee |-> w.hash.fee, status |-> w.status]
  <2>1. w \in InFlight /\ w # NoReport /\ w.phase = "half"
    BY <1>4, InFlightType DEF MarkHalfPaid
  <2>2. w.status["price"] # "unasked" /\ w.status["fee"] # "unasked"
    BY <2>1 DEF IInv, ReportsInOrder, ReportInOrder
  <2>3. w.status \in [Roles -> TransferStatuses]
    BY <2>1, <2>2 DEF InFlight, Roles
  <2>4. halfRow \in HalfPaid
    BY <2>1, <2>3 DEF InFlight, HalfPaid
  <2>5. half' \in [Targets -> OrNone(HalfPaid)]
    BY <1>4, <2>4 DEF MarkHalfPaid, TypeOK, OrNone
  <2>6. [w EXCEPT !.phase = "settle"] \in InFlight
    BY <2>1 DEF InFlight
  <2>7. report' \in [Reports -> InFlight \cup {NoReport}]
    BY <1>4, <2>6 DEF MarkHalfPaid, To, End, TypeOK
  <2> QED
    BY <1>4, <2>5, <2>7 DEF MarkHalfPaid, TypeOK
<1>5. ASSUME NEW r \in Reports, RecordSettlement(r)
      PROVE  TypeOK'
  <2> DEFINE w == report[r]
  <2>1. w \in InFlight /\ w # NoReport /\ w.phase = "settle"
    BY <1>5, InFlightType DEF RecordSettlement
  <2>2. w.status["fee"] = "confirmed"
    BY <2>1 DEF IInv, ReportsInOrder, ReportInOrder, Roles
  <2>3. w.hash["fee"] \in Hashes
    BY <2>1, <2>2 DEF IInv, ReportsAreTrue, ReportIsTrue, Counts, TypeOK, Roles
  <2>4. w.hash \in Settlements
    BY <2>1, <2>3 DEF InFlight, Settlements
  <2> QED
    BY <1>5, <2>4 DEF RecordSettlement, End, To, TypeOK, OrNone
<1>6. ASSUME NEW r \in Reports, Lose(r)
      PROVE  TypeOK'
  BY <1>6 DEF Lose, End, To, TypeOK
<1>7. ASSUME NEW hash \in Hashes, Land(hash)
      PROVE  TypeOK'
  BY <1>7 DEF Land, TypeOK
<1>8. ASSUME UNCHANGED vars
      PROVE  TypeOK'
  BY <1>8 DEF vars, TypeOK
<1> QED
  BY <1>1, <1>2, <1>3, <1>4, <1>5, <1>6, <1>7, <1>8 DEF Next

--------------------------------------------------------------------------------
(* What counts goes on counting.                                                *)

\* Nothing leaves the chain or the overlapped transfers, and the spent rows are
\* written by one step only.
LEMMA OnlyGrows ==
    ASSUME [Next]_vars
    PROVE  /\ chain \subseteq chain'
           /\ overlapped \subseteq overlapped'
           /\ spent' = spent \/ \E r \in Reports : RecordSpent(r)
BY DEF Next, vars, Arrive, LookUp, RecordSpent, MarkHalfPaid, RecordSettlement, Lose, Land

LEMMA CountsStays ==
    ASSUME IInv, [Next]_vars, NEW hash \in Hashes, NEW target \in Targets, NEW role \in Roles,
           Counts(hash, target, role)
    PROVE  CountsNext(hash, target, role)
<1>1. hash \in chain' /\ <<target, role>> \in Pays[hash]
  BY OnlyGrows DEF Counts
<1>2. ASSUME hash \notin overlapped'
      PROVE  spent'[hash] = <<target, role>>
  <2>1. spent[hash] = <<target, role>> /\ hash \notin overlapped
    BY <1>2, OnlyGrows DEF Counts
  <2>2. CASE spent' = spent
    BY <2>1, <2>2
  <2>3. CASE \E r \in Reports : RecordSpent(r)
    <3>1. PICK r \in Reports : RecordSpent(r)
      BY <2>3
    <3> DEFINE w == report[r]
    <3>2. w \in InFlight /\ w # NoReport /\ w.phase = "record"
      BY <3>1, InFlightType DEF RecordSpent, IInv
    <3>3. w.hash[w.role] \notin overlapped => spent[w.hash[w.role]] \in {None, <<w.target, w.role>>}
      BY <3>2 DEF IInv, ReportsMayRecord, ReportMayRecord
    <3>4. <<target, role>> # None
      BY NoHashAssumption
    <3>5. spent' = [spent EXCEPT ![w.hash[w.role]] = <<w.target, w.role>>]
      BY <3>1 DEF RecordSpent
    <3> QED
      BY <2>1, <3>3, <3>4, <3>5 DEF IInv, TypeOK
  <2> QED
    BY <2>2, <2>3, OnlyGrows
<1> QED
  BY <1>1, <1>2 DEF CountsNext

\* A report that does not move keeps what it says and what it may record.
LEMMA RestingReportStays ==
    ASSUME IInv, [Next]_vars, NEW q \in Reports, report[q] # NoReport, report'[q] = report[q]
    PROVE  ReportInOrder(q)' /\ ReportIsTrue(q)' /\ ReportMayRecord(q)'
<1> DEFINE w == report[q]
<1>1. w \in InFlight
  BY GoingType DEF IInv
<1>2. ReportInOrder(q) /\ ReportIsTrue(q) /\ ReportMayRecord(q)
  BY DEF IInv, ReportsInOrder, ReportsAreTrue, ReportsMayRecord
<1>3. ReportInOrder(q)'
  BY <1>2 DEF ReportInOrder
<1>4. ReportIsTrue(q)'
  <2> SUFFICES ASSUME NEW role \in Roles, w.status[role] = "confirmed"
               PROVE  CountsNext(w.hash[role], w.target, role)
    BY DEF ReportIsTrue, Counts, CountsNext
  <2>1. Counts(w.hash[role], w.target, role)
    BY <1>2 DEF ReportIsTrue
  <2>2. w.hash[role] \in Hashes /\ w.target \in Targets
    BY <1>1, <2>1 DEF Counts, IInv, TypeOK, InFlight
  <2>3. PICK hash \in Hashes, target \in Targets : hash = w.hash[role] /\ target = w.target
    BY <2>2
  <2>4. CountsNext(hash, target, role)
    BY <2>1, <2>3, CountsStays
  <2> QED
    BY <2>3, <2>4
<1>5. ReportMayRecord(q)'
  <2> SUFFICES ASSUME w.phase = "record"
               PROVE  /\ w.hash[w.role] \in chain'
                      /\ <<w.target, w.role>> \in Pays[w.hash[w.role]]
                      /\ w.hash[w.role] \notin overlapped' =>
                             spent'[w.hash[w.role]] \in {None, <<w.target, w.role>>}
    BY DEF ReportMayRecord
  <2>1. CASE spent' = spent
    BY <1>2, <2>1, OnlyGrows DEF ReportMayRecord
  <2>2. CASE \E r \in Reports : RecordSpent(r)
    <3>1. PICK r \in Reports : RecordSpent(r)
      BY <2>2
    <3>2. report[r].phase = "record" /\ report[r] \in InFlight
      BY <3>1, InFlightType DEF RecordSpent, IInv
    <3>3. r # q
      <4>1. report'[r] = Judged(report[r], "confirmed")
        BY <3>1, OnlyOneMoves DEF RecordSpent, IInv
      <4>2. Judged(report[r], "confirmed").phase # "record"
        BY <3>2, JudgedShape DEF TransferStatuses
      <4> QED
        BY <3>2, <4>1, <4>2
    <3>4. report[r].hash[report[r].role] = w.hash[w.role] => w.hash[w.role] \in overlapped
      BY <3>2, <3>3 DEF IInv, RecordsMeetOverlapped
    <3>5. spent' = [spent EXCEPT ![report[r].hash[report[r].role]] =
                        <<report[r].target, report[r].role>>]
      BY <3>1 DEF RecordSpent
    <3>6. w.hash[w.role] \in chain /\ w.hash[w.role] \in Hashes
      BY <1>2 DEF ReportMayRecord, IInv, TypeOK
    <3> QED
      BY <1>2, <3>4, <3>5, <3>6, OnlyGrows DEF ReportMayRecord, IInv, TypeOK
  <2> QED
    BY <2>1, <2>2, OnlyGrows
<1> QED
  BY <1>3, <1>4, <1>5

\* A report one of whose transfers was judged is in order, and true if a transfer
\* judged confirmed counts.
LEMMA JudgedReportIsGood ==
    ASSUME IInv, [Next]_vars, NEW r \in Reports, NEW status \in TransferStatuses,
           report[r] \in InFlight, report[r] # NoReport, report[r].phase \in {"look", "record"},
           report'[r] = Judged(report[r], status),
           status = "confirmed" =>
               CountsNext(report[r].hash[report[r].role], report[r].target, report[r].role)
    PROVE  ReportInOrder(r)' /\ ReportIsTrue(r)' /\ ReportMayRecord(r)'
<1> DEFINE w == report[r]
           next == report'[r]
<1>1. /\ next.hash = w.hash /\ next.target = w.target /\ next.role = "fee"
      /\ next.phase = IF w.role = "price" THEN "look" ELSE "half"
      /\ next.status[w.role] = status
      /\ \A role \in Roles : role # w.role => next.status[role] = w.status[role]
  BY JudgedShape
<1>2. ReportInOrder(r) /\ ReportIsTrue(r)
  BY DEF IInv, ReportsInOrder, ReportsAreTrue
<1>3. w.role \in Roles /\ w.target \in Targets
  BY DEF InFlight
<1>4. status # "unasked"
  BY DEF TransferStatuses
<1>5. ReportInOrder(r)'
  <2>1. next.hash["price"] # next.hash["fee"]
    BY <1>1, <1>2 DEF ReportInOrder
  <2>2. next.status["price"] # "unasked"
    BY <1>1, <1>2, <1>3, <1>4 DEF ReportInOrder, Roles
  <2>3. next.phase = "half" => next.status["fee"] # "unasked"
    BY <1>1, <1>3, <1>4 DEF Roles
  <2> QED
    BY <1>1, <2>1, <2>2, <2>3 DEF ReportInOrder
<1>6. ReportIsTrue(r)'
  <2> SUFFICES ASSUME NEW role \in Roles, next.status[role] = "confirmed"
               PROVE  CountsNext(w.hash[role], w.target, role)
    BY <1>1 DEF ReportIsTrue, Counts, CountsNext
  <2>1. CASE role = w.role
    BY <1>1, <2>1
  <2>2. CASE role # w.role
    <3>1. Counts(w.hash[role], w.target, role)
      BY <1>1, <1>2, <2>2 DEF ReportIsTrue
    <3>2. w.hash[role] \in Hashes
      BY <3>1 DEF Counts, IInv, TypeOK
    <3>3. PICK hash \in Hashes, target \in Targets : hash = w.hash[role] /\ target = w.target
      BY <1>3, <3>2
    <3>4. CountsNext(hash, target, role)
      BY <3>1, <3>3, CountsStays
    <3> QED
      BY <3>3, <3>4
  <2> QED
    BY <2>1, <2>2
<1>7. ReportMayRecord(r)'
  BY <1>1 DEF ReportMayRecord
<1> QED
  BY <1>5, <1>6, <1>7

\* A step that moves one report, to nothing or to a good one, keeps all of them.
LEMMA OneGoodMove ==
    ASSUME IInv, [Next]_vars, NEW r \in Reports,
           \A q \in Reports : q # r => report'[q] = report[q],
           report'[r] # NoReport =>
               ReportInOrder(r)' /\ ReportIsTrue(r)' /\ ReportMayRecord(r)'
    PROVE  ReportsInOrder' /\ ReportsAreTrue' /\ ReportsMayRecord'
<1>1. ASSUME NEW q \in Reports, report'[q] # NoReport
      PROVE  ReportInOrder(q)' /\ ReportIsTrue(q)' /\ ReportMayRecord(q)'
  <2>1. CASE q = r
    BY <1>1, <2>1
  <2>2. CASE q # r
    <3>1. report'[q] = report[q]
      BY <2>2
    <3> QED
      BY <1>1, <3>1, RestingReportStays
  <2> QED
    BY <2>1, <2>2
<1> QED
  BY <1>1 DEF ReportsInOrder, ReportsAreTrue, ReportsMayRecord

\* A step that moves one report to a phase other than recording.
LEMMA OneMoveMeets ==
    ASSUME IInv, [Next]_vars, NEW r \in Reports,
           \A q \in Reports : q # r => report'[q] = report[q],
           report'[r].phase # "record"
    PROVE  RecordsMeetOverlapped'
BY OnlyGrows DEF IInv, RecordsMeetOverlapped

--------------------------------------------------------------------------------
(* The reports, step by step.                                                   *)

LEMMA ReportsStep ==
    ASSUME IInv, [Next]_vars
    PROVE  ReportsInOrder' /\ ReportsAreTrue' /\ ReportsMayRecord' /\ RecordsMeetOverlapped'
<1> TypeOK
  BY DEF IInv
<1>0. ASSUME report' = report
      PROVE  ReportsInOrder' /\ ReportsAreTrue' /\ ReportsMayRecord' /\ RecordsMeetOverlapped'
  <2>1. \A q \in Reports : report[q] # NoReport =>
            ReportInOrder(q)' /\ ReportIsTrue(q)' /\ ReportMayRecord(q)'
    BY <1>0, RestingReportStays
  <2>2. RecordsMeetOverlapped'
    BY <1>0, OnlyGrows DEF IInv, RecordsMeetOverlapped
  <2> QED
    BY <1>0, <2>1, <2>2 DEF ReportsInOrder, ReportsAreTrue, ReportsMayRecord
<1>1. ASSUME NEW r \in Reports, End(r)
      PROVE  ReportsInOrder' /\ ReportsAreTrue' /\ ReportsMayRecord' /\ RecordsMeetOverlapped'
  <2>1. report'[r] = NoReport /\ \A q \in Reports : q # r => report'[q] = report[q]
    BY <1>1, OnlyOneMoves DEF End
  <2>2. report'[r].phase # "record"
    BY <2>1 DEF NoReport
  <2> QED
    BY <2>1, <2>2, OneGoodMove, OneMoveMeets
<1>2. ASSUME NEW r \in Reports, NEW status \in TransferStatuses,
             report[r].phase \in {"look", "record"}, To(r, Judged(report[r], status)),
             status = "confirmed" =>
                 CountsNext(report[r].hash[report[r].role], report[r].target, report[r].role)
      PROVE  ReportsInOrder' /\ ReportsAreTrue' /\ ReportsMayRecord' /\ RecordsMeetOverlapped'
  <2>1. report[r] \in InFlight /\ report[r] # NoReport
    BY <1>2, InFlightType
  <2>2. report'[r] = Judged(report[r], status) /\ \A q \in Reports : q # r => report'[q] = report[q]
    BY <1>2, OnlyOneMoves
  <2>3. report'[r].phase # "record"
    BY <2>1, <2>2, JudgedShape
  <2>4. ReportInOrder(r)' /\ ReportIsTrue(r)' /\ ReportMayRecord(r)'
    BY <1>2, <2>1, <2>2, JudgedReportIsGood
  <2> QED
    BY <2>2, <2>3, <2>4, OneGoodMove, OneMoveMeets
<1>3. ASSUME NEW r \in Reports, NEW target \in Targets, NEW price \in Hashes,
             NEW fee \in OrNone(Hashes), Arrive(r, target, price, fee)
      PROVE  ReportsInOrder' /\ ReportsAreTrue' /\ ReportsMayRecord' /\ RecordsMeetOverlapped'
  <2> DEFINE hash == [price |-> price, fee |-> fee]
             next == [phase |-> "look", role |-> "price", target |-> target, hash |-> hash,
                      replay |-> settled[target] = hash, status |-> [role \in Roles |-> "unasked"]]
  <2>1. To(r, next) /\ price # fee
    BY <1>3 DEF Arrive
  <2>2. report'[r] = next /\ \A q \in Reports : q # r => report'[q] = report[q]
    BY <2>1, OnlyOneMoves
  <2>3. ReportInOrder(r)' /\ ReportIsTrue(r)' /\ ReportMayRecord(r)'
    BY <2>1, <2>2 DEF ReportInOrder, ReportIsTrue, ReportMayRecord
  <2>4. report'[r].phase # "record"
    BY <2>2
  <2> QED
    BY <2>2, <2>3, <2>4, OneGoodMove, OneMoveMeets
<1>4. ASSUME NEW r \in Reports, LookUp(r)
      PROVE  ReportsInOrder' /\ ReportsAreTrue' /\ ReportsMayRecord' /\ RecordsMeetOverlapped'
  <2> DEFINE w == report[r]
             hash == w.hash[w.role]
             next == [w EXCEPT !.phase = "record"]
  <2>1. w \in InFlight /\ w # NoReport /\ w.phase = "look"
    BY <1>4, InFlightType DEF LookUp
  <2>2. CASE \E status \in {"not_signed", "not_confirmed", "mismatched"} : To(r, Judged(w, status))
    <3>1. PICK status \in {"not_signed", "not_confirmed", "mismatched"} : To(r, Judged(w, status))
      BY <2>2
    <3>2. status \in TransferStatuses /\ status # "confirmed"
      BY DEF TransferStatuses
    <3> QED
      BY <1>2, <2>1, <3>1, <3>2
  <2>3. CASE To(r, next) /\ hash \in chain /\ PaysExpected(w) /\ ~SpentElsewhere(w)
    <3>1. report'[r] = next /\ \A q \in Reports : q # r => report'[q] = report[q]
      BY <2>3, OnlyOneMoves
    <3>2. next.phase = "record" /\ next.role = w.role /\ next.hash = w.hash
          /\ next.target = w.target /\ next.status = w.status
      BY <2>1 DEF InFlight
    <3>3. chain' = chain /\ spent' = spent /\ overlapped \subseteq overlapped'
      BY <1>4, OnlyGrows DEF LookUp
    <3>4. ReportInOrder(r) /\ ReportIsTrue(r)
      BY <2>1 DEF IInv, ReportsInOrder, ReportsAreTrue
    <3>5. ReportInOrder(r)'
      BY <3>1, <3>2, <3>4 DEF ReportInOrder
    <3>6. ReportIsTrue(r)'
      BY <3>1, <3>2, <3>3, <3>4 DEF ReportIsTrue, Counts
    <3>7. ReportMayRecord(r)'
      BY <2>3, <3>1, <3>2, <3>3 DEF ReportMayRecord, PaysExpected, SpentElsewhere
    <3>8. ASSUME NEW q \in Reports \ {r}, report[q].phase = "record",
                 report[q].hash[report[q].role] = hash
          PROVE  hash \in overlapped'
      BY <1>4, <3>8 DEF LookUp
    <3>9. RecordsMeetOverlapped'
      <4> SUFFICES ASSUME NEW p \in Reports, NEW q \in Reports, p # q,
                          report'[p].phase = "record", report'[q].phase = "record",
                          report'[p].hash[report'[p].role] = report'[q].hash[report'[q].role]
                   PROVE  report'[p].hash[report'[p].role] \in overlapped'
        BY DEF RecordsMeetOverlapped
      <4>0. report'[r].hash[report'[r].role] = hash
        BY <3>1, <3>2
      <4>1. CASE p = r
        <5>1. q \in Reports \ {r} /\ report'[q] = report[q]
          BY <3>1, <4>1
        <5> QED
          BY <3>8, <4>0, <4>1, <5>1
      <4>2. CASE q = r
        <5>1. p \in Reports \ {r} /\ report'[p] = report[p]
          BY <3>1, <4>2
        <5> QED
          BY <3>8, <4>0, <4>2, <5>1
      <4>3. CASE p # r /\ q # r
        BY <3>1, <3>3, <4>3 DEF IInv, RecordsMeetOverlapped
      <4> QED
        BY <4>1, <4>2, <4>3
    <3> QED
      BY <3>1, <3>5, <3>6, <3>7, <3>9, OneGoodMove
  <2> QED
    BY <1>4, <2>2, <2>3 DEF LookUp
<1>5. ASSUME NEW r \in Reports, RecordSpent(r)
      PROVE  ReportsInOrder' /\ ReportsAreTrue' /\ ReportsMayRecord' /\ RecordsMeetOverlapped'
  <2> DEFINE w == report[r]
  <2>1. w \in InFlight /\ w # NoReport /\ w.phase = "record"
    BY <1>5, InFlightType DEF RecordSpent
  <2>2. w.hash[w.role] \in chain /\ <<w.target, w.role>> \in Pays[w.hash[w.role]]
    BY <2>1 DEF IInv, ReportsMayRecord, ReportMayRecord
  <2>3. CountsNext(w.hash[w.role], w.target, w.role)
    BY <1>5, <2>2 DEF RecordSpent, CountsNext, TypeOK
  <2>4. To(r, Judged(w, "confirmed")) /\ "confirmed" \in TransferStatuses
    BY <1>5 DEF RecordSpent, TransferStatuses
  <2> QED
    BY <1>2, <2>1, <2>3, <2>4
<1>6. ASSUME NEW r \in Reports, MarkHalfPaid(r)
      PROVE  ReportsInOrder' /\ ReportsAreTrue' /\ ReportsMayRecord' /\ RecordsMeetOverlapped'
  <2> DEFINE w == report[r]
             next == [w EXCEPT !.phase = "settle"]
  <2>1. w \in InFlight /\ w # NoReport /\ w.phase = "half"
    BY <1>6, InFlightType DEF MarkHalfPaid
  <2>2. CASE End(r)
    BY <1>1, <2>2
  <2>3. CASE To(r, next) /\ BothConfirmed(w)
    <3>1. report'[r] = next /\ \A q \in Reports : q # r => report'[q] = report[q]
      BY <2>3, OnlyOneMoves
    <3>2. next.phase = "settle" /\ next.role = w.role /\ next.hash = w.hash
          /\ next.target = w.target /\ next.status = w.status
      BY <2>1 DEF InFlight
    <3>3. chain' = chain /\ spent' = spent /\ overlapped' = overlapped
      BY <1>6 DEF MarkHalfPaid
    <3>4. ReportInOrder(r) /\ ReportIsTrue(r)
      BY <2>1 DEF IInv, ReportsInOrder, ReportsAreTrue
    <3>5. ReportInOrder(r)'
      BY <2>1, <2>3, <3>1, <3>2, <3>4 DEF ReportInOrder, BothConfirmed, IsConfirmed
    <3>6. ReportIsTrue(r)'
      BY <3>1, <3>2, <3>3, <3>4 DEF ReportIsTrue, Counts
    <3>7. ReportMayRecord(r)' /\ report'[r].phase # "record"
      BY <3>1, <3>2 DEF ReportMayRecord
    <3> QED
      BY <3>1, <3>5, <3>6, <3>7, OneGoodMove, OneMoveMeets
  <2> QED
    BY <1>6, <2>2, <2>3 DEF MarkHalfPaid
<1>7. ASSUME NEW r \in Reports, RecordSettlement(r) \/ Lose(r)
      PROVE  ReportsInOrder' /\ ReportsAreTrue' /\ ReportsMayRecord' /\ RecordsMeetOverlapped'
  BY <1>1, <1>7 DEF RecordSettlement, Lose
<1>8. ASSUME NEW hash \in Hashes, Land(hash)
      PROVE  ReportsInOrder' /\ ReportsAreTrue' /\ ReportsMayRecord' /\ RecordsMeetOverlapped'
  BY <1>0, <1>8 DEF Land
<1>9. ASSUME UNCHANGED vars
      PROVE  ReportsInOrder' /\ ReportsAreTrue' /\ ReportsMayRecord' /\ RecordsMeetOverlapped'
  BY <1>0, <1>9 DEF vars
<1> QED
  BY <1>3, <1>4, <1>5, <1>6, <1>7, <1>8, <1>9 DEF Next

--------------------------------------------------------------------------------
(* The rows, step by step.                                                      *)

\* What a settlement row says stays so.
LEMMA SettlementsStep ==
    ASSUME IInv, [Next]_vars
    PROVE  SettlementsCount'
<1> TypeOK
  BY DEF IInv
<1> SUFFICES ASSUME NEW t \in Targets, settled'[t] # None
             PROVE  /\ settled'[t]["price"] # settled'[t]["fee"]
                    /\ \A role \in Roles : CountsNext(settled'[t][role], t, role)
  BY DEF SettlementsCount, Counts, CountsNext
<1>1. CASE settled'[t] = settled[t]
  <2>1. settled[t] # None
    BY <1>1
  <2>2. /\ settled[t]["price"] # settled[t]["fee"]
        /\ \A role \in Roles : Counts(settled[t][role], t, role)
    BY <2>1 DEF IInv, SettlementsCount
  <2>3. ASSUME NEW role \in Roles
        PROVE  CountsNext(settled[t][role], t, role)
    <3>1. Counts(settled[t][role], t, role)
      BY <2>2
    <3>2. settled[t][role] \in Hashes
      BY <3>1 DEF Counts, TypeOK
    <3> QED
      BY <3>1, <3>2, CountsStays
  <2> QED
    BY <1>1, <2>2, <2>3
<1>2. CASE settled'[t] # settled[t]
  <2>1. PICK r \in Reports : RecordSettlement(r)
    BY <1>2 DEF Next, vars, Arrive, LookUp, RecordSpent, MarkHalfPaid, Lose, Land
  <2> DEFINE w == report[r]
  <2>2. w \in InFlight /\ w # NoReport /\ w.phase = "settle"
    BY <2>1, InFlightType DEF RecordSettlement
  <2>3. settled'[t] = w.hash /\ t = w.target
    BY <1>2, <2>1 DEF RecordSettlement, TypeOK
  <2>4. ReportInOrder(r) /\ ReportIsTrue(r)
    BY <2>2 DEF IInv, ReportsInOrder, ReportsAreTrue
  <2>5. ASSUME NEW role \in Roles
        PROVE  CountsNext(w.hash[role], w.target, role)
    <3>1. w.status[role] = "confirmed"
      BY <2>2, <2>4 DEF ReportInOrder
    <3>2. Counts(w.hash[role], w.target, role)
      BY <2>4, <3>1 DEF ReportIsTrue
    <3> QED
      BY <2>1, <3>2 DEF RecordSettlement, Counts, CountsNext
  <2> QED
    BY <2>3, <2>4, <2>5 DEF ReportInOrder
<1> QED
  BY <1>1, <1>2

\* What a half-paid row says stays so, until it is overwritten or cleared.
LEMMA HoldsStep ==
    ASSUME IInv, [Next]_vars
    PROVE  HoldsCount'
<1> TypeOK
  BY DEF IInv
<1> SUFFICES ASSUME NEW t \in Targets, half'[t] # None
             PROVE  \E role \in Roles :
                        /\ \A other \in Roles :
                               half'[t].status[other] = "confirmed" <=> other = role
                        /\ CountsNext(half'[t][role], t, role)
  BY DEF HoldsCount, Counts, CountsNext
<1>1. CASE half'[t] = half[t]
  <2>1. PICK role \in Roles :
            /\ \A other \in Roles : half[t].status[other] = "confirmed" <=> other = role
            /\ Counts(half[t][role], t, role)
    BY <1>1 DEF IInv, HoldsCount
  <2>2. half[t][role] \in Hashes
    BY <2>1 DEF Counts, TypeOK
  <2>3. CountsNext(half[t][role], t, role)
    BY <2>1, <2>2, CountsStays
  <2> QED
    BY <1>1, <2>1, <2>3
<1>2. CASE half'[t] # half[t]
  <2>1. PICK r \in Reports : MarkHalfPaid(r)
    BY <1>2 DEF Next, vars, Arrive, LookUp, RecordSpent, RecordSettlement, Lose, Land
  <2> DEFINE w == report[r]
             new == [price |-> w.hash.price, fee |-> w.hash.fee, status |-> w.status]
  <2>2. w \in InFlight /\ w # NoReport
    BY <2>1, InFlightType DEF MarkHalfPaid
  <2>3. t = w.target /\ ExactlyOneConfirmed(w) /\ half'[t] = new
    BY <1>2, <2>1 DEF MarkHalfPaid, TypeOK
  <2>4. ReportIsTrue(r)
    BY <2>2 DEF IInv, ReportsAreTrue
  <2>5. PICK role \in Roles :
            \A other \in Roles : w.status[other] = "confirmed" <=> other = role
    <3>1. CASE w.status["price"] = "confirmed"
      BY <2>3, <3>1 DEF ExactlyOneConfirmed, IsConfirmed, Roles
    <3>2. CASE w.status["price"] # "confirmed"
      BY <2>3, <3>2 DEF ExactlyOneConfirmed, IsConfirmed, Roles
    <3> QED
      BY <3>1, <3>2
  <2>6. Counts(w.hash[role], w.target, role)
    BY <2>4, <2>5 DEF ReportIsTrue
  <2>7. new[role] = w.hash[role]
    BY <2>2 DEF Roles, InFlight
  <2>8. CountsNext(w.hash[role], w.target, role)
    BY <2>1, <2>6 DEF MarkHalfPaid, Counts, CountsNext
  <2> QED
    BY <2>3, <2>5, <2>7, <2>8
<1> QED
  BY <1>1, <1>2

--------------------------------------------------------------------------------
(* The theorems.                                                                *)

\* Every state the rows and the reports can be in satisfies IInv: types, what the
\* reports between two steps have established, and what the rows claim
\* (legStatus, confirmLegs, wallet-response).
THEOREM LegsInvariant == Spec => []IInv
<1>1. Init => IInv
  <2> SUFFICES ASSUME Init PROVE IInv
    OBVIOUS
  <2>1. TypeOK
    BY DEF Init, TypeOK, OrNone
  <2>2. ReportsInOrder /\ ReportsAreTrue /\ ReportsMayRecord /\ RecordsMeetOverlapped
    BY DEF Init, ReportsInOrder, ReportsAreTrue, ReportsMayRecord, RecordsMeetOverlapped, NoReport
  <2>3. SettlementsCount /\ HoldsCount
    BY DEF Init, SettlementsCount, HoldsCount
  <2> QED
    BY <2>1, <2>2, <2>3 DEF IInv
<1>2. IInv /\ [Next]_vars => IInv'
  <2> SUFFICES ASSUME IInv, [Next]_vars PROVE IInv'
    OBVIOUS
  <2> QED
    BY TypeStep, ReportsStep, SettlementsStep, HoldsStep DEF IInv
<1> QED
  BY <1>1, <1>2, PTL DEF Spec

\* Type correctness: what the three tables and the reports in flight can hold.
THEOREM LegsAreTyped == Spec => []TypeOK
<1>1. IInv => TypeOK
  BY DEF IInv
<1> QED
  BY <1>1, LegsInvariant, PTL

\* A settled leg was paid: two different transfers have landed that pay the
\* operator and the platform in full (legStatus, confirmLegs).
THEOREM SettledLegsArePaid == Spec => []SettledLegIsPaid
<1>1. IInv => SettledLegIsPaid
  BY DEF IInv, SettlementsCount, Counts, SettledLegIsPaid
<1> QED
  BY <1>1, LegsInvariant, PTL

\* A settlement stays backed by the spent rows of both its transfers, however many
\* reports follow (findByHash before record, the upsert by hash).
THEOREM SettledLegsAreBacked == Spec => []SettledLegIsBacked
<1>1. IInv => SettledLegIsBacked
  BY DEF IInv, SettlementsCount, Counts, SettledLegIsBacked
<1> QED
  BY <1>1, LegsInvariant, PTL

\* One transfer backs one role of one leg, unless two reports looked it up at once
\* (usdc-spent-transfer-storage-types.ts, record).
THEOREM TransfersBackOneLeg == Spec => []OneTransferOneLeg
<1>1. IInv => OneTransferOneLeg
  <2> SUFFICES ASSUME IInv,
                      NEW t \in Targets, NEW u \in Targets, NEW i \in Roles, NEW j \in Roles,
                      settled[t] # None, settled[u] # None,
                      settled[t][i] = settled[u][j], settled[t][i] \notin overlapped
               PROVE  t = u /\ i = j
    BY DEF OneTransferOneLeg
  <2>1. spent[settled[t][i]] = <<t, i>>
    BY DEF IInv, SettlementsCount, Counts
  <2>2. spent[settled[u][j]] = <<u, j>>
    BY DEF IInv, SettlementsCount, Counts
  <2> QED
    BY <2>1, <2>2
<1> QED
  BY <1>1, LegsInvariant, PTL

\* A half-paid row tells the truth: exactly one of its transfers counts, and that
\* one landed and pays this leg (confirmLegs, halfPaidStorage.record).
THEOREM HoldsAreHonest == Spec => []HoldIsHonest
<1>1. IInv => HoldIsHonest
  BY DEF IInv, HoldsCount, Counts, HoldIsHonest
<1> QED
  BY <1>1, LegsInvariant, PTL
--------------------------------------------------------------------------------
(* The agreement as two seats write it. The marks of a seat that never signed      *)
(* behind its page stand on words it pressed on, on the stored row and on every     *)
(* copy a request read: its signatures were put on what its pages showed, and a     *)
(* send carries a signature only to a line of the same words.                       *)

\* The marks of these seats on a row were pressed, on those words and on that offer.
MarksWerePressed(j, seats) ==
    \A seat \in seats :
        /\ \A i \in DOMAIN j.lines :
               seat \in j.lines[i].by => <<seat, j.lines[i].text>> \in pressed
        /\ seat \in j.offerBy => <<seat, j.offer>> \in pressed

UpToDate == Pages!Seats \ behind

\* A copy holds such marks, and a request to sign was pressed on what its page showed.
AskIsPressed(r) ==
    /\ request[r].copy # None => MarksWerePressed(request[r].copy, UpToDate)
    /\ request[r].seat # None /\ Pages!Signs(request[r].ask) =>
           <<request[r].seat, request[r].shown>> \in pressed

AsksArePressed == \A r \in Requests : AskIsPressed(r)

AgreementInv == Pages!TypeOK /\ MarksWerePressed(row, UpToDate) /\ AsksArePressed

LineRows == [text : Texts, by : SUBSET Pages!Seats]

--------------------------------------------------------------------------------
(* The lines of an agreement, and what a send makes of them.                       *)

LEMMA LinesAreLists ==
    ASSUME NEW lines \in Pages!Lines
    PROVE  \E n \in 0..MaxLines : lines \in [1..n -> LineRows]
BY DEF Pages!Lines, LineRows

LEMMA ListsAreLines ==
    ASSUME NEW n \in 0..MaxLines, NEW lines \in [1..n -> LineRows]
    PROVE  lines \in Pages!Lines
BY DEF Pages!Lines, LineRows

LEMMA ListsAreTexts ==
    ASSUME NEW n \in 0..MaxLines, NEW texts \in [1..n -> Texts]
    PROVE  texts \in {<<>>} \cup Pages!TextLists
<1>1. CASE n = 0
  BY <1>1
<1>2. CASE n # 0
  BY <1>2, AgreementAssumption DEF Pages!TextLists
<1> QED
  BY <1>1, <1>2

LEMMA TextsAreLists ==
    ASSUME NEW texts \in {<<>>} \cup Pages!TextLists
    PROVE  \E n \in 0..MaxLines : texts \in [1..n -> Texts]
<1>1. CASE texts = <<>>
  BY <1>1, AgreementAssumption
<1>2. CASE texts \in Pages!TextLists
  BY <1>2, AgreementAssumption DEF Pages!TextLists
<1> QED
  BY <1>1, <1>2

LEMMA TextsOfLines ==
    ASSUME NEW lines \in Pages!Lines
    PROVE  /\ Pages!TextsOf(lines) \in {<<>>} \cup Pages!TextLists
           /\ DOMAIN Pages!TextsOf(lines) = DOMAIN lines
<1>1. PICK n \in 0..MaxLines : lines \in [1..n -> LineRows]
  BY LinesAreLists
<1>2. Pages!TextsOf(lines) \in [1..n -> Texts]
  BY <1>1 DEF Pages!TextsOf, LineRows
<1> QED
  BY <1>1, <1>2, ListsAreTexts

LEMMA ReplacedTexts ==
    ASSUME NEW texts \in {<<>>} \cup Pages!TextLists, NEW i \in DOMAIN texts,
       NEW text \in Texts
    PROVE  Pages!Replaced(texts, i, text) \in {<<>>} \cup Pages!TextLists
<1>1. PICK n \in 0..MaxLines : texts \in [1..n -> Texts]
  BY TextsAreLists
<1>2. Pages!Replaced(texts, i, text) \in [1..n -> Texts]
  BY <1>1 DEF Pages!Replaced
<1> QED
  BY <1>2, ListsAreTexts

LEMMA AddedTexts ==
    ASSUME NEW texts \in {<<>>} \cup Pages!TextLists, Len(texts) < MaxLines,
       NEW text \in Texts
    PROVE  Append(texts, text) \in {<<>>} \cup Pages!TextLists
<1>1. PICK n \in 0..MaxLines : texts \in [1..n -> Texts]
  BY TextsAreLists
<1>2. n \in Nat /\ texts \in Seq(Texts) /\ Len(texts) = n
  BY <1>1, AgreementAssumption
<1>3. n + 1 \in 0..MaxLines
  BY <1>2, AgreementAssumption
<1>4. Append(texts, text) \in Seq(Texts) /\ Len(Append(texts, text)) = n + 1
  BY <1>2
<1>5. Append(texts, text) \in [1..(n + 1) -> Texts]
  BY <1>4, LenProperties
<1> QED
  BY <1>3, <1>5, ListsAreTexts

\* A line of a revised list carries only marks of a line that says the same.
LEMMA RevisedLines ==
    ASSUME NEW lines \in Pages!Lines, NEW texts \in {<<>>} \cup Pages!TextLists
    PROVE  /\ Pages!Revised(lines, texts) \in Pages!Lines
           /\ \A i \in DOMAIN Pages!Revised(lines, texts) :
                  \A seat \in Pages!Revised(lines, texts)[i].by :
                      \E k \in DOMAIN lines :
                          /\ lines[k].text = Pages!Revised(lines, texts)[i].text
                          /\ seat \in lines[k].by
<1> DEFINE Kept(i) == {k \in DOMAIN lines :
                          /\ lines[k].text = texts[i]
                          /\ Pages!Occurrence(Pages!TextsOf(lines), k) = Pages!Occurrence(texts, i)}
<1>1. PICK n \in 0..MaxLines : texts \in [1..n -> Texts]
  BY TextsAreLists
<1>2. PICK m \in 0..MaxLines : lines \in [1..m -> LineRows]
  BY LinesAreLists
<1>3. \A i \in 1..n : UNION {lines[k].by : k \in Kept(i)} \in SUBSET Pages!Seats
  BY <1>2 DEF LineRows
<1>4. Pages!Revised(lines, texts) = [i \in 1..n |->
          [text |-> texts[i], by |-> UNION {lines[k].by : k \in Kept(i)}]]
  BY <1>1 DEF Pages!Revised
<1> HIDE DEF Kept
<1>5. Pages!Revised(lines, texts) \in [1..n -> LineRows]
  BY <1>1, <1>3, <1>4 DEF LineRows
<1>6. ASSUME NEW i \in 1..n, NEW seat \in UNION {lines[k].by : k \in Kept(i)}
      PROVE  \E k \in DOMAIN lines : lines[k].text = texts[i] /\ seat \in lines[k].by
  BY <1>6 DEF Kept
<1> QED
  BY <1>4, <1>5, <1>6, ListsAreLines

--------------------------------------------------------------------------------
(* What a request writes.                                                          *)

LEMMA RowFields ==
    ASSUME NEW j \in Pages!Rows
    PROVE  /\ j.status \in {"draft", "proposed", "ended"} /\ j.lines \in Pages!Lines
           /\ j.offer \in Pages!OrNone(Pages!Offers) /\ j.offerBy \in SUBSET Pages!Seats
BY DEF Pages!Rows

WithLineSigned(j, at, seat) == [j EXCEPT !.lines[at].by = @ \cup {seat}]

LEMMA LineSigned ==
    ASSUME NEW j \in Pages!Rows, NEW at \in DOMAIN j.lines, NEW seat \in Pages!Seats
    PROVE  LET k == WithLineSigned(j, at, seat)
           IN  /\ k \in Pages!Rows /\ k.offer = j.offer /\ k.offerBy = j.offerBy
               /\ DOMAIN k.lines = DOMAIN j.lines
               /\ \A i \in DOMAIN j.lines :
                      /\ k.lines[i].text = j.lines[i].text
                      /\ i # at => k.lines[i].by = j.lines[i].by
               /\ k.lines[at].by = j.lines[at].by \cup {seat}
<1> DEFINE new == [j.lines EXCEPT ![at].by = @ \cup {seat}]
<1>1. PICK n \in 0..MaxLines : j.lines \in [1..n -> LineRows]
  BY LinesAreLists, RowFields
<1>2. j.lines[at] \in LineRows
  BY <1>1
<1>3. [j.lines[at] EXCEPT !.by = @ \cup {seat}] \in LineRows
  BY <1>2 DEF LineRows
<1>4. new = [j.lines EXCEPT ![at] = [j.lines[at] EXCEPT !.by = @ \cup {seat}]]
  BY <1>1
<1>5. new \in [1..n -> LineRows]
  BY <1>1, <1>3, <1>4
<1>6. new \in Pages!Lines
  BY <1>5, ListsAreLines
<1>7. /\ DOMAIN new = DOMAIN j.lines
      /\ \A i \in DOMAIN j.lines : i # at => new[i] = j.lines[i]
      /\ new[at] = [j.lines[at] EXCEPT !.by = @ \cup {seat}]
  BY <1>1, <1>4
<1>8. new[at].text = j.lines[at].text /\ new[at].by = j.lines[at].by \cup {seat}
  BY <1>2, <1>7 DEF LineRows
<1>9. WithLineSigned(j, at, seat) = [j EXCEPT !.lines = new]
  BY DEF WithLineSigned
<1> HIDE DEF new
<1>10. /\ [j EXCEPT !.lines = new] \in Pages!Rows /\ [j EXCEPT !.lines = new].lines = new
       /\ [j EXCEPT !.lines = new].offer = j.offer
       /\ [j EXCEPT !.lines = new].offerBy = j.offerBy
  BY <1>6 DEF Pages!Rows
<1> QED
  BY <1>7, <1>8, <1>9, <1>10

LEMMA OfferSigned ==
    ASSUME NEW j \in Pages!Rows, NEW seat \in Pages!Seats
    PROVE  LET k == [j EXCEPT !.offerBy = @ \cup {seat}]
           IN  /\ k \in Pages!Rows /\ k.offer = j.offer /\ k.lines = j.lines
               /\ k.offerBy = j.offerBy \cup {seat}
BY DEF Pages!Rows

LEMMA Left ==
    ASSUME NEW j \in Pages!Rows
    PROVE  LET k == [j EXCEPT !.status = "ended"]
           IN  k \in Pages!Rows /\ k.offer = j.offer /\ k.lines = j.lines /\ k.offerBy = j.offerBy
BY DEF Pages!Rows

LEMMA ReofferedRow ==
    ASSUME NEW j \in Pages!Rows, NEW offer \in Pages!OrNone(Pages!Offers)
    PROVE  LET k == Pages!Reoffered(j, offer)
           IN  /\ k \in Pages!Rows /\ k.lines = j.lines
               /\ k.offerBy # {} => k.offer = j.offer /\ k.offerBy = j.offerBy
<1>1. CASE offer \in {None, j.offer}
  BY <1>1 DEF Pages!Reoffered
<1>2. CASE offer \notin {None, j.offer}
  <2>1. Pages!Reoffered(j, offer) = [j EXCEPT !.offer = offer, !.offerBy = {}]
    BY <1>2 DEF Pages!Reoffered
  <2>2. [j EXCEPT !.offer = offer, !.offerBy = {}] \in Pages!Rows
    BY DEF Pages!Rows
  <2>3. /\ [j EXCEPT !.offer = offer, !.offerBy = {}].lines = j.lines
        /\ [j EXCEPT !.offer = offer, !.offerBy = {}].offerBy = {}
    BY DEF Pages!Rows
  <2> QED
    BY <2>1, <2>2, <2>3
<1> QED
  BY <1>1, <1>2

LEMMA SentRow ==
    ASSUME NEW j \in Pages!Rows, NEW lines \in Pages!Lines
    PROVE  LET k == [j EXCEPT !.status = "proposed", !.lines = lines]
           IN  k \in Pages!Rows /\ k.lines = lines /\ k.offer = j.offer /\ k.offerBy = j.offerBy
<1>1. [j EXCEPT !.status = "proposed", !.lines = lines] \in Pages!Rows
  BY DEF Pages!Rows
<1>2. /\ [j EXCEPT !.status = "proposed", !.lines = lines].lines = lines
      /\ [j EXCEPT !.status = "proposed", !.lines = lines].offer = j.offer
      /\ [j EXCEPT !.status = "proposed", !.lines = lines].offerBy = j.offerBy
  BY DEF Pages!Rows
<1> QED
  BY <1>1, <1>2

\* Whatever a request may write, the marks of these seats were pressed, if they were on
\* the copy and what the request signs for one of them was.
LEMMA WrittenMarks ==
    ASSUME NEW j \in Pages!Rows, NEW ask \in Pages!Asks, NEW seat \in Pages!Seats,
       NEW deposited, NEW seats \in SUBSET Pages!Seats,
           Pages!Allowed(j, ask, deposited), MarksWerePressed(j, seats),
           seat \in seats /\ Pages!Signs(ask) => <<seat, Pages!SignedAt(j, ask)>> \in pressed
    PROVE  /\ Pages!Written(j, ask, seat) \in Pages!Rows
           /\ MarksWerePressed(Pages!Written(j, ask, seat), seats)
<1>1. CASE ask.kind = "sign-line"
  <2> DEFINE after == WithLineSigned(j, ask.at, seat)
  <2>1. Pages!Written(j, ask, seat) = after
    BY <1>1 DEF Pages!Written, WithLineSigned
  <2>2. ask.at \in DOMAIN j.lines
    BY <1>1 DEF Pages!Allowed
  <2>3. seat \in seats => <<seat, j.lines[ask.at].text>> \in pressed
    BY <1>1 DEF Pages!Signs, Pages!SignedAt
  <2>4. /\ after \in Pages!Rows /\ after.offer = j.offer /\ after.offerBy = j.offerBy
        /\ DOMAIN after.lines = DOMAIN j.lines
        /\ \A i \in DOMAIN j.lines :
               /\ after.lines[i].text = j.lines[i].text
               /\ i # ask.at => after.lines[i].by = j.lines[i].by
        /\ after.lines[ask.at].by = j.lines[ask.at].by \cup {seat}
    BY <2>2, LineSigned
  <2> HIDE DEF after
  <2>5. ASSUME NEW i \in DOMAIN after.lines, NEW s \in seats,
     s \in after.lines[i].by
        PROVE  <<s, after.lines[i].text>> \in pressed
    <3>1. CASE i = ask.at
      BY <2>2, <2>3, <2>4, <2>5, <3>1 DEF MarksWerePressed
    <3>2. CASE i # ask.at
      BY <2>4, <2>5, <3>2 DEF MarksWerePressed
    <3> QED
      BY <3>1, <3>2
  <2>6. MarksWerePressed(after, seats)
    BY <2>4, <2>5 DEF MarksWerePressed
  <2> QED
    BY <2>1, <2>4, <2>6
<1>2. CASE ask.kind = "sign-offer"
  <2>1. Pages!Written(j, ask, seat) = [j EXCEPT !.offerBy = @ \cup {seat}]
    BY <1>2 DEF Pages!Written
  <2>2. seat \in seats => <<seat, j.offer>> \in pressed
    BY <1>2 DEF Pages!Signs, Pages!SignedAt
  <2> QED
    BY <2>1, <2>2, OfferSigned DEF MarksWerePressed
<1>3. CASE ask.kind = "send"
  <2> DEFINE priced == Pages!Reoffered(j, ask.offer)
             lines == Pages!Revised(j.lines, ask.texts)
  <2>1. ask.offer \in Pages!OrNone(Pages!Offers) /\ ask.texts \in {<<>>} \cup Pages!TextLists
    BY DEF Pages!Asks
  <2>2. /\ priced \in Pages!Rows /\ priced.lines = j.lines
        /\ priced.offerBy # {} => priced.offer = j.offer /\ priced.offerBy = j.offerBy
    BY <2>1, ReofferedRow
  <2>3. /\ lines \in Pages!Lines
        /\ \A i \in DOMAIN lines : \A s \in lines[i].by :
               \E k \in DOMAIN j.lines : j.lines[k].text = lines[i].text /\ s \in j.lines[k].by
    BY <2>1, RevisedLines, RowFields
  <2> DEFINE after == [priced EXCEPT !.status = "proposed", !.lines = lines]
  <2>4. Pages!Written(j, ask, seat) = after
    BY <1>3, <2>2 DEF Pages!Written
  <2> HIDE DEF priced, lines
  <2>5. /\ after \in Pages!Rows /\ after.lines = lines
        /\ after.offer = priced.offer /\ after.offerBy = priced.offerBy
    BY <2>2, <2>3, SentRow, Zenon
  <2> HIDE DEF after
  <2>6. MarksWerePressed(after, seats)
    BY <2>2, <2>3, <2>5 DEF MarksWerePressed
  <2> QED
    BY <2>4, <2>5, <2>6
<1>4. CASE ask.kind = "leave"
  <2>1. Pages!Written(j, ask, seat) = [j EXCEPT !.status = "ended"]
    BY <1>4 DEF Pages!Written
  <2> QED
    BY <2>1, Left DEF MarksWerePressed
<1> QED
  BY <1>1, <1>2, <1>3, <1>4 DEF Pages!Asks
--------------------------------------------------------------------------------
(* What a page offers, and what of it reaches the server.                          *)

LEMMA SendsType ==
    ASSUME NEW texts \in {<<>>} \cup Pages!TextLists,
       NEW offer \in Pages!OrNone(Pages!Offers)
    PROVE  Pages!Sends(texts, offer) \in Pages!Asks
BY AgreementAssumption DEF Pages!Sends, Pages!Asked, Pages!Asks

LEMMA PlainAsks ==
    /\ Pages!SignsOffer \in Pages!Asks /\ Pages!Leaves \in Pages!Asks
    /\ \A j \in Pages!Rows : \A i \in DOMAIN j.lines : Pages!SignsLine(i) \in Pages!Asks
<1>1. Pages!SignsOffer \in Pages!Asks /\ Pages!Leaves \in Pages!Asks
  BY AgreementAssumption DEF Pages!SignsOffer, Pages!Leaves, Pages!Asked, Pages!Asks,
     Pages!OrNone
<1>2. ASSUME NEW j \in Pages!Rows,
   NEW i \in DOMAIN j.lines PROVE Pages!SignsLine(i) \in Pages!Asks
  <2>1. PICK n \in 0..MaxLines : j.lines \in [1..n -> LineRows]
    BY LinesAreLists, RowFields
  <2>2. i \in 0..MaxLines
    BY <1>2, <2>1, AgreementAssumption
  <2> QED
    BY <2>2 DEF Pages!SignsLine, Pages!Asked, Pages!Asks, Pages!OrNone
<1> QED
  BY <1>1, <1>2

LEMMA OtherOffersType ==
    ASSUME NEW offer \in Pages!OrNone(Pages!Offers)
    PROVE  Pages!OtherOffers(offer) \subseteq Pages!Offers
BY AgreementAssumption DEF Pages!OtherOffers, Pages!OrNone, Pages!Offers

LEMMA OfferedType ==
    ASSUME NEW seat \in Pages!Seats, NEW j \in Pages!Rows
    PROVE  Pages!Offered(seat, j) \subseteq Pages!Asks
<1> DEFINE texts == Pages!TextsOf(j.lines)
<1>1. texts \in {<<>>} \cup Pages!TextLists
  BY RowFields, TextsOfLines
<1> HIDE DEF texts
<1>2. ASSUME NEW ask \in Pages!Offered(seat, j)
      PROVE  \/ \E i \in DOMAIN j.lines : ask = Pages!SignsLine(i)
             \/ ask = Pages!SignsOffer \/ ask = Pages!Leaves
             \/ \E i \in DOMAIN texts, text \in Texts : ask = Pages!Sends(Pages!Replaced(texts, i, text), None)
             \/ \E offer \in Pages!OtherOffers(j.offer) : ask = Pages!Sends(texts, offer)
             \/ \E text \in Texts : Len(texts) < MaxLines /\ ask = Pages!Sends(Append(texts, text), None)
  BY <1>2 DEF Pages!Offered, texts
<1>3. Pages!OtherOffers(j.offer) \subseteq Pages!OrNone(Pages!Offers) /\ None \in Pages!OrNone(Pages!Offers)
  BY RowFields, OtherOffersType DEF Pages!OrNone
<1>4. SUFFICES ASSUME NEW ask \in Pages!Offered(seat, j) PROVE ask \in Pages!Asks
  OBVIOUS
<1>5. CASE \E i \in DOMAIN texts, text \in Texts : ask = Pages!Sends(Pages!Replaced(texts, i, text), None)
  BY <1>1, <1>3, <1>5, ReplacedTexts, SendsType
<1>6. CASE \E offer \in Pages!OtherOffers(j.offer) : ask = Pages!Sends(texts, offer)
  BY <1>1, <1>3, <1>6, SendsType
<1>7. CASE \E text \in Texts : Len(texts) < MaxLines /\ ask = Pages!Sends(Append(texts, text), None)
  BY <1>1, <1>3, <1>7, AddedTexts, SendsType
<1> QED
  BY <1>2, <1>5, <1>6, <1>7, PlainAsks

AtServer == [seat : Pages!OrNone(Pages!Seats), ask : Pages!Asks,
             shown : Pages!OrNone(Texts \cup Pages!Offers), copy : Pages!OrNone(Pages!Rows)]

NewRowType == Pages!NewRow \in Pages!Rows /\ Pages!NoRequest \in AtServer

LEMMA NothingYet == NewRowType
<1>1. <<>> \in Pages!Lines
  <2>1. <<>> \in [1..0 -> LineRows]
    OBVIOUS
  <2>2. 0 \in 0..MaxLines
    BY AgreementAssumption
  <2> QED
    BY <2>1, <2>2, ListsAreLines
<1>2. Pages!NewRow \in Pages!Rows
  BY <1>1 DEF Pages!NewRow, Pages!Rows, Pages!OrNone
<1> QED
  BY <1>2, PlainAsks DEF NewRowType, Pages!NoRequest, AtServer, Pages!OrNone

\* What a press signs is a line's words or an offer.
LEMMA ShownType ==
    ASSUME NEW seat \in Pages!Seats, NEW j \in Pages!Rows,
           NEW ask \in Pages!Offered(seat, j), Pages!Signs(ask)
    PROVE  Pages!SignedAt(j, ask) \in Texts \cup Pages!Offers
<1>1. \/ \E i \in DOMAIN j.lines : ask = Pages!SignsLine(i)
      \/ j.offer # None /\ ask = Pages!SignsOffer
  BY DEF Pages!Offered, Pages!Signs, Pages!Sends, Pages!Leaves, Pages!Asked
<1>2. CASE \E i \in DOMAIN j.lines : ask = Pages!SignsLine(i)
  <2>1. PICK n \in 0..MaxLines : j.lines \in [1..n -> LineRows]
    BY LinesAreLists, RowFields
  <2>2. PICK i \in DOMAIN j.lines : ask = Pages!SignsLine(i)
    BY <1>2
  <2>3. j.lines[i].text \in Texts
    BY <2>1 DEF LineRows
  <2> QED
    BY <2>2, <2>3 DEF Pages!SignsLine, Pages!Asked, Pages!SignedAt
<1>3. CASE j.offer # None /\ ask = Pages!SignsOffer
  BY <1>3, RowFields DEF Pages!SignsOffer, Pages!Asked, Pages!SignedAt, Pages!OrNone
<1> QED
  BY <1>1, <1>2, <1>3

\* A press is remembered with what its page showed, and nothing else moves.
LEMMA RequestSent ==
    ASSUME AgreementInv, NEW r \in Requests, NEW seat \in Pages!Seats,
           NEW ask \in Pages!Asks, Pages!Sent(r, seat, ask),
           Pages!Signs(ask) => Pages!SignedAt(page[seat], ask) \in Texts \cup Pages!Offers
    PROVE  AgreementInv'
<1> DEFINE shown == IF Pages!Signs(ask) THEN Pages!SignedAt(page[seat], ask) ELSE None
           sent == [seat |-> seat, ask |-> ask, shown |-> shown, copy |-> None]
<1>1. shown \in Pages!OrNone(Texts \cup Pages!Offers)
  BY DEF Pages!OrNone
<1>2. /\ request' = [request EXCEPT ![r] = sent]
      /\ pressed' = pressed \cup (IF Pages!Signs(ask) THEN {<<seat, shown>>} ELSE {})
      /\ row' = row /\ paid' = paid /\ page' = page /\ checkout' = checkout
      /\ behind' = behind
  BY DEF Pages!Sent
<1>3. Pages!Signs(ask) => shown \in Texts \cup Pages!Offers
  OBVIOUS
<1> HIDE DEF shown
<1>4. sent \in AtServer
  BY <1>1 DEF AtServer, Pages!OrNone
<1>5. sent.copy = None /\ sent.seat = seat /\ sent.ask = ask /\ sent.shown = shown
  OBVIOUS
<1> HIDE DEF sent
<1>6. request' \in [Requests -> AtServer]
  BY <1>2, <1>4 DEF AgreementInv, Pages!TypeOK, AtServer
<1>7. presses' \in 0..MaxPresses
  BY AgreementAssumption DEF AgreementInv, Pages!TypeOK, Pages!Sent
<1>8. pressed' \subseteq Pages!Seats \X (Texts \cup Pages!Offers) /\ pressed \subseteq pressed'
  BY <1>2, <1>3 DEF AgreementInv, Pages!TypeOK
<1>9. Pages!TypeOK'
  BY <1>2, <1>6, <1>7, <1>8 DEF AgreementInv, Pages!TypeOK, AtServer
<1>10. MarksWerePressed(row, UpToDate)'
  BY <1>2, <1>8 DEF AgreementInv, MarksWerePressed, UpToDate
<1>11. ASSUME NEW q \in Requests PROVE AskIsPressed(q)'
  <2>1. CASE q = r
    <3>1. request'[q] = sent
      BY <1>2, <2>1 DEF AgreementInv, Pages!TypeOK
    <3>2. Pages!Signs(ask) => <<seat, shown>> \in pressed'
      BY <1>2
    <3> QED
      BY <1>5, <3>1, <3>2 DEF AskIsPressed
  <2>2. CASE q # r
    <3>1. request'[q] = request[q]
      BY <1>2, <2>2 DEF AgreementInv, Pages!TypeOK
    <3>2. AskIsPressed(q)
      BY DEF AgreementInv, AsksArePressed
    <3> QED
      BY <1>2, <1>8, <3>1, <3>2 DEF AskIsPressed, MarksWerePressed, UpToDate
  <2> QED
    BY <2>1, <2>2
<1> QED
  BY <1>9, <1>10, <1>11 DEF AgreementInv, AsksArePressed

\* A request that reaches the server takes a copy of the stored row.
LEMMA RequestReaches ==
    ASSUME AgreementInv, NEW r \in Requests, Pages!Reaches(r)
    PROVE  AgreementInv'
<1>1. row \in Pages!Rows /\ request \in [Requests -> AtServer]
  BY DEF AgreementInv, Pages!TypeOK, AtServer
<1>2. /\ request' = [request EXCEPT ![r].copy = row]
      /\ row' = row /\ paid' = paid /\ page' = page /\ checkout' = checkout
      /\ presses' = presses /\ pressed' = pressed /\ behind' = behind
  BY DEF Pages!Reaches, Pages!histories
<1>3. /\ request'[r].copy = row /\ request'[r].seat = request[r].seat
      /\ request'[r].ask = request[r].ask /\ request'[r].shown = request[r].shown
      /\ request' \in [Requests -> AtServer]
      /\ \A q \in Requests : q # r => request'[q] = request[q]
  BY <1>1, <1>2 DEF AtServer, Pages!OrNone
<1>4. Pages!TypeOK'
  BY <1>2, <1>3 DEF AgreementInv, Pages!TypeOK, AtServer
<1>5. MarksWerePressed(row, UpToDate)'
  BY <1>2 DEF AgreementInv, MarksWerePressed, UpToDate
<1>6. ASSUME NEW q \in Requests PROVE AskIsPressed(q)'
  <2>1. AskIsPressed(q)
    BY DEF AgreementInv, AsksArePressed
  <2>2. CASE q = r
    BY <1>2, <1>3, <1>5, <2>1, <2>2 DEF AskIsPressed, MarksWerePressed, UpToDate
  <2>3. CASE q # r
    BY <1>2, <1>3, <2>1, <2>3 DEF AskIsPressed, MarksWerePressed, UpToDate
  <2> QED
    BY <2>2, <2>3
<1> QED
  BY <1>4, <1>5, <1>6 DEF AgreementInv, AsksArePressed

\* A request that ended has written nothing more.
LEMMA RequestEnds ==
    ASSUME AgreementInv, NEW r \in Requests, Pages!End(r), pressed' = pressed,
           behind \subseteq behind'
    PROVE  AsksArePressed' /\ request' \in [Requests -> AtServer]
<1>1. request' \in [Requests -> AtServer]
  BY NothingYet DEF NewRowType, AgreementInv, Pages!TypeOK, Pages!End, AtServer
<1>2. ASSUME NEW q \in Requests PROVE AskIsPressed(q)'
  <2>1. CASE q = r
    <3>1. request'[q] = Pages!NoRequest
      BY <2>1 DEF AgreementInv, Pages!TypeOK, Pages!End
    <3> QED
      BY <3>1 DEF Pages!NoRequest, AskIsPressed
  <2>2. CASE q # r
    <3>1. request'[q] = request[q]
      BY <2>2 DEF AgreementInv, Pages!TypeOK, Pages!End
    <3>2. AskIsPressed(q)
      BY DEF AgreementInv, AsksArePressed
    <3> QED
      BY <3>1, <3>2 DEF AskIsPressed, MarksWerePressed, UpToDate
  <2> QED
    BY <2>1, <2>2
<1> QED
  BY <1>1, <1>2 DEF AsksArePressed

\* Every action keeps the invariant.
LEMMA AgreementStep ==
    ASSUME AgreementInv, Pages!Next
    PROVE  AgreementInv'
<1>1. ASSUME NEW seat \in Pages!Seats, Pages!Open(seat) PROVE AgreementInv'
  <2>1. Pages!TypeOK'
    BY <1>1 DEF AgreementInv, Pages!TypeOK, Pages!OrNone, Pages!Open, Pages!histories
  <2>2. row' = row /\ request' = request /\ pressed' = pressed /\ behind' = behind
    BY <1>1 DEF Pages!Open, Pages!histories
  <2> QED
    BY <2>1, <2>2 DEF AgreementInv, MarksWerePressed, AsksArePressed, AskIsPressed, UpToDate
<1>2. ASSUME NEW r \in Requests, NEW seat \in Pages!Seats, Pages!Press(r,
   seat) PROVE AgreementInv'
  <2>1. PICK ask \in Pages!Shown(seat) : Pages!Sent(r, seat, ask)
    BY <1>2 DEF Pages!Press
  <2>2. page[seat] \in Pages!Rows /\ ask \in Pages!Offered(seat, page[seat])
    BY <2>1 DEF Pages!Shown, AgreementInv, Pages!TypeOK, Pages!OrNone
  <2>3. ask \in Pages!Asks
    BY <2>2, OfferedType
  <2>4. Pages!Signs(ask) => Pages!SignedAt(page[seat], ask) \in Texts \cup Pages!Offers
    BY <2>2, ShownType
  <2> QED
    BY <2>1, <2>3, <2>4, RequestSent
<1>3. ASSUME NEW r \in Requests, Pages!SendQuote(r) PROVE AgreementInv'
  <2>1. PICK texts \in Pages!TextLists, offer \in Pages!Offers :
            Pages!Sent(r, "agent", Pages!Sends(texts, offer))
    BY <1>3 DEF Pages!SendQuote
  <2>2. Pages!Sends(texts, offer) \in Pages!Asks
    BY SendsType DEF Pages!OrNone
  <2>3. "agent" \in Pages!Seats /\ ~Pages!Signs(Pages!Sends(texts, offer))
    BY DEF Pages!Seats, Pages!Signs, Pages!Sends, Pages!Asked
  <2> QED
    BY <2>1, <2>2, <2>3, RequestSent
<1>8. ASSUME NEW r \in Requests, Pages!Reaches(r) PROVE AgreementInv'
  BY <1>8, RequestReaches
<1>4. ASSUME NEW r \in Requests, NEW arrives \in BOOLEAN, Pages!Answer(r,
   arrives) PROVE AgreementInv'
  <2> DEFINE after == Pages!Written(request[r].copy, request[r].ask, request[r].seat)
  <2>1. /\ request[r] \in AtServer /\ request[r].seat # None /\ request[r].copy # None
        /\ Pages!Allowed(request[r].copy, request[r].ask, paid)
    BY <1>4 DEF AgreementInv, Pages!TypeOK, AtServer, Pages!Answer
  <2>2. /\ request[r].copy \in Pages!Rows /\ request[r].ask \in Pages!Asks
        /\ request[r].seat \in Pages!Seats
    BY <2>1 DEF AtServer, Pages!OrNone
  <2>3. /\ row' = after /\ Pages!End(r)
        /\ page' = IF ~arrives THEN page
                   ELSE [page EXCEPT ![request[r].seat] =
                            IF request[r].ask.kind = "leave" THEN None ELSE after]
        /\ paid' = paid /\ checkout' = checkout /\ presses' = presses /\ pressed' = pressed
    BY <1>4 DEF Pages!Answer
  <2>4. behind' = IF /\ Pages!Signs(request[r].ask)
                     /\ Pages!SignedAt(request[r].copy, request[r].ask) # request[r].shown
                  THEN behind \cup {request[r].seat} ELSE behind
    BY <1>4 DEF Pages!Answer
  <2>5. behind \subseteq behind' /\ behind' \subseteq Pages!Seats
    BY <2>2, <2>4 DEF AgreementInv, Pages!TypeOK
  <2>6. MarksWerePressed(request[r].copy, Pages!Seats \ behind')
    BY <2>1, <2>5 DEF AgreementInv, AsksArePressed, AskIsPressed, MarksWerePressed, UpToDate
  <2>7. request[r].seat \in Pages!Seats \ behind' /\ Pages!Signs(request[r].ask) =>
            <<request[r].seat, Pages!SignedAt(request[r].copy, request[r].ask)>> \in pressed
    BY <2>1, <2>4 DEF AgreementInv, AsksArePressed, AskIsPressed
  <2>8. after \in Pages!Rows /\ MarksWerePressed(after, Pages!Seats \ behind')
    BY <2>1, <2>2, <2>6, <2>7, WrittenMarks
  <2> HIDE DEF after
  <2>9. AsksArePressed' /\ request' \in [Requests -> AtServer]
    BY <2>3, <2>5, RequestEnds
  <2>10. page' \in [Pages!Seats -> Pages!OrNone(Pages!Rows)]
    BY <2>2, <2>3, <2>8 DEF AgreementInv, Pages!TypeOK, Pages!OrNone
  <2>11. Pages!TypeOK'
    BY <2>3, <2>5, <2>8, <2>9, <2>10 DEF AgreementInv, Pages!TypeOK, AtServer
  <2>12. MarksWerePressed(row, UpToDate)'
    BY <2>3, <2>8 DEF MarksWerePressed, UpToDate
  <2> QED
    BY <2>9, <2>11, <2>12 DEF AgreementInv
<1>5. ASSUME NEW r \in Requests, Pages!Refuse(r) PROVE AgreementInv'
  <2>1. /\ row' = row /\ paid' = paid /\ page' = page /\ checkout' = checkout
        /\ presses' = presses /\ pressed' = pressed /\ behind' = behind /\ Pages!End(r)
    BY <1>5 DEF Pages!Refuse, Pages!histories
  <2>2. AsksArePressed' /\ request' \in [Requests -> AtServer]
    BY <2>1, RequestEnds
  <2>3. Pages!TypeOK'
    BY <2>1, <2>2 DEF AgreementInv, Pages!TypeOK, AtServer
  <2>4. MarksWerePressed(row, UpToDate)'
    BY <2>1 DEF AgreementInv, MarksWerePressed, UpToDate
  <2> QED
    BY <2>2, <2>3, <2>4 DEF AgreementInv
<1>6. ASSUME Pages!OpenDeposit PROVE AgreementInv'
  <2>1. Pages!TypeOK'
    BY <1>6 DEF AgreementInv, Pages!TypeOK, Pages!OrNone, Pages!OpenDeposit, Pages!histories
  <2>2. row' = row /\ request' = request /\ pressed' = pressed /\ behind' = behind
    BY <1>6 DEF Pages!OpenDeposit, Pages!histories
  <2> QED
    BY <2>1, <2>2 DEF AgreementInv, MarksWerePressed, AsksArePressed, AskIsPressed, UpToDate
<1>7. ASSUME Pages!DepositSettles PROVE AgreementInv'
  <2>1. Pages!TypeOK'
    BY <1>7 DEF AgreementInv, Pages!TypeOK, Pages!OrNone, Pages!DepositSettles, Pages!histories
  <2>2. row' = row /\ request' = request /\ pressed' = pressed /\ behind' = behind
    BY <1>7 DEF Pages!DepositSettles, Pages!histories
  <2> QED
    BY <2>1, <2>2 DEF AgreementInv, MarksWerePressed, AsksArePressed, AskIsPressed, UpToDate
<1> QED
  BY <1>1, <1>2, <1>3, <1>4, <1>5, <1>6, <1>7, <1>8 DEF Pages!Next

LEMMA AgreementBegins == Pages!Init => AgreementInv
<1> SUFFICES ASSUME Pages!Init PROVE AgreementInv
  OBVIOUS
<1>1. row \in Pages!Rows /\ request \in [Requests -> AtServer]
  BY NothingYet DEF Pages!Init, NewRowType
<1>2. Pages!TypeOK
  <2>1. presses \in 0..MaxPresses
    BY AgreementAssumption DEF Pages!Init
  <2>2. page \in [Pages!Seats -> Pages!OrNone(Pages!Rows)] /\ checkout \in Pages!OrNone(Pages!Rows) /\ paid \in BOOLEAN
    BY DEF Pages!Init, Pages!OrNone
  <2> QED
    BY <1>1, <2>1, <2>2 DEF Pages!Init, Pages!TypeOK, AtServer
<1>3. MarksWerePressed(row, UpToDate)
  BY DEF Pages!Init, Pages!NewRow, MarksWerePressed, UpToDate
<1>4. AsksArePressed
  BY DEF Pages!Init, Pages!NoRequest, AskIsPressed, AsksArePressed
<1> QED
  BY <1>2, <1>3, <1>4 DEF AgreementInv

LEMMA AgreementGoesOn ==
    ASSUME AgreementInv, [Pages!Next]_(Pages!vars)
    PROVE  AgreementInv'
<1>1. CASE Pages!Next
  BY <1>1, AgreementStep
<1>2. CASE UNCHANGED (Pages!vars)
  BY <1>2 DEF Pages!vars, AgreementInv, Pages!TypeOK, MarksWerePressed, AsksArePressed,
     AskIsPressed, UpToDate
<1> QED
  BY <1>1, <1>2

\* However the two seats write over each other, the invariant of the agreement holds.
THEOREM AgreementInvariant == Pages!Spec => []AgreementInv
BY AgreementBegins, AgreementGoesOn, PTL DEF Pages!Spec

\* A step of the scene of the agreement is a step of its pages.
LEMMA SeatsGoOn ==
    ASSUME scene = "agreement", [DealsNext]_<<scene, vars, PageVars>>
    PROVE  scene' = "agreement" /\ [Pages!Next]_(Pages!vars)
BY DEF DealsNext, Transfers, Agreement, PageVars, Pages!vars, Pages!Next

SceneHolds == scene = "agreement" => AgreementInv

LEMMA SceneGoesOn ==
    ASSUME SceneHolds, [DealsNext]_<<scene, vars, PageVars>>
    PROVE  SceneHolds'
<1>1. CASE scene = "agreement"
  BY <1>1, SeatsGoOn, AgreementGoesOn DEF SceneHolds
<1>2. CASE scene # "agreement"
  <2>1. scene' = scene
    BY <1>2 DEF DealsNext, Transfers, Agreement
  <2> QED
    BY <1>2, <2>1 DEF SceneHolds
<1> QED
  BY <1>1, <1>2

\* The marks of a seat whose signatures all landed on what its page showed stand on words
\* and an offer it pressed on as it saw them, for lists of any length, pages however old and
\* requests however they overlap (reviseAgreement's carried marks, proposeCriteria).
THEOREM MarksAreMeant == DealsSpec => []MarksStandOnTheirWords
<1>1. DealsInit => SceneHolds
  BY AgreementBegins DEF DealsInit, SceneHolds
<1>2. SceneHolds => MarksStandOnTheirWords
  BY DEF SceneHolds, AgreementInv, MarksWerePressed, MarksStandOnTheirWords,
     Pages!MarksStandOnTheirWords, Pages!Meant, UpToDate
<1> QED
  BY <1>1, <1>2, SceneGoesOn, PTL DEF DealsSpec
================================================================================
