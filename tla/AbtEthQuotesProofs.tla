--------------------------- MODULE AbtEthQuotesProofs ---------------------------
(* What AbtEthQuotes promises of one leg paid in ABT on Ethereum, for every set  *)
(* of locks, transfers and reports in flight, every agreed amount and every rate *)
(* the feed may answer.                                                          *)
EXTENDS MCAbtEthQuotes, TLAPS

--------------------------------------------------------------------------------
(* The inductive invariant. What a settlement is worth is decided when the chain *)
(* is read, and written later: the invariant follows the judgement from the read *)
(* to the row. Nothing it rests on is taken back: a lock, a recorded transfer    *)
(* and a short row stay.                                                         *)

IsBusy(w) == w # Idle

Worth(judged, price, fee, l) ==
    /\ Paid(price, l) /\ Paid(fee, l)
    /\ judged.by = "held" => chain[price].at < locks[l].expires
    /\ judged.by = "rate" => locks[l].amount * judged.perToken >= locks[l].usd * Precision
    /\ judged.by = "accepted" => shorts[price] # None

\* What a request has found out so far.
RequestIsSound(w) ==
    /\ locks[w.lock] # None
    /\ w.accept => shorts[w.price] # None
    /\ w.phase \in {"settle", "short"} =>
           Paid(w.price, w.lock) /\ Paid(w.fee, w.lock) /\ w.fee # None
    /\ w.phase = "settle" =>
           /\ w.judged # None
           /\ Worth(w.judged, w.price, w.fee, w.lock)
           /\ w.judged.by = "accepted" <=> w.accept
    /\ w.phase = "short" =>
           /\ ~w.accept
           /\ w.at # None => chain[w.price].at >= locks[w.lock].expires

RequestsAreSound == \A r \in Reports : IsBusy(request[r]) => RequestIsSound(request[r])

SettlementIsSound ==
    settled # None =>
        /\ locks[settled.lock] # None
        /\ Worth(settled.judged, settled.price, settled.fee, settled.lock)

ShortsAreSound ==
    \A h \in ShortPaid :
        /\ locks[shorts[h].lock] # None
        /\ Paid(h, shorts[h].lock) /\ Paid(shorts[h].fee, shorts[h].lock)
        /\ shorts[h].usd = locks[shorts[h].lock].usd
        /\ shorts[h].at # None => chain[h].at >= locks[shorts[h].lock].expires

\* The half-paid row, and what the history keeps of it once it is gone.
HalfIsHeld ==
    half # None =>
        /\ half.priceConfirmed => lastHeld = [price |-> half.price, lock |-> half.lock]
        /\ ~half.priceConfirmed => lastHeld = None

\* The last payment that was held half paid was held at that lock, if it is that one.
HeldAt(price, l) == lastHeld # None /\ lastHeld.price = price => lastHeld.lock = l

--------------------------------------------------------------------------------
(* The same leg while no two requests ran at once: what a request read at its    *)
(* door still stands when it writes.                                             *)

Alone ==
    \A r1, r2 \in Reports : IsBusy(request[r1]) /\ IsBusy(request[r2]) => r1 = r2

DoorStands(w) ==
    /\ w.usd = agreed /\ locks[w.lock].usd = agreed
    /\ w.replay => ~w.accept /\ IsReplay(w.price, w.fee)
    /\ ~w.replay => settled = None
    /\ ~w.replay /\ ~w.accept => ShortPaid = {}
    /\ ~w.replay /\ ~w.accept /\ w.phase = "confirm" => AtItsOwnLock(w.price, w.lock)
    /\ w.accept => shorts[w.price].lock = w.lock /\ shorts[w.price].fee = w.fee
    /\ w.phase \in {"settle", "short"} => ~w.replay /\ half = None /\ HeldAt(w.price, w.lock)

\* Where a payment is that was held half paid and no longer is.
Finishing == \E r \in Reports : request[r].phase \in {"settle", "short"}
HalfIsFinished == half = None /\ lastHeld # None => Finishing \/ settled # None \/ ShortPaid # {}

ShortsStand ==
    settled = None =>
        \A h \in ShortPaid :
            half = None /\ shorts[h].usd = agreed /\ HeldAt(h, shorts[h].lock)

SettlementIsFinal ==
    settled # None =>
        HeldAt(settled.price, settled.lock) /\ settled.usd = locks[settled.lock].usd

OrderlyLeg ==
    /\ Alone
    /\ \A r \in Reports : IsBusy(request[r]) => DoorStands(request[r])
    /\ HalfIsFinished
    /\ ShortsStand
    /\ SettlementIsFinal

IInv ==
    /\ TypeOK
    /\ RequestsAreSound
    /\ SettlementIsSound
    /\ ShortsAreSound
    /\ HalfIsHeld
    /\ orderly => OrderlyLeg

--------------------------------------------------------------------------------
(* Types.                                                                       *)

LEMMA Amounts ==
    ASSUME NEW usd \in Dollars, NEW perToken \in Rates
    PROVE  TokensFor(usd, perToken) \in Nat
<1>1. usd \in Nat /\ Precision \in Nat /\ perToken \in Nat /\ perToken > 0
  BY QuotesAssumption
<1>2. usd * Precision \in Nat
  BY <1>1
<1> DEFINE product == usd * Precision
<1> HIDE DEF product
<1>3. product \in Nat
  BY <1>2 DEF product
<1>4. product \div perToken \in Nat
  BY <1>1, <1>3
<1> QED
  BY <1>4 DEF TokensFor, product

LEMMA BusyOfType ==
    ASSUME TypeOK, NEW r \in Reports
    PROVE  /\ request[r] # Idle => request[r] \in Busy
           /\ request[r].phase \in {"confirm", "settle", "short"} => request[r] \in Busy
           /\ request[r] \in Busy => request[r] # Idle
BY DEF TypeOK, Busy, Idle

\* The rows a request writes at its end.
LEMMA RowsWritten ==
    ASSUME TypeOK, RequestsAreSound, NEW r \in Reports
    PROVE  /\ request[r].phase = "settle" =>
                  [price |-> request[r].price, fee |-> request[r].fee, usd |-> request[r].usd,
                   lock |-> request[r].lock, judged |-> request[r].judged] \in SettlementRows
           /\ request[r].phase = "short" =>
                  [fee |-> request[r].fee, lock |-> request[r].lock,
                   usd |-> locks[request[r].lock].usd, at |-> request[r].at] \in ShortRows
<1> DEFINE w == request[r]
<1>1. ASSUME w.phase \in {"settle", "short"}
      PROVE  /\ w \in Busy /\ w.fee \in FeeTxs /\ locks[w.lock] \in LockRows
             /\ w.phase = "settle" => w.judged \in Judgements
  <2>1. w \in Busy /\ RequestIsSound(w)
    BY <1>1, BusyOfType DEF RequestsAreSound, IsBusy
  <2> QED
    BY <1>1, <2>1 DEF RequestIsSound, Busy, OrNone, TypeOK
<1> HIDE DEF w
<1>2. ASSUME w.phase = "settle"
      PROVE  [price |-> w.price, fee |-> w.fee, usd |-> w.usd, lock |-> w.lock,
              judged |-> w.judged] \in SettlementRows
  BY <1>1, <1>2 DEF SettlementRows, Busy
<1>3. ASSUME w.phase = "short"
      PROVE  [fee |-> w.fee, lock |-> w.lock, usd |-> locks[w.lock].usd, at |-> w.at] \in ShortRows
  BY <1>1, <1>3 DEF ShortRows, Busy, LockRows
<1> QED
  BY <1>2, <1>3 DEF w

\* A lock, a recorded transfer and a short row stay.
LEMMA NothingIsTakenBack ==
    ASSUME TypeOK, RequestsAreSound, [Next]_vars
    PROVE  /\ \A l \in Locks : locks[l] # None => locks'[l] = locks[l]
           /\ \A h \in PriceTxs \cup FeeTxs : chain[h] # None => chain'[h] = chain[h]
           /\ \A h \in PriceTxs : shorts[h] # None => shorts'[h] # None
<1>1. ASSUME NEW l \in Locks, Start(l)
      PROVE  \A k \in Locks : locks[k] # None => locks'[k] = locks[k]
  BY <1>1 DEF Start, TypeOK
<1>2. ASSUME NEW h \in PriceTxs \cup FeeTxs, NEW l \in Locks, Land(h, l)
      PROVE  \A k \in PriceTxs \cup FeeTxs : chain[k] # None => chain'[k] = chain[k]
  BY <1>2 DEF Land, TypeOK
<1>3. ASSUME NEW r \in Reports, RecordShort(r)
      PROVE  \A h \in PriceTxs : shorts[h] # None => shorts'[h] # None
  <2>1. PICK row \in ShortRows : shorts' = [shorts EXCEPT ![request[r].price] = row]
    BY <1>3, RowsWritten DEF RecordShort
  <2> QED
    BY <2>1, RowsAssumption DEF TypeOK
<1>4. CASE UNCHANGED locks /\ UNCHANGED chain /\ UNCHANGED shorts
  BY <1>4
<1>5. ASSUME NEW r \in Reports,
             \/ \E price \in PriceTxs, fee \in OrNone(FeeTxs), l \in Locks : Report(r, price, fee, l)
             \/ AcceptShort(r) \/ Confirm(r) \/ RecordSettlement(r) \/ Lose(r)
      PROVE  UNCHANGED locks /\ UNCHANGED chain /\ UNCHANGED shorts
  BY <1>5 DEF Report, AcceptShort, Confirm, RecordSettlement, Lose
<1>6. ASSUME (\E usd \in Dollars : ProposePrice(usd)) \/ Tick \/ UNCHANGED vars
      PROVE  UNCHANGED locks /\ UNCHANGED chain /\ UNCHANGED shorts
  BY <1>6 DEF ProposePrice, Tick, vars
<1>7. ASSUME NEW l \in Locks, Start(l)
      PROVE  UNCHANGED chain /\ UNCHANGED shorts
  BY <1>7 DEF Start
<1>8. ASSUME NEW h \in PriceTxs \cup FeeTxs, NEW l \in Locks, Land(h, l)
      PROVE  UNCHANGED locks /\ UNCHANGED shorts
  BY <1>8 DEF Land
<1>9. ASSUME NEW r \in Reports, RecordShort(r)
      PROVE  UNCHANGED locks /\ UNCHANGED chain
  BY <1>9 DEF RecordShort
<1> QED
  BY <1>1, <1>2, <1>3, <1>4, <1>5, <1>6, <1>7, <1>8, <1>9 DEF Next

\* What a verdict says: a payment that counts, or one that came after its hold.
LEMMA Verdicts ==
    ASSUME TypeOK, NEW w \in Busy, NEW perToken \in Readings, locks[w.lock] # None
    PROVE  /\ Verdict(w, perToken) \in OrNone(Judgements)
           /\ Verdict(w, perToken) # None =>
                  /\ Verdict(w, perToken).by = "accepted" <=> w.accept
                  /\ Verdict(w, perToken).by = "held" =>
                         w.at # None /\ w.at < locks[w.lock].expires
                  /\ Verdict(w, perToken).by = "rate" =>
                         locks[w.lock].amount * Verdict(w, perToken).perToken
                             >= locks[w.lock].usd * Precision
           /\ Verdict(w, perToken) = None =>
                  ~w.accept /\ (w.at # None => w.at >= locks[w.lock].expires)
<1>1. locks[w.lock] \in LockRows
  BY DEF TypeOK, Busy, OrNone
<1>2. w.at # None => w.at \in Int /\ locks[w.lock].expires \in Int
  BY <1>1, QuotesAssumption DEF Busy, OrNone, Times, LockRows
<1>3. CASE w.accept
  <2>1. Verdict(w, perToken) = [by |-> "accepted", perToken |-> None]
    BY <1>3 DEF Verdict
  <2>2. [by |-> "accepted", perToken |-> None] \in Judgements
    BY DEF Judgements, OrNone
  <2> QED
    BY <1>3, <2>1, <2>2, RowsAssumption DEF OrNone
<1>4. CASE ~w.accept /\ InsideHold(w)
  <2>1. Verdict(w, perToken) = [by |-> "held", perToken |-> None]
    BY <1>4 DEF Verdict
  <2>2. [by |-> "held", perToken |-> None] \in Judgements
    BY DEF Judgements, OrNone
  <2>3. w.at # None /\ w.at < locks[w.lock].expires
    BY <1>2, <1>4 DEF InsideHold, Expired
  <2> QED
    BY <1>4, <2>1, <2>2, <2>3, RowsAssumption DEF OrNone
<1>5. CASE ~w.accept /\ ~InsideHold(w) /\ StillWorth(w, perToken)
  <2>1. Verdict(w, perToken) = [by |-> "rate", perToken |-> perToken]
    BY <1>5 DEF Verdict
  <2>2. [by |-> "rate", perToken |-> perToken] \in Judgements
    BY DEF Judgements, Readings
  <2>3. locks[w.lock].amount * perToken >= locks[w.lock].usd * Precision
    BY <1>5 DEF StillWorth, Covers
  <2>4. Verdict(w, perToken).by = "rate" /\ Verdict(w, perToken).perToken = perToken
    BY <2>1
  <2> QED
    BY <1>5, <2>1, <2>2, <2>3, <2>4, RowsAssumption DEF OrNone
<1>6. CASE ~w.accept /\ ~InsideHold(w) /\ ~StillWorth(w, perToken)
  <2>1. Verdict(w, perToken) = None
    BY <1>6 DEF Verdict
  <2>2. w.at # None => w.at >= locks[w.lock].expires
    BY <1>2, <1>6 DEF InsideHold, Expired
  <2> QED
    BY <1>6, <2>1, <2>2 DEF OrNone
<1> QED
  BY <1>3, <1>4, <1>5, <1>6

\* What a request has when the chain was read: it goes on with a judgement, or it ends.
LEMMA ConfirmOutcome ==
    ASSUME TypeOK, RequestsAreSound, NEW r \in Reports, Confirm(r)
    PROVE  /\ request[r] \in Busy /\ request[r].phase = "confirm"
           /\ \/ /\ Paid(request[r].price, request[r].lock) /\ FeePaid(request[r])
                 /\ ~request[r].replay
                 /\ half' = None /\ lastHeld' = lastHeld
                 /\ \E next \in Busy :
                        /\ request' = [request EXCEPT ![r] = next]
                        /\ next.accept = request[r].accept /\ next.replay = request[r].replay
                        /\ next.price = request[r].price /\ next.fee = request[r].fee
                        /\ next.lock = request[r].lock /\ next.usd = request[r].usd
                        /\ next.phase \in {"settle", "short"}
                        /\ next.phase = "settle" =>
                               /\ next.judged # None
                               /\ next.judged.by = "accepted" <=> next.accept
                               /\ next.judged.by = "held" =>
                                      chain[next.price].at < locks[next.lock].expires
                               /\ next.judged.by = "rate" =>
                                      locks[next.lock].amount * next.judged.perToken
                                          >= locks[next.lock].usd * Precision
                        /\ next.phase = "short" =>
                               /\ ~next.accept
                               /\ next.at # None =>
                                      chain[next.price].at >= locks[next.lock].expires
              \/ /\ request' = [request EXCEPT ![r] = Idle]
                 /\ ~(Paid(request[r].price, request[r].lock) /\ FeePaid(request[r]))
                    \/ request[r].replay
<1> DEFINE w == request[r]
<1>1. w \in Busy /\ w.phase = "confirm"
  BY BusyOfType DEF Confirm
<1>2. locks[w.lock] # None
  BY <1>1, BusyOfType DEF RequestsAreSound, RequestIsSound, IsBusy
<1>3. CASE Paid(w.price, w.lock) /\ FeePaid(w) /\ ~w.replay
  <2>1. chain[w.price] \in Transfers
    BY <1>1, <1>3 DEF Paid, TypeOK, Busy, OrNone
  <2>2. PICK at \in {chain[w.price].at, None}, perToken \in Readings :
            LET seen == [w EXCEPT !.at = at]
                judged == Verdict(seen, perToken)
            IN  request' = [request EXCEPT ![r] =
                    [seen EXCEPT !.judged = judged,
                                 !.phase = IF judged = None THEN "short" ELSE "settle"]]
    BY <1>3 DEF Confirm
  <2> DEFINE seen == [w EXCEPT !.at = at]
             judged == Verdict(seen, perToken)
             phase == IF judged = None THEN "short" ELSE "settle"
             next == [seen EXCEPT !.judged = judged, !.phase = phase]
  <2>3. request' = [request EXCEPT ![r] = next]
    BY <2>2
  <2>4. at \in OrNone(Times)
    BY <2>1, <2>2 DEF Transfers, OrNone
  <2>5. /\ seen \in Busy /\ seen.at = at /\ seen.accept = w.accept /\ seen.replay = w.replay
        /\ seen.price = w.price /\ seen.fee = w.fee /\ seen.lock = w.lock /\ seen.usd = w.usd
    BY <1>1, <2>4 DEF Busy
  <2> HIDE DEF seen
  <2>6. /\ judged \in OrNone(Judgements)
        /\ judged # None =>
               /\ judged.by = "accepted" <=> seen.accept
               /\ judged.by = "held" => seen.at # None /\ seen.at < locks[seen.lock].expires
               /\ judged.by = "rate" =>
                      locks[seen.lock].amount * judged.perToken >= locks[seen.lock].usd * Precision
        /\ judged = None =>
               ~seen.accept /\ (seen.at # None => seen.at >= locks[seen.lock].expires)
    BY <1>2, <2>2, <2>5, Verdicts
  <2> HIDE DEF judged
  <2>7. /\ next \in Busy /\ next.at = seen.at /\ next.accept = seen.accept
        /\ next.replay = seen.replay /\ next.price = seen.price /\ next.fee = seen.fee
        /\ next.lock = seen.lock /\ next.usd = seen.usd /\ next.judged = judged
        /\ next.phase = phase
    BY <2>5, <2>6 DEF Busy
  <2> HIDE DEF next
  <2>8. at # None => at = chain[w.price].at
    BY <2>2
  <2>9. next.phase = "settle" =>
            /\ next.judged # None
            /\ next.judged.by = "accepted" <=> next.accept
            /\ next.judged.by = "held" => chain[next.price].at < locks[next.lock].expires
            /\ next.judged.by = "rate" =>
                   locks[next.lock].amount * next.judged.perToken >= locks[next.lock].usd * Precision
    BY <2>5, <2>6, <2>7, <2>8
  <2>10. next.phase = "short" =>
             ~next.accept /\ (next.at # None => chain[next.price].at >= locks[next.lock].expires)
    BY <2>5, <2>6, <2>7, <2>8
  <2>11. next.phase \in {"settle", "short"}
    BY <2>7
  <2>12. half' = None /\ lastHeld' = lastHeld
    BY <1>3 DEF Confirm
  <2> QED
    BY <1>1, <1>3, <2>3, <2>5, <2>7, <2>9, <2>10, <2>11, <2>12
<1>4. CASE ~(Paid(w.price, w.lock) /\ FeePaid(w)) \/ w.replay
  BY <1>1, <1>4 DEF Confirm
<1> QED
  BY <1>3, <1>4

\* A request that comes to an end.
LEMMA IdleStep ==
    ASSUME TypeOK, NEW r \in Reports, request' = [request EXCEPT ![r] = Idle]
    PROVE  request' \in [Reports -> Busy \cup {Idle}]
BY DEF TypeOK

LEMMA TypeStep ==
    ASSUME TypeOK, RequestsAreSound, [Next]_vars
    PROVE  TypeOK'
<1> USE DEF TypeOK
<1>1. ASSUME NEW l \in Locks, Start(l)
      PROVE  TypeOK'
  <2>1. PICK rate \in Rates :
            locks' = [locks EXCEPT ![l] = [usd |-> agreed, amount |-> TokensFor(agreed, rate),
                                           expires |-> clock + Lifetime]]
    BY <1>1 DEF Start, Readings, OrNone
  <2>2. clock + Lifetime \in Nat
    BY QuotesAssumption DEF Times
  <2>3. [usd |-> agreed, amount |-> TokensFor(agreed, rate), expires |-> clock + Lifetime] \in LockRows
    BY <2>2, Amounts DEF LockRows
  <2>4. locks' \in [Locks -> OrNone(LockRows)]
    BY <2>1, <2>3 DEF OrNone
  <2> QED
    BY <1>1, <2>4 DEF Start
<1>2. ASSUME NEW h \in PriceTxs \cup FeeTxs, NEW l \in Locks, Land(h, l)
      PROVE  TypeOK'
  <2>1. [amount |-> locks[l].amount, at |-> clock] \in Transfers
    BY <1>2 DEF Land, LockRows, Transfers, OrNone
  <2>2. chain' \in [PriceTxs \cup FeeTxs -> OrNone(Transfers)]
    BY <1>2, <2>1 DEF Land, OrNone
  <2> QED
    BY <1>2, <2>2 DEF Land
<1>3. ASSUME NEW usd \in Dollars, ProposePrice(usd)
      PROVE  TypeOK'
  BY <1>3 DEF ProposePrice
<1>4. ASSUME NEW r \in Reports, NEW w \in Busy, request' = [request EXCEPT ![r] = w]
      PROVE  request' \in [Reports -> Busy \cup {Idle}]
  BY <1>4
<1>5. ASSUME NEW r \in Reports, NEW price \in PriceTxs, NEW fee \in OrNone(FeeTxs), NEW l \in Locks,
             Report(r, price, fee, l)
      PROVE  TypeOK'
  <2> DEFINE w == [phase |-> "confirm", accept |-> FALSE, replay |-> IsReplay(price, fee),
                   price |-> price, fee |-> fee, lock |-> l, usd |-> agreed, at |-> None,
                   judged |-> None]
  <2>1. w \in Busy
    BY DEF Busy, IsReplay, OrNone
  <2>2. request' \in [Reports -> Busy \cup {Idle}]
    BY <1>4, <1>5, <2>1 DEF Report
  <2>3. orderly' \in BOOLEAN
    BY <1>5 DEF Report
  <2> QED
    BY <1>5, <2>2, <2>3 DEF Report
<1>6. ASSUME NEW r \in Reports, AcceptShort(r)
      PROVE  TypeOK'
  <2>1. PICK h \in ShortPaid : request' = [request EXCEPT ![r] =
               [phase |-> "confirm", accept |-> TRUE, replay |-> FALSE, price |-> h,
                fee |-> shorts[h].fee, lock |-> shorts[h].lock, usd |-> agreed, at |-> None,
                judged |-> None]]
    BY <1>6 DEF AcceptShort
  <2>2. h \in PriceTxs /\ shorts[h] \in ShortRows
    BY <2>1 DEF ShortPaid, OrNone
  <2> DEFINE w == [phase |-> "confirm", accept |-> TRUE, replay |-> FALSE, price |-> h,
                   fee |-> shorts[h].fee, lock |-> shorts[h].lock, usd |-> agreed, at |-> None,
                   judged |-> None]
  <2>3. w \in Busy
    BY <2>2 DEF Busy, ShortRows, OrNone
  <2>4. request' \in [Reports -> Busy \cup {Idle}]
    BY <1>4, <2>1, <2>3
  <2> QED
    BY <1>6, <2>4 DEF AcceptShort
<1>7. ASSUME NEW r \in Reports, Confirm(r)
      PROVE  TypeOK'
  <2>1. request[r] \in Busy
    BY <1>7, ConfirmOutcome
  <2>2. request' \in [Reports -> Busy \cup {Idle}]
    BY <1>4, <1>7, ConfirmOutcome, IdleStep
  <2>3. Paid(request[r].price, request[r].lock) \in BOOLEAN
    BY DEF Paid
  <2>4. half' \in OrNone(HalfRows)
    BY <1>7, <2>1, <2>3 DEF Confirm, HalfRows, Busy, OrNone
  <2>5. lastHeld' \in OrNone(Holdings)
    BY <1>7, <2>1 DEF Confirm, Holdings, Busy, OrNone
  <2> QED
    BY <1>7, <2>2, <2>4, <2>5 DEF Confirm
<1>8. ASSUME NEW r \in Reports, RecordSettlement(r)
      PROVE  TypeOK'
  <2>1. settled' \in OrNone(SettlementRows)
    BY <1>8, RowsWritten DEF RecordSettlement, OrNone
  <2> QED
    BY <1>8, <2>1, IdleStep DEF RecordSettlement
<1>9. ASSUME NEW r \in Reports, RecordShort(r)
      PROVE  TypeOK'
  <2>1. PICK row \in ShortRows : shorts' = [shorts EXCEPT ![request[r].price] = row]
    BY <1>9, RowsWritten DEF RecordShort
  <2>2. shorts' \in [PriceTxs -> OrNone(ShortRows)]
    BY <2>1 DEF OrNone
  <2> QED
    BY <1>9, <2>2, IdleStep DEF RecordShort
<1>10. ASSUME NEW r \in Reports, Lose(r)
       PROVE  TypeOK'
  BY <1>10, IdleStep DEF Lose
<1>11. CASE Tick
  BY <1>11, QuotesAssumption DEF Tick, Times
<1>12. CASE UNCHANGED vars
  BY <1>12 DEF vars
<1> QED
  BY <1>1, <1>2, <1>3, <1>5, <1>6, <1>7, <1>8, <1>9, <1>10, <1>11, <1>12 DEF Next

--------------------------------------------------------------------------------
(* What a settlement is worth.                                                  *)

\* Whatever was found out stays true.
LEMMA SoundStays ==
    ASSUME TypeOK, RequestsAreSound, [Next]_vars, NEW w \in Busy, RequestIsSound(w)
    PROVE  RequestIsSound(w)'
BY NothingIsTakenBack DEF RequestIsSound, Worth, Paid, Busy, OrNone

\* What a request knows when it is at one point of its way, and what it knows next.
LEMMA RequestsStep ==
    ASSUME TypeOK, RequestsAreSound, ShortsAreSound, [Next]_vars
    PROVE  RequestsAreSound'
<1>1. ASSUME NEW w \in Busy, RequestIsSound(w)
      PROVE  RequestIsSound(w)'
  BY <1>1, SoundStays
<1>2. \A r \in Reports : request[r] # Idle => request[r] \in Busy /\ RequestIsSound(request[r])
  BY BusyOfType DEF RequestsAreSound, IsBusy
<1>3. ASSUME NEW r \in Reports, NEW next \in Busy, request' = [request EXCEPT ![r] = next],
             RequestIsSound(next)
      PROVE  RequestsAreSound'
  <2>1. \A q \in Reports : request'[q] # Idle => request'[q] \in Busy /\ RequestIsSound(request'[q])
    BY <1>2, <1>3 DEF TypeOK
  <2> QED
    BY <1>1, <2>1 DEF RequestsAreSound, IsBusy, RequestIsSound, Worth, Paid
<1>4. ASSUME \A q \in Reports : request'[q] \in {request[q], Idle}
      PROVE  RequestsAreSound'
  <2>1. \A q \in Reports : request'[q] # Idle => request'[q] \in Busy /\ RequestIsSound(request'[q])
    BY <1>2, <1>4
  <2> QED
    BY <1>1, <2>1 DEF RequestsAreSound, IsBusy, RequestIsSound, Worth, Paid
<1>5. ASSUME NEW r \in Reports, NEW price \in PriceTxs, NEW fee \in OrNone(FeeTxs), NEW l \in Locks,
             Report(r, price, fee, l)
      PROVE  RequestsAreSound'
  <2> DEFINE next == [phase |-> "confirm", accept |-> FALSE, replay |-> IsReplay(price, fee),
                      price |-> price, fee |-> fee, lock |-> l, usd |-> agreed, at |-> None,
                      judged |-> None]
  <2>1. next \in Busy /\ RequestIsSound(next)
    BY <1>5 DEF Busy, IsReplay, OrNone, RequestIsSound, Report, TypeOK
  <2>2. request' = [request EXCEPT ![r] = next]
    BY <1>5 DEF Report
  <2> QED
    BY <1>3, <2>1, <2>2
<1>6. ASSUME NEW r \in Reports, AcceptShort(r)
      PROVE  RequestsAreSound'
  <2>1. PICK h \in ShortPaid : request' = [request EXCEPT ![r] =
               [phase |-> "confirm", accept |-> TRUE, replay |-> FALSE, price |-> h,
                fee |-> shorts[h].fee, lock |-> shorts[h].lock, usd |-> agreed, at |-> None,
                judged |-> None]]
    BY <1>6 DEF AcceptShort
  <2>2. h \in PriceTxs /\ shorts[h] \in ShortRows /\ locks[shorts[h].lock] # None
    BY <2>1 DEF ShortPaid, OrNone, TypeOK, ShortsAreSound
  <2> DEFINE next == [phase |-> "confirm", accept |-> TRUE, replay |-> FALSE, price |-> h,
                      fee |-> shorts[h].fee, lock |-> shorts[h].lock, usd |-> agreed, at |-> None,
                      judged |-> None]
  <2>3. next \in Busy /\ RequestIsSound(next)
    BY <2>1, <2>2 DEF Busy, ShortRows, OrNone, RequestIsSound, ShortPaid, TypeOK
  <2> QED
    BY <1>3, <2>1, <2>3
<1>7. ASSUME NEW r \in Reports, Confirm(r)
      PROVE  RequestsAreSound'
  <2>1. CASE request' = [request EXCEPT ![r] = Idle]
    BY <1>4, <2>1 DEF TypeOK
  <2>2. CASE ~(request' = [request EXCEPT ![r] = Idle])
    <3>1. request[r] \in Busy /\ RequestIsSound(request[r])
      BY <1>2, <1>7, ConfirmOutcome, BusyOfType
    <3>2. Paid(request[r].price, request[r].lock) /\ FeePaid(request[r])
      BY <1>7, <2>2, ConfirmOutcome
    <3>3. PICK next \in Busy :
              /\ request' = [request EXCEPT ![r] = next]
              /\ next.accept = request[r].accept
              /\ next.price = request[r].price /\ next.fee = request[r].fee
              /\ next.lock = request[r].lock
              /\ next.phase \in {"settle", "short"}
              /\ next.phase = "settle" =>
                     /\ next.judged # None
                     /\ next.judged.by = "accepted" <=> next.accept
                     /\ next.judged.by = "held" => chain[next.price].at < locks[next.lock].expires
                     /\ next.judged.by = "rate" =>
                            locks[next.lock].amount * next.judged.perToken
                                >= locks[next.lock].usd * Precision
              /\ next.phase = "short" =>
                     /\ ~next.accept
                     /\ next.at # None => chain[next.price].at >= locks[next.lock].expires
      BY <1>7, <2>2, ConfirmOutcome
    <3>4. Paid(next.price, next.lock) /\ Paid(next.fee, next.lock) /\ next.fee # None
      BY <3>2, <3>3 DEF FeePaid, Paid
    <3>5. locks[next.lock] # None /\ (next.accept => shorts[next.price] # None)
      BY <3>1, <3>3 DEF RequestIsSound
    <3>6. RequestIsSound(next)
      BY <3>3, <3>4, <3>5 DEF RequestIsSound, Worth
    <3> QED
      BY <1>3, <3>3, <3>6
  <2> QED
    BY <2>1, <2>2
<1>8. ASSUME NEW r \in Reports, RecordSettlement(r) \/ RecordShort(r) \/ Lose(r)
      PROVE  RequestsAreSound'
  BY <1>4, <1>8 DEF RecordSettlement, RecordShort, Lose, TypeOK
<1>9. ASSUME UNCHANGED request
      PROVE  RequestsAreSound'
  BY <1>4, <1>9
<1>10. ASSUME NEW l \in Locks, Start(l) \/ \E h \in PriceTxs \cup FeeTxs : Land(h, l)
       PROVE  UNCHANGED request
  BY <1>10 DEF Start, Land
<1>11. ASSUME (\E usd \in Dollars : ProposePrice(usd)) \/ Tick \/ UNCHANGED vars
       PROVE  UNCHANGED request
  BY <1>11 DEF ProposePrice, Tick, vars
<1> QED
  BY <1>5, <1>6, <1>7, <1>8, <1>9, <1>10, <1>11 DEF Next

\* The settlement row is written from what its request knew.
LEMMA SettlementStep ==
    ASSUME TypeOK, RequestsAreSound, SettlementIsSound, [Next]_vars
    PROVE  SettlementIsSound'
<1>1. ASSUME NEW r \in Reports, RecordSettlement(r)
      PROVE  SettlementIsSound'
  <2>1. request[r] \in Busy /\ RequestIsSound(request[r])
    BY <1>1, BusyOfType DEF RecordSettlement, RequestsAreSound, IsBusy
  <2>2. /\ settled'.lock = request[r].lock /\ settled'.price = request[r].price
        /\ settled'.fee = request[r].fee /\ settled'.judged = request[r].judged
        /\ UNCHANGED <<locks, chain, shorts>> /\ request[r].phase = "settle"
    BY <1>1 DEF RecordSettlement
  <2> QED
    BY <2>1, <2>2 DEF SettlementIsSound, RequestIsSound, Worth, Paid
<1>2. ASSUME UNCHANGED settled
      PROVE  SettlementIsSound'
  <2>1. settled # None => settled \in SettlementRows
    BY DEF TypeOK, OrNone
  <2> QED
    BY <1>2, <2>1, NothingIsTakenBack DEF SettlementIsSound, SettlementRows, Worth, Paid
<1>3. ASSUME NEW r \in Reports,
             \/ \E price \in PriceTxs, fee \in OrNone(FeeTxs), l \in Locks : Report(r, price, fee, l)
             \/ AcceptShort(r) \/ Confirm(r) \/ RecordShort(r) \/ Lose(r)
      PROVE  UNCHANGED settled
  BY <1>3 DEF Report, AcceptShort, Confirm, RecordShort, Lose
<1>4. ASSUME NEW l \in Locks, Start(l) \/ \E h \in PriceTxs \cup FeeTxs : Land(h, l)
      PROVE  UNCHANGED settled
  BY <1>4 DEF Start, Land
<1>5. ASSUME (\E usd \in Dollars : ProposePrice(usd)) \/ Tick \/ UNCHANGED vars
      PROVE  UNCHANGED settled
  BY <1>5 DEF ProposePrice, Tick, vars
<1> QED
  BY <1>1, <1>2, <1>3, <1>4, <1>5 DEF Next

\* So is a short row.
LEMMA ShortsStep ==
    ASSUME TypeOK, RequestsAreSound, ShortsAreSound, [Next]_vars
    PROVE  ShortsAreSound'
<1>1. ASSUME NEW h \in PriceTxs, shorts'[h] = shorts[h], shorts[h] # None
      PROVE  /\ locks'[shorts'[h].lock] # None
             /\ Paid(h, shorts[h].lock)' /\ Paid(shorts[h].fee, shorts[h].lock)'
             /\ shorts'[h].usd = locks'[shorts'[h].lock].usd
             /\ shorts'[h].at # None => chain'[h].at >= locks'[shorts'[h].lock].expires
  <2>1. shorts[h] \in ShortRows
    BY <1>1 DEF TypeOK, OrNone
  <2> QED
    BY <1>1, <2>1, NothingIsTakenBack DEF ShortsAreSound, ShortPaid, ShortRows, Paid
<1>2. ASSUME UNCHANGED shorts
      PROVE  ShortsAreSound'
  BY <1>1, <1>2 DEF ShortsAreSound, ShortPaid
<1>3. ASSUME NEW r \in Reports, RecordShort(r)
      PROVE  ShortsAreSound'
  <2> DEFINE w == request[r]
             row == [fee |-> w.fee, lock |-> w.lock, usd |-> locks[w.lock].usd, at |-> w.at]
  <2>1. w \in Busy /\ RequestIsSound(w)
    BY <1>3, BusyOfType DEF RecordShort, RequestsAreSound, IsBusy
  <2>2. shorts' = [shorts EXCEPT ![w.price] = row] /\ w.phase = "short"
        /\ UNCHANGED <<locks, chain>>
    BY <1>3 DEF RecordShort
  <2>3. w.price \in PriceTxs
    BY <2>1 DEF Busy
  <2>4. shorts'[w.price] = row /\ \A h \in PriceTxs \ {w.price} : shorts'[h] = shorts[h]
    BY <2>2, <2>3 DEF TypeOK
  <2>5. /\ locks'[row.lock] # None
        /\ Paid(w.price, w.lock) /\ Paid(row.fee, w.lock) /\ row.lock = w.lock
        /\ row.usd = locks'[row.lock].usd
        /\ row.at # None => chain'[w.price].at >= locks'[row.lock].expires
    BY <2>1, <2>2 DEF RequestIsSound
  <2> HIDE DEF w, row
  <2>6. ASSUME NEW h \in PriceTxs, shorts'[h] # None
        PROVE  /\ locks'[shorts'[h].lock] # None
               /\ Paid(h, shorts[h].lock)' /\ Paid(shorts[h].fee, shorts[h].lock)'
               /\ shorts'[h].usd = locks'[shorts'[h].lock].usd
               /\ shorts'[h].at # None => chain'[h].at >= locks'[shorts'[h].lock].expires
    <3>1. CASE h = w.price
      BY <2>2, <2>4, <2>5, <3>1 DEF Paid
    <3>2. CASE h # w.price
      <4>1. shorts'[h] = shorts[h] /\ shorts[h] # None
        BY <2>4, <2>6, <3>2
      <4> QED
        BY <1>1, <4>1
    <3> QED
      BY <3>1, <3>2
  <2> QED
    BY <2>6 DEF ShortsAreSound, ShortPaid
<1>4. ASSUME NEW r \in Reports,
             \/ \E price \in PriceTxs, fee \in OrNone(FeeTxs), l \in Locks : Report(r, price, fee, l)
             \/ AcceptShort(r) \/ Confirm(r) \/ RecordSettlement(r) \/ Lose(r)
      PROVE  UNCHANGED shorts
  BY <1>4 DEF Report, AcceptShort, Confirm, RecordSettlement, Lose
<1>5. ASSUME NEW l \in Locks, Start(l) \/ \E h \in PriceTxs \cup FeeTxs : Land(h, l)
      PROVE  UNCHANGED shorts
  BY <1>5 DEF Start, Land
<1>6. ASSUME (\E usd \in Dollars : ProposePrice(usd)) \/ Tick \/ UNCHANGED vars
      PROVE  UNCHANGED shorts
  BY <1>6 DEF ProposePrice, Tick, vars
<1> QED
  BY <1>2, <1>3, <1>4, <1>5, <1>6 DEF Next

\* The half-paid row and its history change hands only when the chain is read.
LEMMA OnlyConfirmHolds ==
    ASSUME [Next]_vars
    PROVE  (\E r \in Reports : Confirm(r)) \/ UNCHANGED <<half, lastHeld>>
<1>1. ASSUME NEW r \in Reports,
             \/ \E price \in PriceTxs, fee \in OrNone(FeeTxs), l \in Locks : Report(r, price, fee, l)
             \/ AcceptShort(r) \/ RecordSettlement(r) \/ RecordShort(r) \/ Lose(r)
      PROVE  UNCHANGED <<half, lastHeld>>
  BY <1>1 DEF Report, AcceptShort, RecordSettlement, RecordShort, Lose
<1>2. ASSUME NEW l \in Locks, Start(l) \/ \E h \in PriceTxs \cup FeeTxs : Land(h, l)
      PROVE  UNCHANGED <<half, lastHeld>>
  BY <1>2 DEF Start, Land
<1>3. ASSUME (\E usd \in Dollars : ProposePrice(usd)) \/ Tick \/ UNCHANGED vars
      PROVE  UNCHANGED <<half, lastHeld>>
  BY <1>3 DEF ProposePrice, Tick, vars
<1> QED
  BY <1>1, <1>2, <1>3 DEF Next

LEMMA HalfStep ==
    ASSUME TypeOK, HalfIsHeld, [Next]_vars
    PROVE  HalfIsHeld'
<1>1. ASSUME NEW r \in Reports, Confirm(r)
      PROVE  HalfIsHeld'
  <2> DEFINE w == request[r]
             price == Paid(w.price, w.lock)
             fee == FeePaid(w)
  <2>1. price \in BOOLEAN /\ fee \in BOOLEAN
    BY DEF Paid, FeePaid
  <2>2. half' = IF price = fee THEN None
                ELSE [price |-> w.price, fee |-> w.fee, lock |-> w.lock, priceConfirmed |-> price]
    BY <1>1 DEF Confirm
  <2>3. lastHeld' = IF price /\ fee THEN lastHeld
                    ELSE IF price THEN [price |-> w.price, lock |-> w.lock] ELSE None
    BY <1>1 DEF Confirm
  <2> HIDE DEF w, price, fee
  <2>4. CASE price = fee
    BY <2>2, <2>4 DEF HalfIsHeld
  <2>5. CASE price # fee
    <3>1. half' = [price |-> w.price, fee |-> w.fee, lock |-> w.lock, priceConfirmed |-> price]
      BY <2>2, <2>5
    <3>2. lastHeld' = IF price THEN [price |-> w.price, lock |-> w.lock] ELSE None
      BY <2>1, <2>3, <2>5
    <3> QED
      BY <3>1, <3>2 DEF HalfIsHeld
  <2> QED
    BY <2>4, <2>5
<1> QED
  BY <1>1, OnlyConfirmHolds DEF HalfIsHeld

--------------------------------------------------------------------------------
(* One request at a time.                                                       *)

\* Nothing but r is under way.
OnlyBusy(r) == \A q \in Reports : q # r => request[q] = Idle

LEMMA AloneIsOnly ==
    ASSUME Alone, NEW r \in Reports, request[r] # Idle
    PROVE  OnlyBusy(r)
BY DEF Alone, OnlyBusy, IsBusy

LEMMA NothingInFlight ==
    ASSUME InFlight = {}
    PROVE  \A r \in Reports : request[r] = Idle
BY DEF InFlight

LEMMA IdleIsNotFinishing ==
    ASSUME \A r \in Reports : request[r] = Idle
    PROVE  ~Finishing
BY DEF Finishing, Idle

\* Once every request has ended, what is left is the leg.
LEMMA AtRest ==
    ASSUME \A r \in Reports : request'[r] = Idle,
           HalfIsFinished', ShortsStand', SettlementIsFinal'
    PROVE  OrderlyLeg'
BY DEF OrderlyLeg, Alone, IsBusy

\* A request begins: it is the only one.
LEMMA BeginsAlone ==
    ASSUME TypeOK, OrderlyLeg, InFlight = {}, NEW r \in Reports, NEW next \in Busy,
           request' = [request EXCEPT ![r] = next], next.phase = "confirm",
           UNCHANGED <<agreed, locks, chain, half, shorts, settled, lastHeld>>, DoorStands(next)
    PROVE  OrderlyLeg'
<1>1. \A q \in Reports : request[q] = Idle
  BY NothingInFlight
<1>2. ~Finishing
  BY <1>1, IdleIsNotFinishing
<1>3. request'[r] = next /\ \A q \in Reports : q # r => request'[q] = Idle
  BY <1>1 DEF TypeOK
<1>4. Alone'
  BY <1>3 DEF Alone, IsBusy
<1>5. \A q \in Reports : IsBusy(request[q])' => DoorStands(request[q])'
  BY <1>3 DEF IsBusy, DoorStands, IsReplay, ShortPaid, AtItsOwnLock, HeldAt
<1>6. HalfIsFinished' /\ ShortsStand' /\ SettlementIsFinal'
  BY <1>2 DEF OrderlyLeg, HalfIsFinished, ShortsStand, SettlementIsFinal, ShortPaid, HeldAt
<1> QED
  BY <1>4, <1>5, <1>6 DEF OrderlyLeg

LEMMA ReportOrderly ==
    ASSUME IInv, orderly', OrderlyLeg,
           NEW r \in Reports, NEW price \in PriceTxs, NEW fee \in OrNone(FeeTxs), NEW l \in Locks,
           Report(r, price, fee, l)
    PROVE  OrderlyLeg'
<1> DEFINE next == [phase |-> "confirm", accept |-> FALSE, replay |-> IsReplay(price, fee),
                    price |-> price, fee |-> fee, lock |-> l, usd |-> agreed, at |-> None,
                    judged |-> None]
<1>1. next \in Busy
  BY DEF Busy, IsReplay, OrNone, IInv, TypeOK
<1>2. request' = [request EXCEPT ![r] = next] /\ InFlight = {}
      /\ UNCHANGED <<agreed, locks, chain, half, shorts, settled, lastHeld>>
  BY DEF Report
<1>3. /\ locks[l].usd = agreed /\ AtItsOwnLock(price, l)
      /\ ~IsReplay(price, fee) => settled = None /\ ShortPaid = {}
  BY DEF Report, FreshReportAllowed, AwaitsOwner
<1>4. DoorStands(next)
  BY <1>3 DEF DoorStands
<1> HIDE DEF next
<1>5. next.phase = "confirm"
  BY DEF next
<1> QED
  BY <1>1, <1>2, <1>4, <1>5, BeginsAlone DEF IInv

LEMMA AcceptOrderly ==
    ASSUME IInv, orderly', OrderlyLeg, NEW r \in Reports, AcceptShort(r)
    PROVE  OrderlyLeg'
<1>1. PICK h \in ShortPaid : request' = [request EXCEPT ![r] =
             [phase |-> "confirm", accept |-> TRUE, replay |-> FALSE, price |-> h,
              fee |-> shorts[h].fee, lock |-> shorts[h].lock, usd |-> agreed, at |-> None,
              judged |-> None]]
  BY DEF AcceptShort
<1>2. h \in PriceTxs /\ shorts[h] \in ShortRows
  BY <1>1 DEF ShortPaid, OrNone, IInv, TypeOK
<1> DEFINE next == [phase |-> "confirm", accept |-> TRUE, replay |-> FALSE, price |-> h,
                    fee |-> shorts[h].fee, lock |-> shorts[h].lock, usd |-> agreed, at |-> None,
                    judged |-> None]
<1>3. next \in Busy
  BY <1>2 DEF Busy, ShortRows, OrNone, IInv, TypeOK
<1>4. settled = None /\ InFlight = {}
      /\ UNCHANGED <<agreed, locks, chain, half, shorts, settled, lastHeld>>
  BY DEF AcceptShort, AwaitsOwner
<1>5. locks[shorts[h].lock].usd = agreed
  BY <1>1, <1>4 DEF OrderlyLeg, ShortsStand, IInv, ShortsAreSound
<1>6. DoorStands(next)
  BY <1>4, <1>5 DEF DoorStands
<1>7. request' = [request EXCEPT ![r] = next]
  BY <1>1
<1> HIDE DEF next
<1>8. next.phase = "confirm"
  BY DEF next
<1> QED
  BY <1>3, <1>4, <1>6, <1>7, <1>8, BeginsAlone DEF IInv

\* The chain was read, and the request ends there: it was a replay, or a payment of which
\* one transfer or neither is recorded.
LEMMA ConfirmEnds ==
    ASSUME IInv, OrderlyLeg, NEW r \in Reports, Confirm(r),
           request' = [request EXCEPT ![r] = Idle]
    PROVE  OrderlyLeg'
<1> DEFINE w == request[r]
           price == Paid(w.price, w.lock)
           fee == FeePaid(w)
<1>1. w \in Busy /\ w # Idle /\ w.phase = "confirm" /\ (~(price /\ fee) \/ w.replay)
  <2>1. w \in Busy /\ w.phase = "confirm" /\ w # Idle
    BY ConfirmOutcome, BusyOfType DEF IInv
  <2>2. ~(price /\ fee) \/ w.replay
    <3> SUFFICES ASSUME price /\ fee /\ ~w.replay PROVE FALSE
      OBVIOUS
    <3>1. PICK next \in Busy : request' = [request EXCEPT ![r] = next]
      BY ConfirmOutcome DEF IInv
    <3>2. next = Idle
      BY <3>1 DEF IInv, TypeOK
    <3> QED
      BY <3>2 DEF Busy, Idle
  <2> QED
    BY <2>1, <2>2
<1>2. DoorStands(w)
  BY <1>1 DEF OrderlyLeg, IsBusy
<1>3. \A q \in Reports : request'[q] = Idle
  BY <1>1, AloneIsOnly DEF OrderlyLeg, OnlyBusy, IInv, TypeOK
<1>4. price \in BOOLEAN /\ fee \in BOOLEAN
  BY DEF Paid, FeePaid
<1>5. /\ half' = IF price = fee THEN None
                 ELSE [price |-> w.price, fee |-> w.fee, lock |-> w.lock, priceConfirmed |-> price]
      /\ lastHeld' = IF price /\ fee THEN lastHeld
                     ELSE IF price THEN [price |-> w.price, lock |-> w.lock] ELSE None
      /\ UNCHANGED <<agreed, locks, chain, shorts, settled>>
  BY DEF Confirm
<1>6. CASE w.replay
  <2>1. settled # None /\ settled.price = w.price /\ settled.fee = w.fee
    BY <1>2, <1>6 DEF DoorStands, IsReplay
  <2>2. Paid(w.price, settled.lock) /\ Paid(w.fee, settled.lock)
    BY <2>1 DEF IInv, SettlementIsSound, Worth
  <2>3. price = fee
    BY <2>2 DEF Paid, FeePaid
  <2> HIDE DEF price, fee, w
  <2>4. lastHeld' \in {lastHeld, None}
    BY <1>4, <1>5, <2>3
  <2>5. HalfIsFinished' /\ ShortsStand'
    BY <1>5, <2>1 DEF HalfIsFinished, ShortsStand
  <2>6. SettlementIsFinal'
    BY <1>5, <2>1, <2>4 DEF SettlementIsFinal, OrderlyLeg, HeldAt
  <2> QED
    BY <1>3, <2>5, <2>6, AtRest
<1>7. CASE ~w.replay
  <2>1. ~(price /\ fee) /\ settled = None
    BY <1>1, <1>2, <1>7 DEF DoorStands
  <2>2. ~w.accept
    <3> SUFFICES ASSUME w.accept PROVE FALSE
      OBVIOUS
    <3>1. w.price \in ShortPaid
      BY <1>1 DEF IInv, RequestsAreSound, IsBusy, RequestIsSound, ShortPaid, Busy
    <3>2. Paid(w.price, w.lock) /\ Paid(w.fee, w.lock)
      BY <1>2, <3>1 DEF DoorStands, IInv, ShortsAreSound
    <3> QED
      BY <2>1, <3>2 DEF FeePaid
  <2>3. ShortPaid = {}
    BY <1>2, <1>7, <2>2 DEF DoorStands
  <2> HIDE DEF price, fee, w
  <2>4. half' = None => lastHeld' = None
    <3> SUFFICES ASSUME half' = None, price # fee PROVE lastHeld' = None
      BY <1>4, <1>5, <2>1
    <3>1. half' = [price |-> w.price, fee |-> w.fee, lock |-> w.lock, priceConfirmed |-> price]
      BY <1>5
    <3>2. half' \in HalfRows
      BY <1>1, <1>4, <3>1 DEF HalfRows, Busy
    <3> QED
      BY <3>2, RowsAssumption
  <2>5. HalfIsFinished' /\ ShortsStand' /\ SettlementIsFinal'
    BY <1>5, <2>1, <2>3, <2>4 DEF HalfIsFinished, ShortsStand, SettlementIsFinal, ShortPaid
  <2> QED
    BY <1>3, <2>5, AtRest
<1> QED
  BY <1>6, <1>7

\* Both transfers are recorded: the last payment held half paid, if it is this one, was held
\* at the lock of this report.
LEMMA PaidAtItsLock ==
    ASSUME IInv, OrderlyLeg, NEW r \in Reports, request[r] \in Busy,
           request[r].phase = "confirm", ~request[r].replay
    PROVE  HeldAt(request[r].price, request[r].lock)
<1> DEFINE w == request[r]
<1>1. DoorStands(w) /\ w # Idle
  BY BusyOfType DEF OrderlyLeg, IsBusy, IInv
<1>2. CASE w.accept
  <2>1. w.price \in ShortPaid
    BY <1>1, <1>2 DEF IInv, RequestsAreSound, IsBusy, RequestIsSound, ShortPaid, Busy
  <2> QED
    BY <1>1, <1>2, <2>1 DEF DoorStands, OrderlyLeg, ShortsStand
<1>3. CASE ~w.accept
  <2>1. settled = None /\ ShortPaid = {} /\ AtItsOwnLock(w.price, w.lock)
    BY <1>1, <1>3 DEF DoorStands
  <2>2. ~Finishing
    <3> SUFFICES ASSUME NEW q \in Reports, request[q].phase \in {"settle", "short"} PROVE FALSE
      BY DEF Finishing
    <3>1. request[q] # Idle
      BY BusyOfType DEF IInv
    <3>2. q = r
      BY <1>1, <3>1 DEF OrderlyLeg, Alone, IsBusy
    <3> QED
      BY <3>2
  <2>3. lastHeld # None => half # None
    BY <2>1, <2>2 DEF OrderlyLeg, HalfIsFinished
  <2>4. half # None => half \in HalfRows
    BY DEF IInv, TypeOK, OrNone
  <2>5. lastHeld # None => lastHeld.price = half.price /\ lastHeld.lock = half.lock
    BY <2>3, <2>4 DEF IInv, HalfIsHeld, HalfRows
  <2> QED
    BY <2>1, <2>3, <2>5 DEF AtItsOwnLock, HeldAt
<1> QED
  BY <1>2, <1>3

\* The chain was read, and the request goes on to write.
LEMMA ConfirmGoesOn ==
    ASSUME IInv, OrderlyLeg, NEW r \in Reports, Confirm(r),
           ~(request' = [request EXCEPT ![r] = Idle])
    PROVE  OrderlyLeg'
<1> DEFINE w == request[r]
<1>1. w \in Busy /\ w.phase = "confirm" /\ ~w.replay /\ half' = None /\ lastHeld' = lastHeld
  BY ConfirmOutcome DEF IInv
<1>2. w # Idle
  BY <1>1, BusyOfType DEF IInv
<1>3. PICK next \in Busy :
          /\ request' = [request EXCEPT ![r] = next]
          /\ next.accept = w.accept /\ next.replay = w.replay
          /\ next.price = w.price /\ next.fee = w.fee
          /\ next.lock = w.lock /\ next.usd = w.usd
          /\ next.phase \in {"settle", "short"}
  BY ConfirmOutcome DEF IInv
<1>4. DoorStands(w) /\ HeldAt(w.price, w.lock)
  BY <1>1, <1>2, PaidAtItsLock DEF OrderlyLeg, IsBusy
<1>5. UNCHANGED <<agreed, locks, chain, shorts, settled>>
  BY DEF Confirm
<1>6. request'[r] = next /\ \A q \in Reports : q # r => request'[q] = Idle
  BY <1>2, <1>3, AloneIsOnly DEF OrderlyLeg, OnlyBusy, IInv, TypeOK
<1> HIDE DEF w
<1>7. Alone'
  BY <1>6 DEF Alone, IsBusy
<1>8. \A q \in Reports : IsBusy(request[q])' => DoorStands(request[q])'
  BY <1>1, <1>3, <1>4, <1>5, <1>6 DEF IsBusy, DoorStands, IsReplay, ShortPaid, AtItsOwnLock, HeldAt
<1>9. settled = None
  BY <1>1, <1>4 DEF DoorStands
<1>10. HalfIsFinished'
  BY <1>3, <1>6 DEF HalfIsFinished, Finishing
<1>11. ShortsStand' /\ SettlementIsFinal'
  BY <1>1, <1>5, <1>9 DEF OrderlyLeg, ShortsStand, SettlementIsFinal, ShortPaid, HeldAt
<1> QED
  BY <1>7, <1>8, <1>10, <1>11 DEF OrderlyLeg

LEMMA SettlementOrderly ==
    ASSUME IInv, OrderlyLeg, NEW r \in Reports, RecordSettlement(r)
    PROVE  OrderlyLeg'
<1> DEFINE w == request[r]
<1>1. w \in Busy /\ w # Idle /\ w.phase = "settle"
  BY BusyOfType DEF RecordSettlement, IInv
<1>2. DoorStands(w)
  BY <1>1 DEF OrderlyLeg, IsBusy
<1>3. \A q \in Reports : request'[q] = Idle
  BY <1>1, AloneIsOnly DEF RecordSettlement, OrderlyLeg, OnlyBusy, IInv, TypeOK
<1>4. settled' \in SettlementRows
  BY <1>1, RowsWritten DEF RecordSettlement, IInv
<1>5. settled' # None
  BY <1>4, RowsAssumption
<1>6. settled'.price = w.price /\ settled'.lock = w.lock /\ settled'.usd = w.usd
      /\ UNCHANGED <<agreed, locks, half, shorts, lastHeld>>
  BY DEF RecordSettlement
<1>7. HalfIsFinished' /\ ShortsStand'
  BY <1>5 DEF HalfIsFinished, ShortsStand
<1>8. SettlementIsFinal'
  BY <1>1, <1>2, <1>6 DEF SettlementIsFinal, DoorStands, HeldAt
<1> QED
  BY <1>3, <1>7, <1>8, AtRest

LEMMA ShortOrderly ==
    ASSUME IInv, OrderlyLeg, NEW r \in Reports, RecordShort(r)
    PROVE  OrderlyLeg'
<1> DEFINE w == request[r]
<1>1. w \in Busy /\ w # Idle /\ w.phase = "short"
  BY BusyOfType DEF RecordShort, IInv
<1>2. DoorStands(w) /\ RequestIsSound(w)
  BY <1>1 DEF OrderlyLeg, IsBusy, IInv, RequestsAreSound
<1>3. \A q \in Reports : request'[q] = Idle
  BY <1>1, AloneIsOnly DEF RecordShort, OrderlyLeg, OnlyBusy, IInv, TypeOK
<1>4. settled = None /\ ShortPaid = {} /\ half = None /\ HeldAt(w.price, w.lock)
      /\ locks[w.lock].usd = agreed
  BY <1>1, <1>2 DEF DoorStands, RequestIsSound
<1> DEFINE row == [fee |-> w.fee, lock |-> w.lock, usd |-> locks[w.lock].usd, at |-> w.at]
<1>5. row \in ShortRows
  BY <1>1, RowsWritten DEF IInv
<1>6. shorts' = [shorts EXCEPT ![w.price] = row]
      /\ UNCHANGED <<agreed, locks, half, settled, lastHeld>>
  BY DEF RecordShort
<1>7. row.usd = agreed /\ row.lock = w.lock /\ row # None
  BY <1>4, <1>5, RowsAssumption
<1> HIDE DEF row
<1>8. shorts'[w.price] = row /\ w.price \in PriceTxs
      /\ \A h \in PriceTxs : shorts'[h] # None => h = w.price
  BY <1>1, <1>4, <1>6 DEF ShortPaid, IInv, TypeOK, Busy
<1> HIDE DEF w
<1>9. HalfIsFinished'
  BY <1>7, <1>8 DEF HalfIsFinished, ShortPaid
<1>10. ShortsStand' /\ SettlementIsFinal'
  BY <1>4, <1>6, <1>7, <1>8 DEF ShortsStand, ShortPaid, HeldAt, SettlementIsFinal
<1> QED
  BY <1>3, <1>9, <1>10, AtRest

LEMMA LoseOrderly ==
    ASSUME IInv, OrderlyLeg, orderly', NEW r \in Reports, Lose(r)
    PROVE  OrderlyLeg'
<1>1. request[r] # Idle /\ request[r].phase = "confirm"
      /\ UNCHANGED <<agreed, locks, half, shorts, settled, lastHeld>>
  BY DEF Lose
<1>2. OnlyBusy(r)
  BY <1>1, AloneIsOnly DEF OrderlyLeg
<1>3. \A q \in Reports : request'[q] = Idle
  BY <1>2 DEF Lose, OnlyBusy, IInv, TypeOK
<1>4. ~Finishing
  BY <1>1, <1>2 DEF Finishing, OnlyBusy, Idle
<1>5. HalfIsFinished' /\ ShortsStand' /\ SettlementIsFinal'
  BY <1>1, <1>4 DEF OrderlyLeg, HalfIsFinished, ShortsStand, ShortPaid, HeldAt, SettlementIsFinal
<1> QED
  BY <1>3, <1>5, AtRest

LEMMA TermsOrderly ==
    ASSUME IInv, OrderlyLeg, orderly', NEW usd \in Dollars, ProposePrice(usd)
    PROVE  OrderlyLeg'
<1>1. InFlight = {} /\ settled = None /\ ShortPaid = {}
      /\ UNCHANGED <<locks, half, shorts, settled, request, lastHeld>>
  BY DEF ProposePrice, AwaitsOwner
<1>2. \A q \in Reports : request[q] = Idle
  BY <1>1, NothingInFlight
<1>3. ~Finishing
  BY <1>2, IdleIsNotFinishing
<1>4. HalfIsFinished' /\ ShortsStand' /\ SettlementIsFinal'
  BY <1>1, <1>3 DEF OrderlyLeg, HalfIsFinished, ShortsStand, ShortPaid, SettlementIsFinal
<1> QED
  BY <1>1, <1>2, <1>4, AtRest

\* The leg goes on standing while a lock is written, a transfer is recorded or time passes.
LEMMA QuietOrderly ==
    ASSUME IInv, OrderlyLeg, [Next]_vars,
           UNCHANGED <<agreed, half, shorts, settled, request, lastHeld>>
    PROVE  OrderlyLeg'
<1>1. \A l \in Locks : locks[l] # None => locks'[l] = locks[l]
  BY NothingIsTakenBack DEF IInv
<1>2. ASSUME NEW q \in Reports, request[q] # Idle
      PROVE  DoorStands(request[q]) /\ locks'[request[q].lock] = locks[request[q].lock]
  <2>1. request[q] \in Busy /\ locks[request[q].lock] # None
    BY <1>2, BusyOfType DEF IInv, RequestsAreSound, IsBusy, RequestIsSound
  <2> QED
    BY <1>1, <1>2, <2>1 DEF OrderlyLeg, IsBusy, Busy
<1>3. \A q \in Reports : IsBusy(request[q])' => DoorStands(request[q])'
  BY <1>2 DEF IsBusy, DoorStands, IsReplay, ShortPaid, AtItsOwnLock, HeldAt
<1>4. settled # None => locks'[settled.lock] = locks[settled.lock]
  BY <1>1 DEF IInv, TypeOK, OrNone, SettlementRows, SettlementIsSound
<1>5. Alone' /\ HalfIsFinished' /\ ShortsStand' /\ SettlementIsFinal'
  BY <1>4 DEF OrderlyLeg, Alone, IsBusy, HalfIsFinished, Finishing, ShortsStand, ShortPaid,
     HeldAt, SettlementIsFinal
<1> QED
  BY <1>3, <1>5 DEF OrderlyLeg

LEMMA OrderlyStep ==
    ASSUME IInv, [Next]_vars, orderly'
    PROVE  orderly /\ OrderlyLeg'
<1>1. orderly
  <2>1. ASSUME NEW r \in Reports,
               \/ \E price \in PriceTxs, fee \in OrNone(FeeTxs), l \in Locks : Report(r, price, fee, l)
               \/ AcceptShort(r) \/ Confirm(r) \/ RecordSettlement(r) \/ RecordShort(r) \/ Lose(r)
        PROVE  orderly
    BY <2>1 DEF Report, AcceptShort, Confirm, RecordSettlement, RecordShort, Lose
  <2>2. ASSUME NEW l \in Locks, Start(l) \/ \E h \in PriceTxs \cup FeeTxs : Land(h, l)
        PROVE  orderly
    BY <2>2 DEF Start, Land
  <2>3. ASSUME (\E usd \in Dollars : ProposePrice(usd)) \/ Tick \/ UNCHANGED vars
        PROVE  orderly
    BY <2>3 DEF ProposePrice, Tick, vars
  <2> QED
    BY <2>1, <2>2, <2>3 DEF Next
<1>2. OrderlyLeg
  BY <1>1 DEF IInv
<1>3. ASSUME NEW l \in Locks, Start(l) \/ \E h \in PriceTxs \cup FeeTxs : Land(h, l)
      PROVE  UNCHANGED <<agreed, half, shorts, settled, request, lastHeld>>
  BY <1>3 DEF Start, Land
<1>4. ASSUME Tick \/ UNCHANGED vars
      PROVE  UNCHANGED <<agreed, half, shorts, settled, request, lastHeld>>
  BY <1>4 DEF Tick, vars
<1>5. ASSUME NEW r \in Reports,
             \/ \E price \in PriceTxs, fee \in OrNone(FeeTxs), l \in Locks : Report(r, price, fee, l)
             \/ AcceptShort(r) \/ Confirm(r) \/ RecordSettlement(r) \/ RecordShort(r) \/ Lose(r)
      PROVE  OrderlyLeg'
  <2>1. ASSUME Confirm(r) PROVE OrderlyLeg'
    BY <1>2, <2>1, ConfirmEnds, ConfirmGoesOn
  <2> QED
    BY <1>2, <1>5, <2>1, ReportOrderly, AcceptOrderly, SettlementOrderly, ShortOrderly, LoseOrderly
<1> QED
  BY <1>1, <1>2, <1>3, <1>4, <1>5, QuietOrderly, TermsOrderly DEF Next

--------------------------------------------------------------------------------

LEMMA QuotesBegin == Init => IInv
<1> SUFFICES ASSUME Init PROVE IInv
  OBVIOUS
<1> USE DEF Init
<1>1. TypeOK
  BY QuotesAssumption DEF TypeOK, Times, OrNone
<1>2. \A r \in Reports : request[r] = Idle
  OBVIOUS
<1>3. ShortPaid = {}
  BY DEF ShortPaid
<1>4. RequestsAreSound /\ SettlementIsSound /\ ShortsAreSound /\ HalfIsHeld
  BY <1>2, <1>3 DEF RequestsAreSound, IsBusy, SettlementIsSound, ShortsAreSound, HalfIsHeld
<1>5. OrderlyLeg
  BY <1>2, <1>3 DEF OrderlyLeg, Alone, IsBusy, HalfIsFinished, ShortsStand, SettlementIsFinal
<1> QED
  BY <1>1, <1>4, <1>5 DEF IInv

LEMMA QuotesStep == IInv /\ [Next]_vars => IInv'
<1> SUFFICES ASSUME IInv, [Next]_vars PROVE IInv'
  OBVIOUS
<1>1. TypeOK' /\ RequestsAreSound' /\ SettlementIsSound' /\ ShortsAreSound' /\ HalfIsHeld'
  BY TypeStep, RequestsStep, SettlementStep, ShortsStep, HalfStep DEF IInv
<1>2. orderly' => OrderlyLeg'
  BY OrderlyStep
<1> QED
  BY <1>1, <1>2 DEF IInv

\* The inductive invariant holds however many locks, transfers and reports there are
\* (abt-eth-quote-lock.ts, the abt_eth routes of app.ts).
THEOREM QuotesInvariant == Spec => []IInv
BY QuotesBegin, QuotesStep, PTL DEF Spec

\* The rows of locks, transfers, half-paid and short payments and settlements have their
\* types, and so have the requests under way.
THEOREM QuotesAreTyped == Spec => []TypeOK
<1>1. IInv => TypeOK
  BY DEF IInv
<1> QED
  BY <1>1, QuotesInvariant, PTL

\* A quote is honoured whichever way its payment went: what settles is worth what was
\* agreed, nobody who paid in time is kept waiting, and a leg held half paid is finished
\* at its own lock (judgeAbtEthLateTransfer, abtEthHalfPaidRecordFor).
THEOREM QuotesAreHonoured == Spec => []QuoteHonoured
<1>1. IInv => SettledIsWorth
  <2> SUFFICES ASSUME IInv, settled # None PROVE SettledIsWorth
    BY DEF SettledIsWorth
  <2> QED
    BY DEF IInv, SettlementIsSound, Worth, SettledIsWorth
<1>2. IInv => ShortWasLate
  BY DEF IInv, ShortsAreSound, ShortWasLate
<1>3. IInv => FinishedAtItsLock
  BY DEF IInv, OrderlyLeg, SettlementIsFinal, HeldAt, FinishedAtItsLock
<1>4. IInv => QuoteHonoured
  BY <1>1, <1>2, <1>3 DEF QuoteHonoured
<1> QED
  BY <1>4, QuotesInvariant, PTL

\* Only a request that has read the chain writes a row of the leg.
LEMMA OnlyRecordsWrite ==
    ASSUME [Next]_vars
    PROVE  /\ (\E r \in Reports : RecordSettlement(r)) \/ UNCHANGED settled
           /\ (\E r \in Reports : RecordShort(r)) \/ UNCHANGED shorts
<1>1. ASSUME NEW r \in Reports,
             \/ \E price \in PriceTxs, fee \in OrNone(FeeTxs), l \in Locks : Report(r, price, fee, l)
             \/ AcceptShort(r) \/ Confirm(r) \/ Lose(r)
      PROVE  UNCHANGED <<settled, shorts>>
  BY <1>1 DEF Report, AcceptShort, Confirm, Lose
<1>2. ASSUME NEW r \in Reports
      PROVE  (RecordSettlement(r) => UNCHANGED shorts) /\ (RecordShort(r) => UNCHANGED settled)
  BY DEF RecordSettlement, RecordShort
<1>3. ASSUME NEW l \in Locks, Start(l) \/ \E h \in PriceTxs \cup FeeTxs : Land(h, l)
      PROVE  UNCHANGED <<settled, shorts>>
  BY <1>3 DEF Start, Land
<1>4. ASSUME (\E usd \in Dollars : ProposePrice(usd)) \/ Tick \/ UNCHANGED vars
      PROVE  UNCHANGED <<settled, shorts>>
  BY <1>4 DEF ProposePrice, Tick, vars
<1> QED
  BY <1>1, <1>2, <1>3, <1>4 DEF Next

\* What a leg has come to stands, whatever is reported later, as long as no two requests
\* ran at once (settlementRepo.record, abtEthShorts.record).
THEOREM LegsComeToStand == Spec => LegStands
<1>1. ASSUME IInv, [Next]_vars, orderly'
      PROVE  OwnerAnswersShort /\ SettlementStands
  <2>1. OrderlyLeg
    BY <1>1, OrderlyStep DEF IInv
  <2>2. ASSUME NEW r \in Reports, RecordSettlement(r)
        PROVE  /\ settled = None
               /\ AwaitsOwner => settled'.judged.by = "accepted"
    <3>1. request[r] \in Busy /\ request[r] # Idle /\ request[r].phase = "settle"
      BY <1>1, <2>2, BusyOfType DEF RecordSettlement, IInv
    <3>2. DoorStands(request[r]) /\ RequestIsSound(request[r])
      BY <1>1, <2>1, <3>1 DEF OrderlyLeg, IsBusy, IInv, RequestsAreSound
    <3>3. settled = None /\ (~request[r].accept => ShortPaid = {})
      BY <3>1, <3>2 DEF DoorStands
    <3>4. request[r].accept => request[r].judged.by = "accepted"
      BY <3>1, <3>2 DEF RequestIsSound
    <3>5. settled'.judged = request[r].judged
      BY <2>2 DEF RecordSettlement
    <3> QED
      BY <3>3, <3>4, <3>5 DEF AwaitsOwner
  <2>3. ASSUME NEW r \in Reports, RecordShort(r)
        PROVE  ~AwaitsOwner
    <3>1. request[r] \in Busy /\ request[r] # Idle /\ request[r].phase = "short"
      BY <1>1, <2>3, BusyOfType DEF RecordShort, IInv
    <3>2. DoorStands(request[r]) /\ RequestIsSound(request[r])
      BY <1>1, <2>1, <3>1 DEF OrderlyLeg, IsBusy, IInv, RequestsAreSound
    <3>3. ShortPaid = {}
      BY <3>1, <3>2 DEF DoorStands, RequestIsSound
    <3> QED
      BY <3>3 DEF AwaitsOwner
  <2>4. OwnerAnswersShort
    BY <1>1, <2>2, <2>3, OnlyRecordsWrite DEF OwnerAnswersShort
  <2>5. SettlementStands
    BY <1>1, <2>2, OnlyRecordsWrite DEF SettlementStands
  <2> QED
    BY <2>4, <2>5
<1>2. IInv /\ [Next]_vars => [orderly' => OwnerAnswersShort /\ SettlementStands]_vars
  BY <1>1
<1> QED
  BY <1>2, QuotesInvariant, PTL DEF Spec, LegStands
--------------------------------------------------------------------------------
(* The switch of the notifications. A tab behind whose back nothing was pressed    *)
(* shows the subscription the browser has; the address of its own press was new to  *)
(* the browser, so whoever registers it registers it for the account that pressed.  *)

\* What a tab shows is so, unless the switch was moved elsewhere: the browser has that
\* subscription, nobody is about to give its address to another account, and once the
\* server has answered its row names the account of the tab.
ShowsWhatIs(t) ==
    /\ sub = tab[t].sub
    /\ tab[t].sub # None /\ (tab[t].own \/ tab[t].doing = "posting") =>
           \A p \in posts : p.address = tab[t].sub => p.account = tab[t].account
    /\ tab[t].sub # None /\ tab[t].own /\ tab[t].doing # "posting" =>
           rows[tab[t].sub] = tab[t].account

TabsShowWhatIs == \A t \in Tabs \ touched : tab[t] # None => ShowsWhatIs(t)

\* An address the browser was never given is in nobody's hands.
AddressesAreGiven ==
    /\ sub \in given \cup {None}
    /\ \A p \in posts : p.address \in given

SwitchInv == Switch!TypeOK /\ AddressesAreGiven /\ TabsShowWhatIs

--------------------------------------------------------------------------------
(* What one step makes of the tabs and of the registrations.                       *)

TabsTyped == tab \in [Tabs -> Switch!OrNone(Switch!Shown)]

\* Of the tabs, a step moves one.
TabAlone(t) == \A u \in Tabs \ {t} : tab'[u] = tab[u]

LEMMA ShownMoves ==
    ASSUME NEW r \in Switch!Shown, NEW what \in {"nothing", "posting", "deleting"},
           NEW address \in Switch!OrNone(Addresses), NEW own \in BOOLEAN
    PROVE  /\ [r EXCEPT !.doing = what, !.sub = address, !.own = own] \in Switch!Shown
           /\ [r EXCEPT !.doing = what, !.sub = address] \in Switch!Shown
           /\ [r EXCEPT !.doing = what] \in Switch!Shown
BY DEF Switch!Shown

LEMMA SettledFields ==
    ASSUME NEW r \in Switch!Shown, NEW address, NEW own
    PROVE  LET s == [r EXCEPT !.doing = "nothing", !.sub = address, !.own = own]
           IN  /\ s.doing = "nothing" /\ s.sub = address /\ s.own = own
               /\ s.account = r.account
BY DEF Switch!Shown

LEMMA TabSettles ==
    ASSUME Switch!TypeOK, NEW t \in Tabs, tab[t] # None,
       NEW address \in Switch!OrNone(Addresses),
           NEW own \in BOOLEAN, Switch!Settled(t, address, own)
    PROVE  /\ TabsTyped' /\ TabAlone(t) /\ tab'[t] # None
           /\ tab'[t].doing = "nothing" /\ tab'[t].sub = address /\ tab'[t].own = own
           /\ tab'[t].account = tab[t].account
<1>1. tab[t] \in Switch!Shown
  BY DEF Switch!TypeOK, Switch!OrNone
<1>2. tab'[t] = [tab[t] EXCEPT !.doing = "nothing", !.sub = address, !.own = own] /\ TabAlone(t)
  BY DEF Switch!TypeOK, Switch!Settled, TabAlone
<1>3. [tab[t] EXCEPT !.doing = "nothing", !.sub = address, !.own = own] \in Switch!Shown
  BY <1>1, ShownMoves
<1>4. tab'[t] \in Switch!Shown
  BY <1>2, <1>3
<1>5. TabsTyped'
  <2>1. DOMAIN tab' = Tabs /\ tab' = [u \in Tabs |-> tab'[u]]
    BY DEF Switch!TypeOK, Switch!Settled
  <2>2. \A u \in Tabs : tab'[u] \in Switch!OrNone(Switch!Shown)
    BY <1>2, <1>4 DEF Switch!TypeOK, TabAlone, Switch!OrNone
  <2> QED
    BY <2>1, <2>2 DEF TabsTyped
<1>6. /\ tab'[t].doing = "nothing" /\ tab'[t].sub = address /\ tab'[t].own = own
      /\ tab'[t].account = tab[t].account
  BY <1>1, <1>2, SettledFields
<1> QED
  BY <1>2, <1>4, <1>5, <1>6, SwitchAssumption

LEMMA TabPosts ==
    ASSUME Switch!TypeOK, NEW t \in Tabs, tab[t] # None, NEW address \in Addresses,
           tab' = [tab EXCEPT ![t].doing = "posting", ![t].sub = address]
    PROVE  /\ TabsTyped' /\ TabAlone(t) /\ tab'[t] # None
           /\ tab'[t].doing = "posting" /\ tab'[t].sub = address
           /\ tab'[t].account = tab[t].account
<1>1. tab[t] \in Switch!Shown /\ address \in Switch!OrNone(Addresses)
  BY DEF Switch!TypeOK, Switch!OrNone
<1>2. tab'[t] = [tab[t] EXCEPT !.doing = "posting", !.sub = address] /\ TabAlone(t)
  BY DEF Switch!TypeOK, TabAlone
<1>3. [tab[t] EXCEPT !.doing = "posting", !.sub = address] \in Switch!Shown
  BY <1>1, ShownMoves
<1>4. tab'[t] \in Switch!Shown
  BY <1>2, <1>3
<1>5. TabsTyped'
  <2>1. DOMAIN tab' = Tabs /\ tab' = [u \in Tabs |-> tab'[u]]
    BY DEF Switch!TypeOK
  <2>2. \A u \in Tabs : tab'[u] \in Switch!OrNone(Switch!Shown)
    BY <1>2, <1>4 DEF Switch!TypeOK, TabAlone, Switch!OrNone
  <2> QED
    BY <2>1, <2>2 DEF TabsTyped
<1>6. tab'[t].doing = "posting" /\ tab'[t].sub = address /\ tab'[t].account = tab[t].account
  BY <1>1, <1>2 DEF Switch!Shown
<1> QED
  BY <1>2, <1>4, <1>5, <1>6, SwitchAssumption

\* What a registration gave up leaves behind is nothing of the browser's.
LEMMA UndoneType ==
    ASSUME Switch!TypeOK, AddressesAreGiven, NEW t \in Tabs
    PROVE  Switch!Undone(t) \in Switch!OrNone(Addresses) /\ Switch!Undone(t) \in given \cup {None}
BY DEF Switch!TypeOK, AddressesAreGiven, Switch!Undone, Switch!OrNone

LEMMA PostMoves ==
    ASSUME Switch!TypeOK, NEW p \in posts
    PROVE  /\ [p EXCEPT !.step = "looked"] \in Switch!Posts
           /\ [p EXCEPT !.step = "looked"].address = p.address
           /\ [p EXCEPT !.step = "looked"].account = p.account
<1>1. p \in Switch!Posts
  BY DEF Switch!TypeOK
<1> QED
  BY <1>1 DEF Switch!Posts

\* Everybody else has been overtaken: whoever is not was closed.
LEMMA OthersAreTouched ==
    ASSUME Switch!TypeOK, NEW t \in Tabs, TabAlone(t),
       touched' = touched \cup Switch!Others(t),
           tab'[t] # None => ShowsWhatIs(t)' \/ t \in touched
    PROVE  TabsShowWhatIs'
BY DEF TabAlone, Switch!Others, TabsShowWhatIs
\* Every action keeps the types.
LEMMA SwitchTyped ==
    ASSUME SwitchInv, Switch!Next
    PROVE  Switch!TypeOK'
<1>1. ASSUME NEW t \in Tabs, NEW account \in Accounts, Switch!Open(t,
   account) PROVE Switch!TypeOK'
  <2>1. [account |-> account, sub |-> sub, own |-> FALSE, doing |-> "nothing"] \in Switch!Shown
    BY DEF SwitchInv, Switch!TypeOK, Switch!Shown
  <2> QED
    BY <1>1, <2>1 DEF SwitchInv, Switch!TypeOK, Switch!Open, Switch!OrNone
<1>2. ASSUME NEW t \in Tabs, Switch!Close(t) PROVE Switch!TypeOK'
  BY <1>2 DEF SwitchInv, Switch!TypeOK, Switch!Close, Switch!OrNone
<1>3. ASSUME NEW t \in Tabs, Switch!Subscribe(t) PROVE Switch!TypeOK'
  <2>1. PICK address \in IF sub = None THEN Addresses \ given ELSE {sub} :
           /\ sub' = address /\ given' = given \cup {address}
           /\ tab' = [tab EXCEPT ![t].doing = "posting", ![t].sub = address]
           /\ posts' = posts \cup {[tab |-> t, account |-> tab[t].account,
                                    address |-> address, step |-> "sent"]}
    BY <1>3 DEF Switch!Subscribe
  <2>2. address \in Addresses
    BY <2>1 DEF SwitchInv, Switch!TypeOK, Switch!OrNone
  <2>3. tab[t] # None /\ tab[t] \in Switch!Shown
    BY <1>3 DEF SwitchInv, Switch!TypeOK, Switch!Subscribe, Switch!Doing, Switch!OrNone
  <2>4. TabsTyped'
    BY <2>1, <2>2, <2>3, TabPosts DEF SwitchInv
  <2>5. posts' \subseteq Switch!Posts
    <3>1. tab[t].account \in Accounts
      BY <2>3 DEF Switch!Shown
    <3> QED
      BY <2>1, <2>2, <3>1 DEF SwitchInv, Switch!TypeOK, Switch!Posts
  <2>6. touched' \subseteq Tabs /\ rows' = rows
    BY <1>3 DEF SwitchInv, Switch!TypeOK, Switch!Subscribe, Switch!Others
  <2> QED
    BY <2>1, <2>2, <2>4, <2>5, <2>6 DEF SwitchInv, Switch!TypeOK, TabsTyped,
       Switch!OrNone
<1>4. ASSUME NEW t \in Tabs, Switch!Offline(t) PROVE Switch!TypeOK'
  <2>1. tab[t] # None /\ Switch!Settled(t, None, TRUE) /\ sub' = Switch!Undone(t) /\ touched' \subseteq Tabs
    BY <1>4 DEF SwitchInv, Switch!TypeOK, Switch!Offline, Switch!Doing, Switch!Refused,
       Switch!Others
  <2>2. TabsTyped'
    BY <2>1, TabSettles DEF SwitchInv, Switch!OrNone
  <2>3. sub' \in Switch!OrNone(Addresses)
    BY <2>1, UndoneType DEF SwitchInv
  <2> QED
    BY <1>4, <2>1, <2>2, <2>3 DEF SwitchInv, Switch!TypeOK, TabsTyped, Switch!Offline
<1>5. ASSUME NEW t \in Tabs, Switch!AskOff(t) PROVE Switch!TypeOK'
  <2>1. tab[t] \in Switch!Shown
    BY <1>5 DEF SwitchInv, Switch!TypeOK, Switch!AskOff, Switch!Doing, Switch!OrNone
  <2>2. [tab[t] EXCEPT !.doing = "deleting"] \in Switch!Shown
    BY <2>1, ShownMoves DEF Switch!OrNone
  <2> QED
    BY <1>5, <2>2 DEF SwitchInv, Switch!TypeOK, Switch!AskOff, Switch!OrNone
<1>6. ASSUME NEW t \in Tabs, Switch!TurnOff(t) PROVE Switch!TypeOK'
  <2>1. tab[t] # None /\ Switch!Settled(t, None, TRUE) /\ sub' = Switch!Undone(t) /\ touched' \subseteq Tabs
    BY <1>6 DEF SwitchInv, Switch!TypeOK, Switch!TurnOff, Switch!Doing, Switch!Refused,
       Switch!Others
  <2>2. TabsTyped'
    BY <2>1, TabSettles DEF SwitchInv, Switch!OrNone
  <2>3. sub' \in Switch!OrNone(Addresses)
    BY <2>1, UndoneType DEF SwitchInv
  <2>4. rows' \in [Addresses -> Switch!OrNone(Accounts)]
    BY <1>6 DEF SwitchInv, Switch!TypeOK, Switch!TurnOff, Switch!Removed, Switch!OrNone
  <2> QED
    BY <1>6, <2>1, <2>2, <2>3, <2>4 DEF SwitchInv, Switch!TypeOK, TabsTyped,
       Switch!TurnOff
<1>7. ASSUME NEW p \in posts, Switch!Look(p) PROVE Switch!TypeOK'
  BY <1>7, PostMoves DEF SwitchInv, Switch!TypeOK, Switch!Look
<1>8. ASSUME NEW p \in posts, Switch!Write(p) PROVE Switch!TypeOK'
  <2>1. p \in Switch!Posts
    BY DEF SwitchInv, Switch!TypeOK
  <2>2. rows' \in [Addresses -> Switch!OrNone(Accounts)] /\ posts' \subseteq Switch!Posts /\ sub' = sub /\ given' = given
    BY <1>8, <2>1 DEF SwitchInv, Switch!TypeOK, Switch!Write, Switch!OrNone,
       Switch!Posts
  <2>3. TabsTyped' /\ touched' \subseteq Tabs
    <3>1. CASE Switch!Waits(p)
      <4>1. tab[p.tab] # None /\ p.tab \in Tabs /\ p.address \in Switch!OrNone(Addresses)
        BY <2>1, <3>1 DEF Switch!Waits, Switch!Doing, Switch!Posts, Switch!OrNone
      <4>2. Switch!Settled(p.tab, p.address, TRUE) /\ touched' = touched \cup Switch!Others(p.tab)
        BY <1>8, <3>1 DEF Switch!Write
      <4>3. TabsTyped'
        BY <4>1, <4>2, TabSettles DEF SwitchInv
      <4> QED
        BY <4>2, <4>3 DEF SwitchInv, Switch!TypeOK, Switch!Others
    <3>2. CASE ~Switch!Waits(p)
      BY <1>8, <3>2 DEF SwitchInv, Switch!TypeOK, Switch!Write, TabsTyped
    <3> QED
      BY <3>1, <3>2
  <2> QED
    BY <2>2, <2>3 DEF SwitchInv, Switch!TypeOK, TabsTyped
<1>9. ASSUME NEW p \in posts, Switch!Refuse(p) PROVE Switch!TypeOK'
  <2>1. p \in Switch!Posts
    BY DEF SwitchInv, Switch!TypeOK
  <2>2. rows' = rows /\ posts' \subseteq Switch!Posts /\ given' = given
    BY <1>9 DEF SwitchInv, Switch!TypeOK, Switch!Refuse
  <2>3. TabsTyped' /\ touched' \subseteq Tabs /\ sub' \in Switch!OrNone(Addresses)
    <3>1. CASE Switch!Waits(p)
      <4>1. tab[p.tab] # None /\ p.tab \in Tabs
        BY <2>1, <3>1 DEF Switch!Waits, Switch!Doing, Switch!Posts
      <4>2. Switch!Settled(p.tab, None, TRUE) /\ sub' = Switch!Undone(p.tab) /\ touched' = touched \cup Switch!Others(p.tab)
        BY <1>9, <3>1 DEF Switch!Refuse, Switch!Refused
      <4>3. TabsTyped'
        BY <4>1, <4>2, TabSettles DEF SwitchInv, Switch!OrNone
      <4>4. sub' \in Switch!OrNone(Addresses)
        BY <4>1, <4>2, UndoneType DEF SwitchInv
      <4> QED
        BY <4>2, <4>3, <4>4 DEF SwitchInv, Switch!TypeOK, Switch!Others
    <3>2. CASE ~Switch!Waits(p)
      BY <1>9, <3>2 DEF SwitchInv, Switch!TypeOK, Switch!Refuse, TabsTyped
    <3> QED
      BY <3>1, <3>2
  <2> QED
    BY <2>2, <2>3 DEF SwitchInv, Switch!TypeOK, TabsTyped
<1>10. ASSUME Switch!Dropped PROVE Switch!TypeOK'
  BY <1>10 DEF SwitchInv, Switch!TypeOK, Switch!Dropped, Switch!OrNone
<1> QED
  BY <1>1, <1>2, <1>3, <1>4, <1>5, <1>6, <1>7, <1>8, <1>9, <1>10 DEF Switch!Next

\* Every registration is of an address the browser was given.
LEMMA AddressesStayGiven ==
    ASSUME SwitchInv, Switch!Next
    PROVE  AddressesAreGiven'
<1>1. ASSUME NEW t \in Tabs, NEW account \in Accounts, Switch!Open(t,
   account) PROVE AddressesAreGiven'
  BY <1>1 DEF SwitchInv, AddressesAreGiven, Switch!Open
<1>2. ASSUME NEW t \in Tabs, Switch!Close(t) PROVE AddressesAreGiven'
  BY <1>2 DEF SwitchInv, AddressesAreGiven, Switch!Close
<1>3. ASSUME NEW t \in Tabs, Switch!Subscribe(t) PROVE AddressesAreGiven'
  BY <1>3 DEF SwitchInv, AddressesAreGiven, Switch!Subscribe
<1>4. ASSUME NEW t \in Tabs, Switch!Offline(t) PROVE AddressesAreGiven'
  <2>1. sub' = Switch!Undone(t) /\ given' = given /\ posts' = posts
    BY <1>4 DEF Switch!Offline, Switch!Refused
  <2> QED
    BY <2>1, UndoneType DEF SwitchInv, AddressesAreGiven
<1>5. ASSUME NEW t \in Tabs, Switch!AskOff(t) PROVE AddressesAreGiven'
  BY <1>5 DEF SwitchInv, AddressesAreGiven, Switch!AskOff
<1>6. ASSUME NEW t \in Tabs, Switch!TurnOff(t) PROVE AddressesAreGiven'
  <2>1. sub' = Switch!Undone(t) /\ given' = given /\ posts' = posts
    BY <1>6 DEF Switch!TurnOff, Switch!Refused
  <2> QED
    BY <2>1, UndoneType DEF SwitchInv, AddressesAreGiven
<1>7. ASSUME NEW p \in posts, Switch!Look(p) PROVE AddressesAreGiven'
  BY <1>7, PostMoves DEF SwitchInv, AddressesAreGiven, Switch!Look
<1>8. ASSUME NEW p \in posts, Switch!Write(p) PROVE AddressesAreGiven'
  BY <1>8 DEF SwitchInv, AddressesAreGiven, Switch!Write
<1>9. ASSUME NEW p \in posts, Switch!Refuse(p) PROVE AddressesAreGiven'
  <2>1. given' = given /\ posts' \subseteq posts
    BY <1>9 DEF Switch!Refuse
  <2>2. sub' \in given \cup {None}
    <3>1. CASE Switch!Waits(p)
      <4>1. p.tab \in Tabs
        BY DEF SwitchInv, Switch!TypeOK, Switch!Posts
      <4>2. sub' = Switch!Undone(p.tab)
        BY <1>9, <3>1 DEF Switch!Refuse, Switch!Refused
      <4> QED
        BY <4>1, <4>2, UndoneType DEF SwitchInv
    <3>2. CASE ~Switch!Waits(p)
      BY <1>9, <3>2 DEF SwitchInv, AddressesAreGiven, Switch!Refuse
    <3> QED
      BY <3>1, <3>2
  <2> QED
    BY <2>1, <2>2 DEF SwitchInv, AddressesAreGiven
<1>10. ASSUME Switch!Dropped PROVE AddressesAreGiven'
  BY <1>10 DEF SwitchInv, AddressesAreGiven, Switch!Dropped
<1> QED
  BY <1>1, <1>2, <1>3, <1>4, <1>5, <1>6, <1>7, <1>8, <1>9, <1>10 DEF Switch!Next

\* A switch put off, by its press or by a refusal, is off in the browser too.
LEMMA OffIsOff ==
    ASSUME SwitchInv, NEW t \in Tabs, tab[t] # None, Switch!Refused(t)
    PROVE  TabsShowWhatIs'
<1>1. TabAlone(t) /\ tab'[t].sub = None
  BY TabSettles DEF SwitchInv, Switch!Refused, Switch!OrNone
<1>2. sub' = None \/ t \in touched
  BY DEF SwitchInv, TabsShowWhatIs, ShowsWhatIs, Switch!Refused, Switch!Undone
<1>3. ShowsWhatIs(t)' \/ t \in touched
  BY <1>1, <1>2 DEF ShowsWhatIs
<1> QED
  BY <1>1, <1>3, OthersAreTouched DEF SwitchInv, Switch!Refused

\* A press of one tab tells the browser and overtakes every other; what the server does
\* later with an address is done for the account that pressed.
LEMMA TabsGoOnShowing ==
    ASSUME SwitchInv, Switch!Next
    PROVE  TabsShowWhatIs'
<1>1. ASSUME NEW t \in Tabs, NEW account \in Accounts, Switch!Open(t,
   account) PROVE TabsShowWhatIs'
  <2> DEFINE fresh == [account |-> account, sub |-> sub, own |-> FALSE, doing |-> "nothing"]
  <2>1. tab'[t] = fresh /\ TabAlone(t)
    BY <1>1 DEF SwitchInv, Switch!TypeOK, Switch!Open, TabAlone
  <2>2. touched' = touched \ {t} /\ sub' = sub /\ rows' = rows /\ posts' = posts
    BY <1>1 DEF Switch!Open
  <2>3. ShowsWhatIs(t)'
    BY <2>1, <2>2 DEF ShowsWhatIs
  <2>4. ASSUME NEW u \in Tabs \ touched', tab'[u] # None, u # t PROVE ShowsWhatIs(u)'
    <3>1. tab'[u] = tab[u] /\ u \notin touched
      BY <2>1, <2>2, <2>4 DEF TabAlone
    <3>2. ShowsWhatIs(u)
      BY <2>4, <3>1 DEF SwitchInv, TabsShowWhatIs
    <3> QED
      BY <2>2, <3>1, <3>2 DEF ShowsWhatIs
  <2> QED
    BY <2>3, <2>4 DEF TabsShowWhatIs
<1>2. ASSUME NEW t \in Tabs, Switch!Close(t) PROVE TabsShowWhatIs'
  <2>1. tab'[t] = None /\ TabAlone(t)
    BY <1>2 DEF SwitchInv, Switch!TypeOK, Switch!Close, TabAlone
  <2>2. touched' = touched /\ sub' = sub /\ rows' = rows /\ posts' = posts
    BY <1>2 DEF Switch!Close
  <2> QED
    BY <2>1, <2>2 DEF SwitchInv, TabsShowWhatIs, ShowsWhatIs, TabAlone
<1>3. ASSUME NEW t \in Tabs, Switch!Subscribe(t) PROVE TabsShowWhatIs'
  <2>1. PICK address \in IF sub = None THEN Addresses \ given ELSE {sub} :
           /\ sub' = address /\ given' = given \cup {address}
           /\ tab' = [tab EXCEPT ![t].doing = "posting", ![t].sub = address]
           /\ posts' = posts \cup {[tab |-> t, account |-> tab[t].account,
                                    address |-> address, step |-> "sent"]}
    BY <1>3 DEF Switch!Subscribe
  <2>2. address \in Addresses /\ tab[t] # None /\ tab[t].sub = None
    BY <1>3, <2>1 DEF SwitchInv, Switch!TypeOK, Switch!OrNone, Switch!Subscribe,
       Switch!Doing
  <2>3. TabAlone(t) /\ tab'[t].sub = address /\ tab'[t].doing = "posting"
           /\ tab'[t].account = tab[t].account
    BY <2>1, <2>2, TabPosts DEF SwitchInv
  <2>4. CASE t \in touched
    BY <1>3, <2>3, <2>4, OthersAreTouched DEF SwitchInv, Switch!Subscribe
  <2>5. CASE t \notin touched
    <3>1. sub = None
      BY <2>2, <2>5 DEF SwitchInv, TabsShowWhatIs, ShowsWhatIs
    <3>2. \A p \in posts' : p.address = address => p.account = tab[t].account
      BY <2>1, <3>1 DEF SwitchInv, AddressesAreGiven
    <3>3. ShowsWhatIs(t)'
      BY <2>1, <2>3, <3>2 DEF ShowsWhatIs
    <3> QED
      BY <1>3, <2>3, <3>3, OthersAreTouched DEF SwitchInv, Switch!Subscribe
  <2> QED
    BY <2>4, <2>5
<1>4. ASSUME NEW t \in Tabs, Switch!Offline(t) PROVE TabsShowWhatIs'
  BY <1>4, OffIsOff DEF Switch!Offline, Switch!Doing
<1>5. ASSUME NEW t \in Tabs, Switch!AskOff(t) PROVE TabsShowWhatIs'
  <2>1. tab[t] \in Switch!Shown /\ tab[t] # None /\ tab[t].doing = "nothing"
    BY <1>5 DEF SwitchInv, Switch!TypeOK, Switch!AskOff, Switch!Doing, Switch!OrNone
  <2>2. tab'[t] = [tab[t] EXCEPT !.doing = "deleting"] /\ TabAlone(t)
    BY <1>5 DEF SwitchInv, Switch!TypeOK, Switch!AskOff, TabAlone
  <2>3. /\ tab'[t].sub = tab[t].sub /\ tab'[t].account = tab[t].account
        /\ tab'[t].own = tab[t].own /\ tab'[t].doing = "deleting"
    BY <2>1, <2>2 DEF Switch!Shown
  <2>4. touched' = touched /\ sub' = sub /\ rows' = rows /\ posts' = posts
    BY <1>5 DEF Switch!AskOff
  <2>5. ASSUME NEW u \in Tabs \ touched', tab'[u] # None PROVE ShowsWhatIs(u)'
    <3>1. CASE u = t
      BY <2>1, <2>3, <2>4, <2>5, <3>1 DEF SwitchInv, TabsShowWhatIs, ShowsWhatIs
    <3>2. CASE u # t
      BY <2>2, <2>4, <2>5, <3>2 DEF SwitchInv, TabsShowWhatIs, ShowsWhatIs, TabAlone
    <3> QED
      BY <3>1, <3>2
  <2> QED
    BY <2>5 DEF TabsShowWhatIs
<1>6. ASSUME NEW t \in Tabs, Switch!TurnOff(t) PROVE TabsShowWhatIs'
  BY <1>6, OffIsOff DEF Switch!TurnOff, Switch!Doing
<1>7. ASSUME NEW p \in posts, Switch!Look(p) PROVE TabsShowWhatIs'
  <2>1. \A q \in posts' : \E o \in posts : o.address = q.address /\ o.account = q.account
    BY <1>7, PostMoves DEF SwitchInv, Switch!Look
  <2>2. touched' = touched /\ sub' = sub /\ rows' = rows /\ tab' = tab
    BY <1>7 DEF Switch!Look
  <2>3. ASSUME NEW u \in Tabs \ touched, tab[u] # None PROVE ShowsWhatIs(u)'
    <3>1. ShowsWhatIs(u)
      BY <2>3 DEF SwitchInv, TabsShowWhatIs
    <3> QED
      BY <2>1, <2>2, <3>1 DEF ShowsWhatIs
  <2> QED
    BY <2>2, <2>3 DEF TabsShowWhatIs
<1>8. ASSUME NEW p \in posts, Switch!Write(p) PROVE TabsShowWhatIs'
  <2>1. p \in Switch!Posts /\ p.address \in Addresses /\ p.tab \in Tabs
    BY DEF SwitchInv, Switch!TypeOK, Switch!Posts
  <2>2. rows' = [rows EXCEPT ![p.address] = p.account] /\ posts' = posts \ {p} /\ sub' = sub
    BY <1>8 DEF Switch!Write
  <2>3. ASSUME NEW u \in Tabs \ touched, tab[u] # None, tab[u].sub # None,
               tab[u].own \/ tab[u].doing = "posting"
        PROVE  p.address = tab[u].sub => p.account = tab[u].account
    BY <2>3 DEF SwitchInv, TabsShowWhatIs, ShowsWhatIs
  <2>4. CASE Switch!Waits(p)
    <3>1. Switch!Settled(p.tab, p.address, TRUE) /\ touched' = touched \cup Switch!Others(p.tab)
      BY <1>8, <2>4 DEF Switch!Write
    <3>2. tab[p.tab] # None /\ tab[p.tab].doing = "posting" /\ tab[p.tab].sub = p.address
      BY <2>4 DEF Switch!Waits, Switch!Doing
    <3>3. TabAlone(p.tab) /\ tab'[p.tab].sub = p.address /\ tab'[p.tab].account = tab[p.tab].account
      BY <2>1, <3>1, <3>2, TabSettles DEF SwitchInv, Switch!OrNone
    <3>4. CASE p.tab \in touched
      BY <2>1, <3>1, <3>3, <3>4, OthersAreTouched DEF SwitchInv
    <3>5. CASE p.tab \notin touched
      <4>1. p.address # None /\ rows'[p.address] = p.account
        BY <2>1, <2>2, SwitchAssumption DEF SwitchInv, Switch!TypeOK
      <4>2. p.account = tab[p.tab].account
        BY <2>1, <2>3, <3>2, <3>5, <4>1
      <4>3. ShowsWhatIs(p.tab)
        BY <2>1, <3>2, <3>5 DEF SwitchInv, TabsShowWhatIs
      <4>4. \A q \in posts : q.address = p.address => q.account = tab[p.tab].account
        BY <3>2, <4>1, <4>3 DEF ShowsWhatIs
      <4>5. sub' = p.address
        BY <2>2, <3>2, <4>3 DEF ShowsWhatIs
      <4>6. ShowsWhatIs(p.tab)'
        BY <2>2, <3>3, <4>1, <4>2, <4>4, <4>5 DEF ShowsWhatIs
      <4> QED
        BY <2>1, <3>1, <3>3, <4>6, OthersAreTouched DEF SwitchInv
    <3> QED
      BY <3>4, <3>5
  <2>5. CASE ~Switch!Waits(p)
    <3>1. tab' = tab /\ touched' = touched
      BY <1>8, <2>5 DEF Switch!Write
    <3>2. ASSUME NEW u \in Tabs \ touched, tab[u] # None PROVE ShowsWhatIs(u)'
      <4>1. ShowsWhatIs(u)
        BY <3>2 DEF SwitchInv, TabsShowWhatIs
      <4>2. tab[u].sub # None /\ tab[u].own /\ tab[u].doing # "posting" =>
                rows'[tab[u].sub] = tab[u].account
        <5> SUFFICES ASSUME tab[u].sub # None, tab[u].own, tab[u].doing # "posting"
                     PROVE  rows'[tab[u].sub] = tab[u].account
          OBVIOUS
        <5>1. rows[tab[u].sub] = tab[u].account
          BY <4>1 DEF ShowsWhatIs
        <5>2. tab[u].sub \in Addresses
          BY <3>2 DEF SwitchInv, Switch!TypeOK, Switch!OrNone, Switch!Shown
        <5>3. p.address = tab[u].sub => p.account = tab[u].account
          BY <2>3, <3>2
        <5> QED
          BY <2>2, <5>1, <5>2, <5>3 DEF SwitchInv, Switch!TypeOK
      <4> QED
        BY <2>2, <3>1, <4>1, <4>2 DEF ShowsWhatIs
    <3> QED
      BY <3>1, <3>2 DEF TabsShowWhatIs
  <2> QED
    BY <2>4, <2>5
<1>9. ASSUME NEW p \in posts, Switch!Refuse(p) PROVE TabsShowWhatIs'
  <2>1. CASE Switch!Waits(p)
    <3>1. p.tab \in Tabs /\ tab[p.tab] # None
      BY <2>1 DEF SwitchInv, Switch!TypeOK, Switch!Posts, Switch!Waits, Switch!Doing
    <3> QED
      BY <1>9, <2>1, <3>1, OffIsOff DEF Switch!Refuse
  <2>2. CASE ~Switch!Waits(p)
    BY <1>9, <2>2 DEF SwitchInv, TabsShowWhatIs, ShowsWhatIs, Switch!Refuse
  <2> QED
    BY <2>1, <2>2
<1>10. ASSUME Switch!Dropped PROVE TabsShowWhatIs'
  BY <1>10 DEF SwitchInv, TabsShowWhatIs, Switch!Dropped
<1> QED
  BY <1>1, <1>2, <1>3, <1>4, <1>5, <1>6, <1>7, <1>8, <1>9, <1>10 DEF Switch!Next

LEMMA SwitchBegins == Switch!Init => SwitchInv
<1> SUFFICES ASSUME Switch!Init PROVE SwitchInv
  OBVIOUS
<1>1. Switch!TypeOK
  BY DEF Switch!Init, Switch!TypeOK, Switch!OrNone
<1> QED
  BY <1>1 DEF Switch!Init, SwitchInv, AddressesAreGiven, TabsShowWhatIs

LEMMA SwitchGoesOn ==
    ASSUME SwitchInv, [Switch!Next]_(Switch!vars)
    PROVE  SwitchInv'
<1>1. CASE Switch!Next
  BY <1>1, SwitchTyped, AddressesStayGiven, TabsGoOnShowing DEF SwitchInv
<1>2. CASE UNCHANGED (Switch!vars)
  BY <1>2 DEF Switch!vars, SwitchInv, Switch!TypeOK, AddressesAreGiven, TabsShowWhatIs,
     ShowsWhatIs
<1> QED
  BY <1>1, <1>2

LEMMA SwitchIsTrue ==
    ASSUME SwitchInv
    PROVE  Switch!SwitchTellsTruth
BY DEF SwitchInv, TabsShowWhatIs, ShowsWhatIs, Switch!SwitchTellsTruth, Switch!Doing,
   Switch!Rings

\* Whatever is refused, lost or overtaken, the invariant of the switch holds.
THEOREM SwitchInvariant == Switch!Spec => []SwitchInv
BY SwitchBegins, SwitchGoesOn, PTL DEF Switch!Spec

\* A step of the scene of the switch is a step of its own.
LEMMA DeviceGoesOn ==
    ASSUME scene = "switch", [QuotesNext]_<<scene, vars, SwitchVars>>
    PROVE  scene' = "switch" /\ [Switch!Next]_(Switch!vars)
BY DEF QuotesNext, In, Device, SwitchVars, Switch!vars, Switch!Next

SceneHolds == scene = "switch" => SwitchInv

LEMMA SceneGoesOn ==
    ASSUME SceneHolds, [QuotesNext]_<<scene, vars, SwitchVars>>
    PROVE  SceneHolds'
<1>1. CASE scene = "switch"
  BY <1>1, DeviceGoesOn, SwitchGoesOn DEF SceneHolds
<1>2. CASE scene # "switch"
  <2>1. scene' = scene
    BY <1>2 DEF QuotesNext, In, Device
  <2> QED
    BY <1>2, <2>1 DEF SceneHolds
<1> QED
  BY <1>1, <1>2

\* The switch says what the device rings for, unless it was moved elsewhere since: off
\* after its own press, nothing reaches the device; on, it rings for the account that
\* pressed, however many answers were lost (push-switch.js turnOn, refuse, turnOff).
THEOREM SwitchIsHonest == QuotesSpec => []SwitchTellsTruth
<1>1. QuotesInit => SceneHolds
  BY SwitchBegins DEF QuotesInit, SceneHolds
<1>2. SceneHolds => SwitchTellsTruth
  BY SwitchIsTrue DEF SceneHolds, SwitchTellsTruth
<1> QED
  BY <1>1, <1>2, SceneGoesOn, PTL DEF QuotesSpec
================================================================================
