---------------------------- MODULE AbtEthQuotes -------------------------------
(* One leg paid in ABT on Ethereum. A start quotes the agreed dollars in tokens  *)
(* and locks the quote for a while; the wallet broadcasts the transfers itself,  *)
(* and the platform hears of them afterwards, from reports that name a lock. A   *)
(* payment the network recorded after the hold is judged at the rate of that     *)
(* moment, and one worth less than was agreed waits on the owner.                *)
(*                                                                              *)
(* What one transfer may back, and reports lost half way, are Erc20Legs'; this   *)
(* module keeps the awaits of one report apart: the door, the chain, the         *)
(* write. The leg is the deposit, whose terms may still change.                  *)
EXTENDS Integers, FiniteSets

CONSTANTS Locks, PriceTxs, FeeTxs,
          Reports,     \* the requests that may be in flight at once
          Dollars,     \* amounts the leg may be agreed at
          Rates,       \* dollars per token the feed may answer
          Precision,   \* token units in a token
          Lifetime,    \* ABT_QUOTE_LOCK_LIFETIME_MS
          MaxTime,     \* bound on the clock
          None

ASSUME QuotesAssumption ==
    /\ Dollars \subseteq Nat \ {0} /\ Rates \subseteq Nat \ {0}
    /\ Precision \in Nat \ {0} /\ Lifetime \in Nat \ {0} /\ MaxTime \in Nat
    /\ None \notin Locks \cup PriceTxs \cup FeeTxs \cup Int

VARIABLES clock,
          agreed,       \* the leg's dollars, from the job
          locks,        \* the quote locks written
          chain,        \* the transfers the network recorded
          half,         \* the leg's half-paid row
          shorts,       \* the short rows by price transfer
          settled,      \* the leg's settlement row
          request,      \* the reports and the owner's answer, as far as they have come
          lastHeld,     \* history: the price transfer last held half paid, and its lock
          orderly         \* history: no request ran beside another one or a change of terms

vars == <<clock, agreed, locks, chain, half, shorts, settled, request, lastHeld, orderly>>

OrNone(S) == S \cup {None}
Times == 0..MaxTime

\* Why a payment counts: recorded inside the hold, accepted, or still worth it at a rate.
Judgements == [by : {"held", "accepted", "rate"}, perToken : OrNone(Rates)]

LockRows == [usd : Dollars, amount : Nat, expires : Nat]
Idle == [phase |-> "idle"]
Busy == [phase : {"confirm", "settle", "short"}, accept : BOOLEAN, replay : BOOLEAN,
         price : PriceTxs, fee : OrNone(FeeTxs), lock : Locks, usd : Dollars,
         at : OrNone(Times), judged : OrNone(Judgements)]

\* A settlement row; the lock, and how it was judged, are history.
SettlementRows == [price : PriceTxs, fee : FeeTxs, usd : Dollars, lock : Locks,
                   judged : Judgements]
HalfRows == [price : PriceTxs, fee : OrNone(FeeTxs), lock : Locks, priceConfirmed : BOOLEAN]
ShortRows == [fee : FeeTxs, lock : Locks, usd : Dollars, at : OrNone(Times)]

Transfers == [amount : Nat, at : Times]
Holdings == [price : PriceTxs, lock : Locks]

\* A row is never null.
ASSUME RowsAssumption ==
    /\ None \notin LockRows /\ None \notin Transfers /\ None \notin HalfRows
    /\ None \notin ShortRows /\ None \notin SettlementRows /\ None \notin Holdings
    /\ None \notin Judgements

TypeOK ==
    /\ clock \in Times /\ agreed \in Dollars
    /\ locks \in [Locks -> OrNone(LockRows)]
    /\ chain \in [PriceTxs \cup FeeTxs -> OrNone(Transfers)]
    /\ half \in OrNone(HalfRows)
    /\ shorts \in [PriceTxs -> OrNone(ShortRows)]
    /\ settled \in OrNone(SettlementRows)
    /\ request \in [Reports -> Busy \cup {Idle}]
    /\ lastHeld \in OrNone(Holdings)
    /\ orderly \in BOOLEAN

Init ==
    /\ clock = 0 /\ agreed \in Dollars
    /\ locks = [l \in Locks |-> None]
    /\ chain = [h \in PriceTxs \cup FeeTxs |-> None]
    /\ half = None
    /\ shorts = [h \in PriceTxs |-> None]
    /\ settled = None
    /\ request = [r \in Reports |-> Idle]
    /\ lastHeld = None
    /\ orderly = TRUE

--------------------------------------------------------------------------------
(* Amounts, and what holds the leg.                                             *)

\* usdToTokenAmount: the quotient is floored.
TokensFor(usd, perToken) == (usd * Precision) \div perToken

\* coversAgreedUsd: the product is compared exactly.
Covers(amount, perToken, usd) == amount * perToken >= usd * Precision

ExpiredByArrival(lock, at) == clock >= lock.expires
Expired(lock, at) == at >= lock.expires

ShortPaid == {h \in PriceTxs : shorts[h] # None}
AwaitsOwner == ShortPaid # {} /\ settled = None
HeldHalfPaid == half # None /\ half.priceConfirmed

InFlight == {r \in Reports : request[r] # Idle}

--------------------------------------------------------------------------------

\* createAbtUsdRateSource: some rate, None when no reading is fresh enough.
Readings == OrNone(Rates)

\* abt_eth/start: a leg half paid is finished at the lock its record names, so only a
\* leg with no half-paid record is quoted, and each quote is a row of its own.
Start(l) ==
    /\ locks[l] = None
    /\ settled = None /\ ~AwaitsOwner /\ half = None
    /\ \E rate \in Readings \ {None} :
           locks' = [locks EXCEPT ![l] = [usd |-> agreed, amount |-> TokensFor(agreed, rate),
                                          expires |-> clock + Lifetime]]
    /\ UNCHANGED <<clock, agreed, chain, half, shorts, settled, request, lastHeld, orderly>>

\* The wallet's transfer, of the amounts of a lock it was handed, is recorded.
Land(h, l) ==
    /\ locks[l] # None /\ chain[h] = None
    /\ chain' = [chain EXCEPT ![h] = [amount |-> locks[l].amount, at |-> clock]]
    /\ UNCHANGED <<clock, agreed, locks, half, shorts, settled, request, lastHeld, orderly>>

\* The agent proposes other terms; a held leg refuses it.
ProposePrice(usd) ==
    /\ usd # agreed
    /\ settled = None /\ ~AwaitsOwner /\ ~HeldHalfPaid
    /\ agreed' = usd
    /\ orderly' = (orderly /\ InFlight = {})
    /\ UNCHANGED <<clock, locks, chain, half, shorts, settled, request, lastHeld>>

IsReplay(price, fee) == settled # None /\ settled.price = price /\ settled.fee = fee

FreshUnlessSettled == settled = None
FreshUnlessShort == ~AwaitsOwner

\* The door of a fresh report: the leg is unsettled and does not wait on the owner.
FreshReportAllowed == settled = None /\ ~AwaitsOwner

AtAnyLock(price, l) == TRUE

\* A report of the price transfer on the half-paid record names that record's lock.
AtItsOwnLock(price, l) == half # None /\ half.price = price => half.lock = l

\* abt_eth/wallet-response up to the chain.
Report(r, price, fee, l) ==
    /\ request[r] = Idle
    /\ FreshReportAllowed \/ IsReplay(price, fee)
    /\ AtItsOwnLock(price, l)
    /\ locks[l] # None /\ locks[l].usd = agreed
    /\ request' = [request EXCEPT ![r] =
           [phase |-> "confirm", accept |-> FALSE, replay |-> IsReplay(price, fee), price |-> price,
            fee |-> fee, lock |-> l, usd |-> agreed, at |-> None, judged |-> None]]
    /\ orderly' = (orderly /\ InFlight = {})
    /\ UNCHANGED <<clock, agreed, locks, chain, half, shorts, settled, lastHeld>>

\* abt_eth/accept-short up to the chain: the one short row, rebuilt from its own lock.
AcceptShort(r) ==
    /\ request[r] = Idle
    /\ AwaitsOwner /\ Cardinality(ShortPaid) = 1
    /\ \E h \in ShortPaid :
           request' = [request EXCEPT ![r] =
               [phase |-> "confirm", accept |-> TRUE, replay |-> FALSE, price |-> h,
                fee |-> shorts[h].fee, lock |-> shorts[h].lock, usd |-> agreed, at |-> None,
                judged |-> None]]
    /\ orderly' = (orderly /\ InFlight = {})
    /\ UNCHANGED <<clock, agreed, locks, chain, half, shorts, settled, lastHeld>>

\* legStatus: recorded, and of the amount of the lock that was named.
Paid(h, l) ==
    h # None /\ chain[h] # None /\ chain[h].amount = locks[l].amount

FeePaid(w) == Paid(w.fee, w.lock)

\* judgeAbtEthLateTransfer: inside the hold, whenever it is reported; else worth the
\* agreed dollars at a rate read now. A transfer of unknown time is judged as late.
UnknownIsInside(w) == w.at = None \/ ~Expired(locks[w.lock], w.at)
InsideHold(w) == w.at # None /\ ~Expired(locks[w.lock], w.at)
StillWorth(w, perToken) ==
    perToken # None /\ Covers(locks[w.lock].amount, perToken, locks[w.lock].usd)
Verdict(w, perToken) ==
    IF w.accept THEN [by |-> "accepted", perToken |-> None]
    ELSE IF InsideHold(w) THEN [by |-> "held", perToken |-> None]
    ELSE IF StillWorth(w, perToken) THEN [by |-> "rate", perToken |-> perToken]
    ELSE None

\* confirmLegs, with the half-paid row it records or clears; the block's time may be
\* missing. An unconfirmed pair and a replay are answered, and write nothing more. The
\* judgement reads nothing another request could change, so it is part of this step.
Confirm(r) ==
    LET w == request[r]
        price == Paid(w.price, w.lock)
        fee == FeePaid(w)
    IN  /\ w.phase = "confirm"
        /\ half' = IF price = fee THEN None
                   ELSE [price |-> w.price, fee |-> w.fee, lock |-> w.lock,
                         priceConfirmed |-> price]
        /\ lastHeld' = IF price /\ fee THEN lastHeld
                       ELSE IF price THEN [price |-> w.price, lock |-> w.lock] ELSE None
        /\ IF price /\ fee /\ ~w.replay
           THEN \E at \in {chain[w.price].at, None}, perToken \in Readings :
                    LET seen == [w EXCEPT !.at = at]
                        judged == Verdict(seen, perToken)
                    IN  request' = [request EXCEPT ![r] =
                            [seen EXCEPT !.judged = judged,
                                         !.phase = IF judged = None THEN "short" ELSE "settle"]]
           ELSE request' = [request EXCEPT ![r] = Idle]
        /\ UNCHANGED <<clock, agreed, locks, chain, shorts, settled, orderly>>

\* settlementRepo.record: an upsert by leg.
RecordSettlement(r) ==
    LET w == request[r]
    IN  /\ w.phase = "settle"
        /\ settled' = [price |-> w.price, fee |-> w.fee, usd |-> w.usd, lock |-> w.lock,
                       judged |-> w.judged]
        /\ request' = [request EXCEPT ![r] = Idle]
        /\ UNCHANGED <<clock, agreed, locks, chain, half, shorts, lastHeld, orderly>>

\* abtEthShorts.record: an upsert by price transfer.
RecordShort(r) ==
    LET w == request[r]
    IN  /\ w.phase = "short"
        /\ shorts' = [shorts EXCEPT ![w.price] =
               [fee |-> w.fee, lock |-> w.lock, usd |-> locks[w.lock].usd, at |-> w.at]]
        /\ request' = [request EXCEPT ![r] = Idle]
        /\ UNCHANGED <<clock, agreed, locks, chain, half, settled, lastHeld, orderly>>

\* The process stops, or the node or a table does not answer. Once the chain was read
\* the half-paid row is already cleared, and the retry finds no lock to finish at.
Lose(r) ==
    /\ request[r] # Idle
    /\ request' = [request EXCEPT ![r] = Idle]
    /\ orderly' = (orderly /\ request[r].phase = "confirm")
    /\ UNCHANGED <<clock, agreed, locks, chain, half, shorts, settled, lastHeld>>

Tick ==
    /\ clock < MaxTime
    /\ clock' = clock + 1
    /\ UNCHANGED <<agreed, locks, chain, half, shorts, settled, request, lastHeld, orderly>>

Next ==
    \/ \E l \in Locks : Start(l)
    \/ \E h \in PriceTxs \cup FeeTxs, l \in Locks : Land(h, l)
    \/ \E usd \in Dollars : ProposePrice(usd)
    \/ \E r \in Reports :
           \/ \E price \in PriceTxs, fee \in OrNone(FeeTxs), l \in Locks : Report(r, price, fee, l)
           \/ AcceptShort(r)
           \/ Confirm(r)
           \/ RecordSettlement(r)
           \/ RecordShort(r)
           \/ Lose(r)
    \/ Tick

Spec == Init /\ [][Next]_vars

--------------------------------------------------------------------------------

\* A settlement is worth what was agreed, or the owner took it for it: both transfers
\* are on the network at the amounts of one lock, and unless the owner accepted it the
\* price was recorded inside that lock's hold, or was worth the lock's dollars the
\* rate read then (judgeAbtEthLateTransfer). Nothing in between is settled, however reports overlap.
SettledIsWorth ==
    settled # None =>
        LET lock == locks[settled.lock]
        IN  /\ Paid(settled.price, settled.lock) /\ Paid(settled.fee, settled.lock)
            /\ settled.judged.by = "held" => chain[settled.price].at < lock.expires
            /\ settled.judged.by = "rate" => lock.amount * settled.judged.perToken >= lock.usd * Precision
            /\ settled.judged.by = "accepted" => shorts[settled.price] # None

\* No payment of a buyer who paid in time waits on the owner: what is short was recorded
\* after its hold, or at a time nobody can tell, however late it was reported.
ShortWasLate ==
    \A h \in ShortPaid :
        shorts[h].at # None => chain[h].at >= locks[shorts[h].lock].expires

\* A leg held half paid at one lock, and finished, is settled at that lock and for that
\* lock's dollars, unless another payment displaced the record in between, and if no two
\* requests ran at once (STARTED_AT_EARLIER_PRICE_MESSAGE, abtEthHalfPaidRecordFor).
FinishedAtItsLock ==
    settled # None /\ orderly =>
        /\ lastHeld # None /\ lastHeld.price = settled.price => lastHeld.lock = settled.lock
        /\ settled.usd = locks[settled.lock].usd

\* A quote is honoured whichever way its payment went.
QuoteHonoured == SettledIsWorth /\ ShortWasLate /\ FinishedAtItsLock

\* While a short payment waits, only the owner ends the wait, and it stays the only one,
\* if no two requests ran at once: each row is a blind upsert behind checks several
\* awaits earlier (AbtEth wallet-response and accept-short).
OwnerAnswersShort ==
    AwaitsOwner =>
        /\ shorts' = shorts
        /\ settled' # settled => settled'.judged.by = "accepted"

\* A leg that has settled keeps its settlement, under the same condition: no later report
\* of other transfers, and no replay, rewrites the row (settlementRepo.record).
SettlementStands == settled # None => settled' = settled

\* What a leg has come to stands, whatever is reported later.
LegStands == [][orderly' => OwnerAnswersShort /\ SettlementStands]_vars
================================================================================
