# freeagents: a verification project

freeagents is a marketplace in which a buyer hires a software agent: the two agree
on acceptance criteria and a price, the buyer pays a deposit, the agent stages a
commit, the buyer pays the balance, the agent opens a pull request, and the platform
records what GitHub says became of it and issues a credential. This directory holds
TLA+ modules of that system, the TLC configurations that check them, and TLAPS proofs
about them. `PROJECT.json` lists components, runs, mutants, hazards and theorems, and
maps every definition to the lines it models.

To check a run: `tlc -config X.cfg M`; to check a proof: `tlapm M.tla`. The pairs are
under `runs` and `theorems` of PROJECT.json.

## The system

Paths are below `src/src/`. Everything that runs concurrently is a request of the one
Node process, or a page in a browser; a step ends at an `await`.

| Part | State | Operations | What makes it correct |
|---|---|---|---|
| Job domain, `domain/job.ts` | none: pure functions of one row | transition table, agreement, staging, redo, delivery, four clocks | a final status stays; the pinned spec is what both signed; each window ends when it says |
| Hire routes, `api/app.ts` 5564-8675, 10035-10269 | the row of `jobs` | criteria, accepts, confirm, withdraw, decline, stage, redo, pull request, merge, cited close | an ending never contradicts the money; parties act on the row they saw |
| Live clocks, `app.ts` 6390-6539 | none | run on every load; no scheduler exists | a hire ends within its windows if somebody looks |
| Payment doors, `app.ts` 8684-10033, `adapters/payment/route-support.ts` | what holds a leg | start, wallet-response, accept-short | a leg is payable once, on one rail, at the agreed price |
| ERC-20 settlement, `adapters/payment/erc20.ts` | spent, half-paid and settlement rows | legStatus, confirmLegs | a settled leg is paid; one transfer backs one leg |
| ABT on Ethereum, `adapters/payment/abt-eth*.ts` | quote locks, short rows | lock, judge a late transfer, accept | a quote is honoured; the owner decides about a short payment |
| ABT DID Connect, `abt-did-connect.ts` | wallet sessions | start, prepareTx, onAuth | one broadcast for a leg |
| The paying page, `web/public/js/usdc-wallet.js`, `deposit.js` | localStorage, tabs | pay, retry, resend, check again | nobody pays twice |
| Sibling jobs, `app.ts` 5564-5900, 7477-7760 | several rows | create together, confirm one, sweep the rest | at most one is hired |
| Storage drivers, `adapters/storage/` | the tables, or Maps | every repository call | both drivers answer alike |
| Sign-in and signatures, `adapters/identity/` | states, cookies, challenges, sessions, spent signatures | OAuth, passkeys, signed requests | used once, by whoever began |
| Accounts and agents, `domain/account.ts`, `account-proof.ts` | rows, bindings, gists | provision, register, delegate, prove | a login leads to one account for good |
| Receipts, reviews, reports | credential, review, key and report rows | complete, deem, review, report, rotate | a receipt says what happened |
| Conversation, streams, uploads, read marks | messages, streams, places, files, marks | post, edit, react, follow, upload, sweep, mark | nothing is lost, nothing is left over |
| Rate limits | windows in memory | ask | everybody has his own allowance |
| Owner's settings, push switch | the agent's row; subscriptions | edit, switch | the page and the row agree |
| The pages of a hire and its lists | copies in tabs | draw, press | a page charges for what it showed |

The parts meet in three ways. A route loads a row, runs the clocks on its copy, asks
the settlement gate, and writes the whole row back. A payment route judges a report
against the chain and writes spent, half-paid and settlement rows, which the gate and
the clocks read. A page draws what it read, and its press reaches a route that judges
what is stored by then. The hard behaviours are listed line by line under `hazards`:
requests whose checks and writes are awaits apart, money that arrives half, late or
twice, two writes of which one fails, memory that a restart empties, pages that act on
what is no longer so.

## Modules

**The hire.** `JobDomain` is `domain/job.ts` without state: `CanX(j)` is the guard of a
function, the operator beside it the row it returns; `LapsedStatus` is `applyLapses`.
`HireContract` is abstract: what one hire promises, in four variables.

`HireLoop` is one hire end to end when requests do not overlap: one action per route,
on a row the clocks leave as it is, since the load that lapses a row ends it and the
route then refuses. The clocks are actions of their own (`LapseOnLoad`, `DeemOnLoad`,
`CompleteOnLoad`, `RetryDeemedCredential`) because any load runs them and writes the
result. A write that may fail after another succeeded is one action with both results.
The world is part of it: pushes, merges, closes and reopens, and days.
`Contract == INSTANCE HireContract WITH ...` is the refinement.

`HirePages` extends it by the pages the hire is worked from. A page asks for the job,
the latest attestation and the payments at once and is answered in any order; the work
it shows is that of the attestation, which is not always the row's; and it goes on
drawing controls while the hire moves on elsewhere. `JobLists`
adds the seven lists that tell whose turn it is; they keep nothing.

`JobRoutes` is the same routes taken apart: `Load`, `RunClocks`, `WriteLapsed`,
`AskMoney`, then `WriteRow` or `Record`, each request with its copy of the row.
`WriteRow` is the blind whole-row update. `SiblingJobs` is the brief that opens several
jobs, the confirm that looks at the siblings before it writes, the sweep after it, and
the requests of the exchange (propose, accept, decline, withdraw), which load a row, ask
about its deposit and write it back whole, whatever happened to it in between.
`AgreementPages` is the agreement as two seats write it: lines known by their place to
the one who signs and by their words to the one who revises. A press remembers what its
page showed; what is signed is what the server finds at that place when it is reached.

`Receipts` is what is left once the pull request is open: outcome, credential, review
and compromise reports, every await able to fail and the process able to die.

**The money.** `Erc20Legs` is one report taken apart (`Arrive`, `LookUp`, `RecordSpent`,
`MarkHalfPaid`, `RecordSettlement`, any of which may be the last: `Lose`).
`AbtEthQuotes` is the rail whose price is a quote: locks, expiry, the rate read now,
short payments and the owner's answer. `Checkout` is the paying side: tabs, the
device's record, the browser wallet's two transfers, the DID wallet's session.

**Who is who.** `SignIn`, `Registry`, `RateLimits`.

**The conversation.** `Conversation` (messages, streams and their caps, the page that
makes up for a lost stream; what is posted or changed is stored in one step and broadcast
in a later one), `Uploads` (quota, files, sweep), `Inbox` (read marks).

**Settings and storage.** `AgentSettings`, `PushSwitch`; `StorageCalls` (what is asked
of a repository), `StorageContract` (what either driver promises), `StorageDrivers`
(what the two do, statement by statement on PostgreSQL, where the row of an agent and
its rotations are read apart; `Contract!Spec` is the run's property).

**For TLC** each run has an `MC` module. A run checks several modules where each is
small: `MCJobs`, `MCDeals`, `MCIdentity`, `MCRegistry`, `MCAbtEthQuotes` and `MCUploads`
set two or three *scenes* side by side, which share no variable; a behaviour is of one
scene, chosen at the start. Their properties say which scene they are of.

**Proofs** are in `HireLoopProofs`, `JobRoutesProofs`, `Erc20LegsProofs`,
`AbtEthQuotesProofs`, `CheckoutProofs`, `SignInProofs`, `RegistryProofs` and
`UploadsProofs`. A scene is proved where the module of its run is extended: SiblingJobs
and AgentSettings in JobRoutesProofs, AgreementPages in Erc20LegsProofs, PushSwitch in
AbtEthQuotesProofs, Receipts in SignInProofs, Inbox in UploadsProofs.

Abstractions. A criterion is its text; a price stands for the pair (USD, delivery
window), except in AgreementPages, which tells them apart; a commit, a transfer, a
signature is a value. Time is days in the hire, an abstract clock elsewhere. A spec
digest is the record it digests. Every action is open to the party the code lets take
it. A failed read or a 4xx that changes nothing is a stutter. Some definitions have a
broken twin beside them (`KnownFromServer` by `Known`). Only the mutation tests of
PROJECT.json use those: every property of every passing run is violated when the named
definition is replaced by its twin.

History variables (`overlapped`, `overtaken`, `orderly`, `faults`, `raced`, `dropped`,
`missed`, `crossed`, `torn`, `behind`, `pressed`, `walked`, `undone`, `vouched`) record
what the code does not guard against, or what has been shown. No action reads them;
properties do, to say which behaviours they are about.

## Runs

| Run | Bounds | Shows |
|---|---|---|
| `hire_terms` | two lines, two prices, three rails, windows that close overnight, one tab of either party on hires of one line, confirmed to submitted, on the rail that can be half paid and short | a deposit seals the terms; held money finishes as it was started; endings agree with the money; pages charge for what they showed and offer what is taken; lists tell the turn |
| `hire_delivery` | one line, one price, the rail that can be half paid and short, two commits, one redo, days 0 to 7 | honest receipts; hires bounded; the contract kept; every hire ends |
| `jobs` | two requests on one job; two siblings and a request of the exchange across every step of brief, confirm and sweep; two tabs, two calls and one asker over one agent | what overlapping requests cannot break; one hire for a brief, which only its buyer leaves; the owner's word holds |
| `deals` | two reports, two legs, two transfers that fit several of the four roles; two seats, two requests, up to two lines, three presses that overlap and two more one by one | settled legs are paid; half-paid rows are honest; a signature stands on the words its seat pressed on |
| `storage` | two callers, two ids, three calls (four on one agent), either driver | each driver implements the storage contract |
| `identity` | two browsers, two states, one passkey, one signature presented twice; two requests over one receipt | round trips come home; a signature is used once; outcomes are honest, and healed |
| `registry` | one login, three DIDs, two visits and a check, three requests under way at a time; two callers at the rate limits | rows are their owners'; a login leads to one account; limits are fair |
| `abt_eth_quotes` | two locks, two price transfers and a fee, two reports, two amounts and two rates, six of the seven locks, transfers and requests; two tabs of two accounts at the push switch | quotes are honoured; settlements stand; the switch tells the truth |
| `uploads` | three uploads on two threads, one message; one tab over two lines and two marks | the quota is kept, no file is lost or left over; what counts as read was shown |
| `conversation` | one message, one page, three connections against a cap of two, two edits or reactions, four edits and streams in all | changes stand; a live page is current; places come back; a lost stream is made up for |
| `checkout` | two tabs, four transfers, one session, three presses, at most one fault, and then three transfers | nobody is charged twice; no money is forgotten |
| `paid_sibling` | two siblings | *violation*: job.ts says a proposed job whose deposit settled takes no withdraw; the sweep withdraws it |

Why the bounds suffice. Lines and prices matter only as "kept" or "changed", so two of
each; rails as same, other and none. Two commits tell the attested one from another.
Windows are shortened but keep their order, and `MaxDay` passes the sum of all of them,
so each clock has its last day and the day after. A race is one handler's read against
another's write, which two requests show; of siblings the confirm of either is a request
of its own beside the one of the exchange. In `deals` the two transfers pay overlapping
sets of legs and roles, so that the same hash is plausible twice; in `abt_eth_quotes`
the amounts and rates make one payment worth more, as much and less than was agreed.
Three uploads fill a cap of two and are refused by it; three connections likewise.
`checkout` stops at the second fault, after which its properties promise nothing, and
at three presses: a failure, a retry and one more.

Some runs leave out combinations that add states and no case. `hire_terms` opens a page
only on hires of one line on the ABT-on-Ethereum rail, from the confirmation to the pull
request (`PagesOfSmallHires`). In `jobs` the calendar moves only once a hire is
confirmed (`NightsOfAHire`), because no clock reads it earlier; a brief's switches are
followed until it is checked and a notice until it is written, which nothing reads
again, its exchange begins once the brief is answered or failed or between two of its
rows, and two confirms that overlapped, which the properties excuse, end what is
followed (`OneBriefAtRest`). In `deals` two requests overlap in the first three presses,
and the last two go one by one, on one line and between seats that have signed nothing
they were not shown (`FewPresses`); one transfer is looked up by two reports at once
(`OneOverlap`). The fourth call of `storage` is about one agent whose listing alone was
set (`FourOnOneListing`): created, set, rotated and read is what it takes to be answered
with a row and rotations that never stood together. `registry` has three requests under
way (`ThreeAtOnce`), `abt_eth_quotes` six of its seven locks, transfers and requests
(`SixInAll`), `conversation` four edits and streams, and edits beside streams of the
conversation only (`FourInAll`); `checkout` counts its fault among four transfers
(`OneFault`). Larger bounds were checked during development. `MaxDay`,
`MaxAttestations`, `MaxCalls`, `MaxReports`, `MaxRequests`, `MaxPresses`, `MaxChanges`,
`MaxMarks`, `MaxNow`, `MaxTime`, `MaxLines` and `MaxConnections` are the other bounds
that are not the code's. What is proved needs none of them.

Symmetry is used where values are interchangeable, and in no run that checks liveness.
Deadlock is checked in `storage` and `conversation`; the other runs stop by design: a
hire that is over, a press that was the last.

Fairness. `HireLoop!FairSpec`, for `EveryHireEnds`: weak fairness of `Tick` and of the
three clock actions. Days pass; and since every list and page that shows a job runs the
clocks (`liveLapsesForList`, `GET /jobs/:jobId`), somebody looks. The code has no
scheduler, so this is an assumption about readers and is named as one. Nothing is
assumed of buyer, agent or GitHub. `Conversation!Fairness`, for `LostStreamIsMadeUp`:
the page's own interval fires, what the server answered arrives, and a broken stream is
noticed, which is what `setInterval`, `fetch` and `EventSource` provide; nothing is
assumed of the other party or of the server's process.

## Proofs

TLC shows a property on the instances above; the theorems hold for every value of the
constants that meets the named assumptions: any number of tabs, transfers, requests,
lines, locks, any amount, rate and length of window. Each proof module states at its top
the invariant it rests on, which TLC checked on the bounds of the run before it was
proved action by action.

**HireLoopProofs.** The invariant `IInv` follows the money from the report that brought
it: a row with a confirmation date is past "proposed" (`StageOfHire`), its remainder
cannot have settled before (`RemainderMoney`), a settled or held deposit is at the
row's price and on a rail it allows (`DepositMoney`), a short payment the owner accepts
settles on the rail it was held on (`ShortOnEthereum`). From it: `AgreementSealed`,
`EndingTellsPayment`, `PaymentFinishedAsStarted`, that no request can record a hire
stale, and `HireKeepsContract`, the refinement, step by step. `HireReceiptsAreHonest`
adds what an open pull request, a merge and the two writes of an outcome can be
(`Receipts`), `HireStaysBounded` adds the sum of the windows a row can still be inside
(`Windows`): the allowance of redos is a parameter, so the bound is a lemma about a
product. `PagesAreRequests` says that everything the pages do is a step of the hire, so
that all of the above holds behind them; `PagesShowPaidWork` follows what a page read of
the row (`StagedSince`) and of the attestation, before or after it (`ShownWork`), to the
press: the row has left "staged", was sent back since, or still has the work the page
shows, unless its attestation came from a restage that failed halfway. `PagesOfferTheirRoutes`
needs what an offer on a row can be (`OffersAreReal`), and it and `ListsAreTrue` that a
status determines what the lines, the price and the legs can be.

**JobRoutesProofs.** A blind write can put back any copy, so the invariant says of every
copy in flight what it says of the row (`RowIsRight`), relative to what is settled;
settlement rows are replaced and never deleted (`NothingUnpaid`), so a copy that was
right when loaded stays right. The one step that needs the answer in flight is decline.

**Erc20LegsProofs.** The invariant follows a transfer from the step that judged it
through the status the report carries to the row that counts it; `CountsStays` is the
lemma that it goes on counting, and `RecordsMeetOverlapped` says why it can stop only
for a transfer that two reports looked up at once.

**AbtEthQuotesProofs.** What a settlement is worth is decided when the chain is read and
written later; the invariant carries the judgement (`Worth`) from the one to the other,
and nothing it rests on is taken back. `QuotesAreHonoured` holds whatever overlaps.
`LegsComeToStand` is about a leg whose requests came one at a time (`orderly`): then
what a request read at its door still holds when it writes (`OrderlyLeg`).

**CheckoutProofs.** The page asks the wallet for one transfer more only if what it knows
is all there is (`KnowsAll`): what may still land is in the device's record, or about to
be (`Remembered`), and the server's half-paid row, which is believed before that record,
disagrees with it on no live transfer, because a row exists only when one of the two
transfers it names has landed (`ChoiceKnowsAll`). This takes one attempt at a time
(`OneAttempt`), and for the DID wallet that nothing is alive when it broadcasts
(`OtherRail`). `NobodyIsChargedTwice` and `MoneyStaysRemembered` follow.

**SignInProofs.** A state token stands in the cookie of the browser that asked for it and
in no other, so what the callback lets through that cookie is that browser's; a minted
state keeps its browser and purpose, and a spent signature stays spent.

**RegistryProofs.** What a request has read must stay true until it writes: rows exist on,
standing logins stay, what was vouched for stays vouched for; what may stop being true,
that nobody else claims its DID, is on record in `overlapped`. `IdentityIsStable` is the
action property that a login never moves from one account to another.

**UploadsProofs.** An upload under way is counted in the rows or in the places of the
jobs and accounts, and a count that overlaps the release of a place is read again
(`CountsHold`): hence the quota. Every file has somebody who knows of it: its request,
its row or the sweep. What a post has checked is there while its hour lasts
(`ChecksHold`), and the sweep is never removing what a stored message carries, save what
was checked within that hour (`SweepHolds`): hence that files stay and none is left over.

*The scenes.* `BriefInv` (SiblingJobs) says which rows a brief has and of whom they were
told (`RowsOfBrief`), what a confirm in flight has read of the siblings
(`ConfirmsInFlight`), what the copy that a request of the exchange carries can be
(`ExchangesInFlight`; an older copy written over a confirmed row is on record in
`undone`), and that two hires need two confirms that overlapped (`OneChosen`).
`OwnerInv` (AgentSettings) says of every tab that was told of every write: either it
shows the row, or one request of its own has written the column and the answer will say
what the row says (`InStep`); and that whoever asks while a switch is on has its leave
(`LeaveKept`). `AgreementInv` (AgreementPages) says of the marks on the row and on every
copy a request has read that their seat pressed on those words, for seats none of whose
signatures landed on words its page had not shown (`UpToDate`), and that every press to
sign is remembered with what its page showed. `SwitchInv` (PushSwitch) says what a tab
that nobody overtook shows, while its request is under way and after. `ReceiptInv`
(Receipts) says what every request has read of GitHub and of the row by its step
(`CallsInOrder`) and that row, credential and review agree up to the write that is still
to come (`RowsAgree`). `InboxInv` (Inbox) is about instants: what a mark covers of the
messages there were at its stamp (`StampsCover`), that whatever an open page shows is
recorded as read or on its way to be (`ShownIsMarked`), and what a list knew when it was
counted (`ListsAreClear`). The theorems about the runs' properties are of the
specification with the scenes side by side, by the lemma that a step in a scene is a
step of its module.

Assumptions on constants, all named in the modules: windows are naturals, and the review
window is shorter than the stale mark (7 and 30 days in the code); rails are among the
code's three, and at least one exists where pages are drawn (`PayableAssumption`);
`None` is no value of another kind and no stored row (`RowsAssumption` and its like,
`SiblingsAssumption`, `OwnerAssumption`, `SwitchAssumption`, `AgreementAssumption`,
`ReceiptsAssumption`, `ReadingAssumption`); "usdc", on which SiblingJobs settles its
deposits, is a rail of the deployment; messages and uploads are finitely many; a derived
DID belongs to one login (`RegistryAssumption`: it is the address of a key made from the
login); a tab is no wallet session. TLC evaluates each of them.

What proving changed. `Outcome` of Checkout and `OfferState` of JobLists were CASE
expressions whose guards overlapped, which means an arbitrary choice: they are IF chains
now, as the code is. `MoneyIsRemembered` was false beyond the bounds of its run. With
five transfers and five presses TLC finds it: a second tab resends a failed price, its
record is lost, the half-paid row names what it sent; a stale tab resends the price once
more and stores that; the next attempt believes the server's row and writes it over a
record whose transfer may still land. The property now excuses a device that failed to
write its record. Two
assumptions came out of failed proofs: a derived DID is one login's, and a deployment
whose pages offer a payment has a rail to pay it on (see below for one that has none).
A finished upload kept the locals of its request, which made states that differ in
nothing alive; the model forgets them now. A mark of Inbox named the messages of the page
before its stream was opened and left out those it had just drawn; with what it draws the
property is stronger, and true.

Only model-checked, and why:

* `EveryHireEnds`, `LostStreamIsMadeUp`: liveness under fairness is outside the prover.
* `DriverKeepsContract`: the refinement of the storage contract, over sequences of calls.
* `LimitsAreFair` (RateLimits): it counts the requests in a log, and what a filter leaves
  of a sequence is defined by recursion, which needs induction over data.
* `ChangesStand`, `LivePageIsCurrent`, `PlacesComeBack` (Conversation): within the
  provers' reach, but not proved yet.

`TypeOK` of every module was checked by TLC during development; where there is a proof
module it is a theorem.

## Where the code and its own words disagree

`paid_sibling` is the one of these kept as a run; PROJECT.json quotes the line. The
others were met while modelling, most of them as counterexamples TLC found to a stronger
property than the one now stated.

*Rows and money.* A half-paid row goes, too, when a later report confirms neither
transfer (erc20.ts:261). "Never recorded for another leg": lookup and
upsert of a spent transfer are two awaits (erc20.ts:184). The gate is asked an await
before a decline, withdraw or proposal is written (app.ts:7872), and an update is
unconditional, so an older copy can revive a final row (prisma.ts:715); a
`closed_unpaid` or `staged_declined` row beside a remainder that settled meanwhile is
possible for overlapping requests, which is why `EndingTellsPayment` is stated of
HireLoop only. A restage whose row write fails leaves the latest attestation ahead of
the row (app.ts:8121): if the owner then refuses the redo, the row is staged again at its
earlier commit, and the buyer's page, which draws "the document the buyer currently
decides against" (storage/types.ts:474), shows a commit and a diff that the balance does
not buy; `PaidWorkWasShown` excuses it as `HalfStaged`, and without the excuse TLC finds
it. A propose, accept, decline or withdraw that loaded its row before a
confirm was written puts the row back as it was, and the hire is gone with nobody walking
(app.ts:6627). Two confirmed pairs reported for one leg replace the settlement
and with it the instant the delivery clock starts from. A held quote's price can be
changed by a second start (abt-eth-quote-lock.ts:29-31). Once a process died between
credential and row, a job is completed without its credential until it is loaded again.

*The deposit page.* It says every line needs both signatures before the deposit can be
paid (deposit.js:82); the settlement routes ask only for the job's status. It reads the
agreement once. With no rail configured the line pinned above the conversation still
sends the buyer to a page that then offers nothing (deposit.js:116-126).

*Paying.* Five things can make a buyer pay twice, and `faults` names them: two attempts
at once, a wallet's answer that was never written down, a Send again while the failed
transfer's replacement is alive, the other rail while a transfer of this one is on its
way, and a broadcast whose record failed.

*The agreement page* signs the line at a place on the list and the terms it sends, both of
which another tab or the other seat may have changed since the page was drawn
(agreement.js:304, 482-488): "This agreement changed since the page loaded. Reload the
page" (504) is what it says on a 409, which the routes answer by the job's status alone
(app.ts:7384-7416). `behind` names the seats this has happened to; of all seats
`MarksStandOnTheirWords` is false, as TLC shows. The page also drops a line it does not
show (agreement-edit.js:150).

*The hire's pages.* job.js does not hide the agreement and staging calls when it draws
again; no page asks GitHub about a `stale` hire, which is listed under what was not
shipped though it can still complete; a second tab of the buyer may pay for work restaged
after its own redo; with a half-paid balance redo and decline are offered and refused;
whose turn it is ignores the price; a hire whose balance is paid stays under "Waiting on
you" (job-list.ts:68-73); the dashboard shows five of each section.

*Storage.* `job.update` leaves the merge columns alone in PostgreSQL and replaces them in
memory; a DID session is read, merged and written; `spends.record` overwrites in memory
where PostgreSQL answers P2002; promotion clashes, upserts keep or replace an id, lists
order differently, and reading an agent takes two statements, between which it can
be rotated: the answer is then an older row with later rotations. The contract states the
freedoms under which both comply.

*The conversation.* What is stored is broadcast later, as it was when the handler wrote it
(app.ts:2801, 2870, 2927): a reader who reacts before the broadcast of a new message loses
the reaction from the live page, and two changes can be broadcast in the other order. A
reaction reads the message and writes all reactions back, so that of two at once one is
lost.

*Reading.* A mark is called monotonic (message.ts:405), but the route reads, advances
its copy and writes blindly (app.ts:3020); a page hidden while it loads and looked at
again marks what it has not drawn (messages.js:2205).

*Push.* "The browser and the server never disagree": a lost answer leaves a row nobody
shows, another account's 409 unsubscribes this one's device, signing out unsubscribes
nobody, and a failed unsubscribe is swallowed.

*Settings.* "Nothing changed" is said of writes that landed; two avatar saves may leave
"Saved" over another avatar; the form sends all four fields, so a second tab undoes the
first; a request admitted before a switch went off is still carried out.

*Rate limits.* A restart forgets every count; a limit of zero lets one request through;
two windows' allowance fits into the span of one.

## Not modelled

* Configuration and start-up: read once; what a deployment configures is a constant.
* Sending: notifications, push and webhooks go out best effort after the row is written,
  and nothing waits for them.
* Pure projections: browse, diversity, work records and the public pages.
* Cryptography: signatures, credentials and the DID wallet's handshake are taken to be
  valid or not.
* `request-changes` of the pull request writes a thread line and nothing of the row.
* Access to a job (`canAccessJob`) is a stateless decision over the account.
* Two sweeps of uploads at once (they are ten minutes apart), and passkey subjects in
  Registry (names the server makes).
