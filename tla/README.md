# FuelChain: a TLA+ verification project

FuelChain follows a batch of fuel from import to service station. This project
models in TLA+ how a load changes hands, by QR code and by the sticker on the
cistern, and what surrounds a trip: the office, the stations' views, contracts,
the road that is told, sessions, membership, the screens, the seed. TLC checks small
instances, and TLAPS proves the main safety properties for every instance.

```
tlc -workers 2 -config MCCustodyQr_serial.cfg MCCustodyQr      # a run (below: every run)
tlapm CustodyQr_proofs.tla                                     # the proofs; also OfflineSync_proofs,
                                                               # Anchoring_proofs, Road_proofs,
                                                               # Desk_proofs, Screens_proofs,
                                                               # Portal_proofs, SumTheorems
```

## 1. The system

A NestJS API (`src/apps/api`) keeps everything in PostgreSQL through Prisma; a
Next.js client (`src/apps/web`) calls it; a Solidity contract (`src/contracts`)
stores hashes of receptions.

| Component | State | Operations | Talks to |
|---|---|---|---|
| Custody QR (`custody-qr.service.ts`) | baton, delivery, cistern, tank, batch, settlement rows | `issue`, `getBaton`, `accept` | accounting and status rules; follow-up after commit |
| Deferred sync (`syncOffline`, web pages `q/[token]`, `verify`) | `OfflineSyncEvent` rows, `fc-offline-queue` in `localStorage` | enqueue, upload, apply | `accept` |
| Batch rules (`common/batch-status.ts`) | none | `canTransition`, `canIssueQr`, `canReceiveBatch` | used by every writer of `FuelBatch.status` that asks |
| Accounting (`common/delivery-accounting.ts`, `tank-inventory.ts`) | none | remaining litres, capacity, stock delta, withdraw | used by issue and accept |
| Cistern sticker (`cisterns.service.ts`) | the same delivery, cistern, tank and batch rows | scan, `receiveAfterScan` | a second path to a reception |
| Checkpoints (`checkpoints.service.ts`, `common/journey-trail.ts`) | `RouteCheckpoint` rows; the cistern row | `create`, lists, drops, quality changes | the sticker, the QR, the movements page |
| Settlements (`settlements.service.ts`) | `DriverSettlement` | list, `markPaid` | written by a reception |
| Anchoring (`blockchain.service.ts`, `FuelChain.sol`) | anchor rows; append-only contract | best-effort anchor, retry, verify | called after a reception |
| The office: batches, custody events, customs, audits, anomalies | `FuelBatch`, `CustodyEvent`, `Anomaly`, `AuditCase` | register, edit, remove, record, follow up, hold, review | the rules above, or none |
| Stations (`stations.service.ts`, `tanks.service.ts`) | tank, measurement; acknowledgements of a delivery | public map, panel, contracts | the rows above |
| Reconciliation (`batches/*reconciliation.ts`) | none | verdict on a movement, figures of a passport | custody events, sensor |
| Sessions and roles (`auth/`, `role-access.ts`, `auth-gate.tsx`) | token; the tab and `localStorage` | login, logout, gate, guards | every controller, every page |
| Screens (`supervision-panel.tsx`, `qr-scan-button.tsx`, `escanear/page.tsx`) | the department chosen, loads under way; scanners, cameras, the history in `localStorage` | choose, answer; scan, photograph, leave, clear | the API, the browser's camera and detector |
| Membership page (`use-unlock-membership.ts`) | wallet, key, checks under way | connect, check | the wallet program and a network |
| Seed (`prisma/seed.ts`) | every table | reset and fill | everything starts from it |

What is hard about it: every handler is a sequence of awaited database calls, so
two requests interleave between any two of them; most rows are read, computed
with, and written back as absolute values, inside or outside a transaction that
runs at READ COMMITTED; several writers touch the same batch, cistern and tank;
a phone retries what it cannot know was done.

What makes each component correct:

* custody QR: a baton is received once and as a whole, where it was sent; stocks
  stay within bounds; the books agree with the custody events; one open trip
  per cistern; a batch is not over-dispatched and does not go backwards;
* deferred sync: no captured reception is lost, none is applied twice, an
  outcome is final and true;
* sticker and checkpoints: the same trip is not received a second time, a late
  sample does not undo a reception;
* anchoring: what is confirmed is on the chain, a retry does not anchor again;
* the status of a batch only moves forward, and an audit hold is lifted by an
  auditor only;
* settlements: one per delivery, for the litres received, paid once;
* the office: a fresh code, an anomaly for every reception out of tolerance, no
  status that goes back for nothing;
* stations: citizens and supervisors see the same station; who has a contract
  can acknowledge it, and only the parties can;
* the road: what is told of it adds up, whatever order samples arrive in;
* sessions: the client offers nothing the API refuses for the role (with one exception, below), and its
  redirects end;
* membership: no page unlocks for another wallet's key;
* screens: an answer that comes late does not replace what was asked for since, and no
  camera stays on for a page that was left;
* the seed: a world that adds up, also after it was killed and run again.

`PROJECT.json` lists the hazards one by one, each at its line.

## 2. Modules

| Module | Models |
|---|---|
| `BatchStatus` | the lifecycle predicates of `common/batch-status.ts` |
| `Accounting` | the arithmetic guards of `delivery-accounting.ts`, `tank-inventory.ts` |
| `CustodyQr` | `issue`, `accept`, expiry, opening an audit: the handlers as interleaved processes |
| `Handoff` | the abstract promise: a token opens once, is received at most once, then never changes |
| `CustodyQr_proofs` | TLAPS proofs about `CustodyQr` |
| `OfflineSync` | the phone's queue, its uploads and `syncOffline` |
| `OfflineSync_proofs` | TLAPS proofs about `OfflineSync` |
| `FuelChain` | the contract: the list of anchors and the index of each batch |
| `Anchoring` | attempts to anchor, the index in the database, the verifier |
| `Anchoring_proofs` | TLAPS proofs about `Anchoring` and `FuelChain` |
| `Road` | the sticker's scan and reception, road samples, payment, beside the baton's reception |
| `Road_proofs` | TLAPS proofs about `Road` |
| `Desk` | the office: registration, edits, custody events and their follow-up, customs, audits, anomalies |
| `Desk_proofs` | TLAPS proofs about `Desk` |
| `Reconcile` | the verdict on a movement and the figures of a passport; used by `Desk` and `Seeding` |
| `Stations` | the level and quality of a station, as the map and as the panel compute them |
| `Sorting` | what a database or a page does to a list: puts it in an order, keeps some of it, takes the first; used by `Stations`, `Journey`, `Screens` |
| `Contracts` | the acknowledgements of a trip by its two sides |
| `Roles` | the API's and the client's tables of roles |
| `Access` | the session of a tab: login, restore, gate, guards |
| `Journey` | samples stored in any order, and the four places that tell them |
| `Membership` | the asynchronous checks of the membership page |
| `Screens` | the loads of the supervisors' panel; the scanner, its camera and its history |
| `Screens_proofs` | TLAPS proofs about `Sorting`, `Stations`, `Screens` |
| `Seeding` | the reset and the seed, statement by statement, with crashes, repetitions and the API beside it |
| `Portal` | `Desk` … `Screens` side by side |
| `Portal_proofs` | that a behaviour of the whole is one of each part; TLAPS proofs about the parts as `Portal` runs them |
| `SumTheorems` | what a sum over a finite set does when an element is added or grows, and what its parts add up to; used by three of the proofs |
| `MCCustodyQr`, `MCOfflineSync`, `MCAnchoring`, `MCRoad`, `MCPortal` | constants for TLC |

### CustodyQr: state and code

`baton`, `leg`, `receipts`, `measured`, `receivedAt`, `delivery` and `settlement`
are the rows one token has in `CustodyBaton`, `CustodyEvent`, `Delivery` and
`DriverSettlement`. `batch`, `cistern`, `tank` and `depot` are the columns of those rows
that guards read and handlers write. `pc[r]` names the next database call of
request `r` and `work[r]` holds what it has read so far.

| Action | Code | What happens |
|---|---|---|
| `IssueStart`, `IssueQuota`, `IssueCistern`, `IssueTrip` | `issue`, before `$transaction` | four reads and their checks, each a step of its own, because another request can commit in between |
| `IssueLoad`, `IssueCommit` | inside it | the cistern row is locked, the depot read; then the batch row is locked and all is committed |
| `AcceptStart` | `accept`, row found | status, time and destination checks |
| `AcceptEmbedded`, `AcceptMint`, `AcceptCheck` | `accept`, no row | the row minted from the printed code, or the other request's row after a unique violation |
| `AcceptConsume` | `updateMany … ACTIVE` | the baton row is locked, or a conflict; the batch row is read |
| `AcceptSettle`, `AcceptUnmeasured` | batch, delivery, settlement | the batch row is locked, the cistern read; or staff without quality readings are refused, which rolls back |
| `AcceptUnload` | cistern | locked if something is unloaded; the tank is read |
| `AcceptCommit`, `AcceptOverflow` | tank, commit | everything becomes visible at once, or the tank is full and nothing does |
| `Expire`, `Elapse` | `getBaton`, `accept` | an elapsed baton is marked; the 72 hours pass |
| `AuditCreate` | `audits.service.ts create` | the batch is put on hold |
| `Abort` | process, Prisma limit, deadlock detector | the request dies; an open transaction leaves nothing |

Writes of an open transaction are invisible, so a transaction's writes appear in
the action that commits, with the values computed from the earlier reads in
`work[r]`: this is how a lost update shows. Locks are not state of their own:
`HoldsBaton`, `HoldsBatch` and `HoldsCistern` derive them from `pc`. A plain read
locks nothing at READ COMMITTED, and neither the depot nor the tank row is
locked before commit, so `IssueCommit` and `AcceptCommit` overwrite them blindly.

Two details are easy to get wrong and are modelled as the code has them: the
batch row a dispatch read as `AUTHORIZED` is set to `IN_TRANSIT` whatever
it is by then; and a batch that received part of its litres becomes
`DISTRIBUTING`, from which, `RECEIVED` being earlier in the forward order, the
last part does not bring it to `RECEIVED`.

A station without a tank has no stock that could refuse a report, so there a reception may measure
fewer than zero litres; the driver is then settled for zero (`Settled`), as `settlementCreateData` does.

Abstractions: one unit of litres stands for a quantity far above the code's
tolerances (0.001 L and 1 L); density, temperature, telemetry and checkpoints
written beside a trip decide nothing and are left out; signatures are right or
wrong by kind; `LOADED` deliveries and `REVOKED` batons are never written by
this code.

### OfflineSync: state and code

`capture` is what a person saved, `queue` the phone's `localStorage`, `row` the
status of `OfflineSyncEvent`. An upload `u` is one execution of `syncOffline`: `step[u]`
is its next call (`Lookup`, `Insert`, `Check` and `Consume` for `accept`, `Record`), `todo[u]` the events left.
`LoseAnswer` and `Die` are the network and the process; `Answer` is the page that
replaces the queue with `[]`. `busy` and `died` are history: what was saved
during an upload, and what some handler was working on when it died.

`Die` also stands for a request refused before the handler: `main.ts` installs a
validation pipe with `whitelist` and `forbidNonWhitelisted`, and the body of
`POST /custody-qr/sync` is a class without decorators. Whether a deployed build
refuses every body is up to that library; the model allows both.

The payload of a printed code is always embedded in an event. If it has elapsed, `accept` usually throws
by its printed time before it looks for the row, and marks nothing; `Check` allows both. An event that is not an
`ACCEPT_BATON` is recorded as applied without an accept: the pages enqueue none, and it is left out.

### Anchoring: state and code

An attempt is one execution of `anchorCustodyReceivedBestEffort` (after a
reception, or a retry) or of `anchorLive`. `step[a]` names its next call: `Find` is
`findReusable`, `NotReady` and `Ready` are `chainReady`, `Send` and `Receipt` are
`writeContract` and `waitForTransactionReceipt`, `Index` is the `upsertIndex` of
success, `Stamp` the update of the event; `Throw` is any exception and `Mark` the
`upsertIndex` of the `catch`. `index` is the table `BlockchainAnchor` and `newer` the order of
its timestamps: every write of a row moves it to the front. `Mine` is the chain, which
mines what was sent in any order, whether or not anybody still waits.

The row of the `catch` is looked up anew and overwritten as a whole. So a failure can
erase a confirmation: that of an overlapping attempt, or the attempt's own if only the
stamp failed. `overlapped` and `troubled` are history: they remember for which
events that could happen, and `RetryIsIdempotent` speaks of the others. A hash
stands for the content it is computed from, which no handler changes. A reverted transaction is
one that is never mined and whose receipt throws.

### Road: state and code

Trips are dispatched; `open`, `baton`, `receptions`, `settlement`, `cistern`, `tank`,
`delivered`, `trail` are columns of their rows. A request goes through `ScanStart`
(`findByToken`, `activeDelivery`), `Upload` (one `RouteCheckpoint` insert, a known
`clientEventId` passed over), `Park` (the cistern takes the last sample), and, for
a reception, `Look`, `Find`, `Measure` (reads of `receiveAfterScan`), `Receive`,
`Fill`, `Count` (its transaction, by the row each locks next). A road sample is
`NoteStart`, `Note`, `Mark`: two statements, no transaction. `PayStart` and `Pay`
are `markPaid`. The baton's reception, detailed in `CustodyQr`, is the one step
`AcceptBaton`. `Abort` may come between any two calls; `promised` is history.

The two paths know nothing of each other: the sticker asks for an open trip, the
baton for an `ACTIVE` one. A trip can be received once through each, and is then
in the books twice; `SettledForTheFirst` says that the driver is still settled
once. A second reception through the sticker is stopped by no check of status: two
requests may both have read the trip as open, and the unique id of the arrival
row rolls the later one back. A sample that arrives after the reception puts the
cistern back `IN_TRANSIT` with its litres, as in the code.

Only a station in `Tanked` has a tank. `Accepts` is what its stock refuses: a report that is not
positive, or does not fit. A station without one takes any report, and its reception passes through
`Fill` without writing a stock. The driver is settled for no less than zero, whatever was reported.

### Desk and Reconcile: state and code

A request of a clerk is `pc[k]` and `work[k]`. `CreateStart`, `CreateLook`, `CreateInsert`
are the count, the look-up and the insert of `batches.service.ts create`; `Read` is
the row every other request decides on, `Edit`, `Record`, `Customs`, `Hold`, `CaseStatus`,
`AnomalyStatus`, `Remove` the statement that writes afterwards; `FollowUp` and `Raise`
are `received-follow-up.service.ts`, which looks an anomaly up and then inserts
one, after the event is committed. `Die` is the end of the process between two
calls. `audits.service.ts create` is two statements, `OpenCase` and `Hold`, so a case may be
open whose batch was never held. `irregular` and `orphaned` are history. The
quantities are litres, as the tolerance of `Reconcile` (half a percent, at least 20) needs.

### Stations and Contracts: state and code

`listPublic` and `listSupervision` are the two functions of `stations.service.ts`: the first looks
for the last trip delivered, the second takes `Window` trips by `deliveredAt`
descending, in which PostgreSQL puts those without one first. A station without a tank has neither stock
nor measurements: the map shows its column of availability, which only a reception into a tank writes, and the panel an
empty tank. So the two agree on the quality of every station, and on the level of one with a tank.
Of a temperature counts only that it is known. An acknowledgement
reads the delivery (`AckStart`) and writes both sides back as it read them, which
an administrator's does for both sides; the times of the acknowledgements, which such a write
may replace, are left out. An assumption says that nobody of a station drives a cistern: `issue` makes its
caller the driver, and the staff of a station may not issue. Such a user would be
shown contracts they cannot acknowledge. A driver of several cisterns has the
contracts of one of them in a session, which one `resolveUser` leaves to the database.

### Roles and Access: state and code

`RolesAllowed` is what the guard of the API asks (`auth/permissions.ts` with the controllers' decorators),
`ServiceTakes` what three services behind it ask of the role once more, and the other tables are
`lib/role-access.ts` and the pages. `requireRole` asks both; `answer` keeps the calls that were refused.
The upload behind a baton's QR (`qrSync`) and the one behind a cistern's (`scan`) have one decorator
and two services: the second takes no `DEPOT_OPERATOR`, to whom the page offers it. `OfferedIsAllowed` excepts
this one call, which the page's own text promises. What a service refuses for the data and not for the role, as a
member of the staff without a station, is left out. `Restore` and `Redirect` are the effects of
`AuthProvider` and `AuthGate`; `OpenPage`, `Follow`, `login`, `logout`, `Call` what a person does;
`Elsewhere` is another tab, which shares `localStorage` only; `Lapse` is a token
that runs out or whose user the seed replaced. A path is its first segment.

### Journey and Membership: state and code

`stored` is the table in order of insertion. `orderedPoints`, `computeVolumeDrops`,
`computeQualityChanges`, `compactTrailForQr`, `parseJourneyTrail` are the functions of
`common/journey-trail.ts` (`Captured` is the order its stable sort gives); `getByQr`, `listForActor` with `groupByJourney`, `listUnlockReport` and
`getBaton` (through the packed trail of a printed code) tell the same rows through windows of their own.
A quality change next to a sample without density goes unseen, in the code too, so the property speaks of
water, which every sample has. Rows without a trip are put together by cistern and batch, as the page does.

`flights` are the membership checks not answered; an answer in any order sets the hook's
state. `overtaken` is history: something was done while a check was out. Then the
page may unlock for a wallet that is no longer connected, and the property
speaks of the other behaviours only.

### Screens: state and code

A click and the effects React runs after it are one step; what is asked for then, an answer
of the API, a camera, a detector's verdict, comes in any later step. `loads` are the effects of the
panel, `runs` those of the scanners, `visit` the mounted scanners with their refs. The clean-up of
an effect marks it `cancelled`; each asks for its mark where the code does and nowhere else:
a load does before it shows anything, a camera once it is granted, but a detector does not after it
has found a code (`acceptRaw` asks for `handledRef` only). So a code may be taken by an effect
that is over, and leads to its page all the same. A photo is decoded on any visit. A failed load
stays on the screen, its buttons gone, until the page is reloaded. Where there is no detector, `jsQR` decodes at
once, which is the detector answering before anything else happens. `remembered` is history.

### Seeding: state and code

`world` has the rows of each table, with the columns that the property compares, and
`main` is the seed's list of statements, a loop over one table being one. `Results` is what a statement
makes of a world, or nothing where the database refuses it: a table emptied, rows added (`Plus`), the first
station's staff posted (`Manned`), the litres delivered booked (`Booked`), samples for the trips on their way
(`Watched`), the loaded cisterns sent out (`SentOut`).
Deleting obeys the foreign keys of the schema; inserting obeys its unique keys. The
process may die before any statement and be started again, from the first; `Touch`
is the API writing beside it.

What the seeded world shows that the property therefore does not claim: after the
seed, batches 181, 182 and 184 exist and new codes are counted from the number
of batches of the year, so the counter comes to 181 if it ever gets that far; cistern
`CIS-CBB-02` is on a trip of batch 182 and its row says 184; the trips of the fleet
have neither baton nor custody event; a trip of 6000 L received as 5950 L is
out of tolerance and has no anomaly; the narrative of `src/prisma/README.md` calls
99 900 L received where the passport shows the last reception, 5 950 L; a station seeded
as unknown is shown as empty, its level being zero.

### Portal

The nine parts share no row that one of them writes and another reads, so
`Portal` lets a behaviour exercise one, `focus`, while the others stand still: an
interleaving of several would reach no state of a part that a behaviour of
that part alone does not. `PortalNext` is this composition and stands for no code. `Portal_proofs` proves the half of this a theorem
needs: what holds of `DeskSpec`, `ContractsSpec` or `MembershipSpec` holds of
`PortalSpec`. The stations, the sessions and the screens are proved about under `PortalSpec` itself.

## 3. Runs

| Run | Question | Instance |
|---|---|---|
| `custody_serial` | is everything exact when requests do not overlap? | 1 request, 2 tokens, 1 batch of 3, 2 cisterns, 2 stations (1 tank), 2 roles, readings −1 and 2 beside the printed litres, an audit |
| `custody_concurrent` | what survives every interleaving of two requests? | 2 requests, 3 tokens (1 printed code without a row), 2 cisterns, 2 stations |
| `custody_progress` | do requests return although they wait for each other's rows? | 2 requests, 1 cistern, fairness, no symmetry |
| `offline_sync` | what can a deferred reception count on? | 2 events, 2 batons, 2 uploads at once |
| `anchoring` | what can a confirmed anchor and a retry be trusted for? | 2 attempts at once, 1 event, 1 live anchor of another batch, 3 transactions, 2 rows |
| `road` | what is left of a trip when sticker, baton, samples and payments race? | 2 requests, 1 trip of 4, 2 stations of 7, staff of each, 1 driver, a logger of 2 samples, 1 note with and without its trip |
| `portal` | do the parts around a trip keep their promises? | below |
| `custody_two_trips` | one open trip per cistern? **violated** | 2 requests |
| `custody_backwards` | `RECEIVED` never back to `IN_TRANSIT`? **violated** | 2 requests |
| `custody_audit` | does an audit hold stay? **violated** | 1 request |
| `sync_lost` | is every saved reception kept? **violated** | 2 events, 1 upload |
| `sync_signature` | is a reception rejected only if its baton is over? **violated** | 1 event |

Properties of the passing runs:

* `OneReception`, `ReceptionIsWhole`, `ReceivedAtDestination`, `ImplementsHandoff`: the
  conditional update `ACTIVE → CONSUMED` and the rollback of failed transactions
  give a one-shot, all-or-nothing handoff at the destination (`custody_serial` checks the second with negative
  reports too);
* `StockWithinBounds`, `BooksOnlyLag`: stale reads lose updates, and yet bounds hold
  and the books never claim more than the events; `BooksExact`: without overlap
  nothing is lost;
* `OneOpenTrip`, `OpenTripIsAboard`, `QuotaRespected`: trips, cisterns and quota
  agree without overlap; with overlap the first is refuted above, and two dispatches of one batch by two cisterns
  can pass its quota;
* `ReceivedBatchIsComplete`, `NeverBackToTransit`: the batch's status;
* `EveryRequestReturns`: liveness in spite of the lock order;
* `OneWorkerPerEvent`, `AppliedIsOver`, `PendingIsExplained`, `KeptUntilKnown`,
  `DecidedIsFinal`: the unique `clientEventId` serialises retries, `APPLIED` tells
  the truth, a `PENDING` row is being worked on or was orphaned by a crash (and then
  stays `PENDING`), and nothing is lost that was not captured during an upload.

* `MatchIsOnChain`, `RetryIsIdempotent`: a confirmation waits for the receipt,
  so `MATCH` never lies, whatever overlaps or dies; retries after failures before
  sending anchor once;
* `OneReceptionPerPath`, `SettledForTheFirst`, `PaidIsFinal`, `OwnStationOnly`: at most one reception through
  each path, one settlement, for the first and for no less than zero, never unpaid again (though a payment that overlaps
  another replaces who paid and when: `markPaid` asks before it updates, and updates by id alone), and nobody receives or
  pays for another station; `UploadIsComplete`: a scan that answered has all its samples on the
  server, although uploads overlap and die; `RoadBooksOnlyLag`: stale reads lose updates, and tank
  and batch still claim nothing no event explains (of a batch, as long as none of its reports is negative);
* `FreshCode`, `AnomalyFollows`, `BackOnlyForAReason`: the office's counted codes collide only after a
  removal or a typed code, or between overlapping registrations, of which one is refused; a reception
  out of tolerance has one anomaly; a status goes back by customs, from a hold, or over
  a status that was not the one read;
* `MapAndPanelAgree`: the two computations of a station's quality, and of the level of its tank, agree while
  fewer than `Window` trips are on their way; `ContractsHold`: contracts shown, acknowledged and kept;
* `JourneyAddsUp`: drops tile the road, the QR and the pages tell the same; `OfferedIsAllowed`,
  `GateSettles`: where a tab can rest, nothing is offered that the API refuses for the role but the depot
  operator's upload, and every tab comes to rest; `MembershipIsOwn`; `SeededWorldAddsUp`;
* `ScreensKeepUp`: the panel comes to show the department chosen last, whatever order its loads are
  answered in; a camera is on only for the page that shows it; a scanner takes one code; the history is the
  codes told last, newest first.

The refuted runs are explained, with the line each contradicts, under `findings`
in `PROJECT.json`.

**Bounds.** Tokens bound the dispatches (`TokenLeft`): the code makes a token of random
digits. Two requests are enough for each race of two; every property compares
at most two parties, and the proofs remove the bound for those listed below.
`Declared`, capacities and volumes are the least that allow a batch to be
dispatched in two parts, a cistern to be full and a tank to overflow. `Audited`
bounds who may be audited. `MaxTx` and `MaxRows` allow a duplicate transaction and a
duplicate row of one event beside the live anchor's. Tokens, requests and cisterns are symmetric in the
concurrent run, in which no property is a liveness property.
Deadlock is not checked: tokens run out, and then the system may stop.

`road`: one trip is enough for its two paths to meet, two stations for one to be
wrong, a tank of 7 for two receptions of 4 not to fit; two samples make an upload that dies in
the middle. Its stations have tanks, where a negative report is
refused; a station without one, and negative reports there, are in `custody_serial` and in the proofs. `portal`: two clerks and four requests (the second registers, edits or
removes while the first is between two calls), one typed code 2, two hand-set
statuses, three kinds of events, two pairs of quantities on both sides of the tolerance;
three trips of 35 % to a station at 5 % (the third does not fit) and a panel of 2 (8 in
the code), a station with a tank and one without, three readings; one user of each of the nine roles, two tokens, two pages asked for; two trips and two
cisterns, one driver of both and one of one; seven samples of which five are
stored, with windows of 3, 3 and 2 rows (200, 80 and 8 in the code); two wallets, one with a key,
four checks; two runs of the seed and two writes beside them; two departments and four loads, two
scanners that run three effects, a history of 2 (40 in the code) and three codes. Its 522 106 states are a union,
one part at a time.

**Fairness.** `EveryRequestReturns` assumes `SF` of a handler's steps (Node runs a
ready handler; a row lock is granted in order of arrival, so a handler does not
wait for ever for a lock that keeps being freed) and `WF` of `Deadlocked ∧ Abort` (PostgreSQL's
detector ends one of the transactions that wait in a circle). No fairness of
arrivals, elapsing, or any other abort is assumed. `GateSettles` assumes `WF` of `Restore` and
`Redirect`: React runs the effects of a mounted component.

## 4. Proofs

`CustodyQr_proofs.tla` proves, for any requests, tokens, batches, cisterns and
stations that satisfy `ConstantsAssumption`:

| Theorem | Statement |
|---|---|
| `TypeCorrect` | `Spec => []TypeOK` |
| `OneReceptionHolds` | `Spec => []OneReception` |
| `ReceptionIsWholeHolds` | `Spec => []ReceptionIsWhole` |
| `ReceivedAtDestinationHolds` | `Spec => []ReceivedAtDestination` |
| `StockWithinBoundsHolds` | `Spec => []StockWithinBounds` |
| `HandoffImplemented` | `Spec => ImplementsHandoff` |
| `BooksOnlyLagHolds` | `Spec => [](NothingNegative => BooksOnlyLag)` |
| `ReceivedBatchIsCompleteHolds` | if no batch starts as `RECEIVED`, `Spec => []((NothingNegative ∨ every batch declares some litres) => ReceivedBatchIsComplete)` |
| `BooksExactHolds` | `Spec ∧ []OneAtATime => []BooksExact` |
| `OpenTripsHold` | `Spec ∧ []OneAtATime => [](OneOpenTrip ∧ OpenTripIsAboard)` |
| `QuotaRespectedHolds` | `Spec ∧ []OneAtATime => []QuotaRespected` |
| `NeverBackToTransitHolds` | `Spec ∧ []OneAtATime => NeverBackToTransit` |

Two hypotheses are about behaviours. `NothingNegative` is that no station has reported fewer than zero
litres: the code accepts such a report, and a reading below zero that another update overwrites
leaves the books ahead of the events. TLC runs one-request instances with a reading of −1, where the
books are exact all the same. `OneAtATime` is that no two requests are under way together, for any
number of requests one after another: tokens expire, audits open, hours elapse and requests die in
between and in their midst. Without it the four properties do not hold: `custody_two_trips`
shows two open trips, two dispatches that both find the litres of one batch exceed its quota, and a lost update leaves the books behind.
`ReceptionIsWhole` needs neither: it says that the settlement has the measured litres, or zero if these are fewer.

The inductive invariants:

* `TypeOK`, which ties the shape of `work[r]` to `pc[r]` (`WorkFits`);
* `TripInv`: `LockInv` (a transaction past the conditional update sees its baton
  `ACTIVE` and holds it alone), `RowInv` (what the rows of one token say together)
  and `PlaceInv` (an accept past its checks is at the destination). `OneReception`
  alone is not inductive: from two handlers in the transaction of one baton it
  would break;
* `StockInv`: the bounds, and `ReadsFit`: what each handler has read and will compute
  with was within bounds, and passed the check of the code, when it was read.
  This is why blind writes cannot leave the bounds: a stale value plus a
  delta checked against that same stale value is still within them;
* `EventsInv`: `TypeOK`, `TripInv` and `StockInv` with `FiniteInv` and `LegsInv`: finitely many tokens are
  dispatched or received, and a dispatched one names a cistern. Everything about sums rests on it;
* `LagInv`: the three inequalities of `BooksOnlyLag`, and `ReadsLag`: what each handler has read of
  batch, tank or depot is behind the events too. The events only grow, so a
  stale value stays behind them, and the litres a handler adds to it are those of its own event;
* `CompleteInv`: a batch that declares litres is `RECEIVED` only with all of them: the count a
  reception writes is the one by which it chose the status;
* `FreshInv`, of `OneAtATime`: what the one handler under way has read of the rows it will write is
  what is there, for nobody else writes litres. With it a step of `BooksExact`, `QuotaRespected` or
  `OpenTripIsAboard` is arithmetic on one row.

The books are sums over finite sets of tokens. `SumTheorems` proves what they need: a sum of integers is
one, equal values have equal sums, and an element that is added adds its value. The recursive definition
of a sum unfolds at an element it chooses; that the choice does not matter takes an induction on finite
sets, done by taking a least counterexample (`WFMin`, strict inclusion of finite sets being
well-founded).

There is one lemma per group of actions and a `QED` by cases over `Next`; the
refinement reuses `TripInv` (`TripStep` says that a step keeps it and is a step or a
stutter of `Handoff`).

`OfflineSync_proofs.tla` proves, for any events, batons and uploads that satisfy
`SyncAssumption`, `TypeCorrect`, `OneWorkerHolds`, `AppliedIsOverHolds`, `PendingExplained`,
`KeptHolds` (`Spec => []` of the property of that name in the runs) and `DecidedOnce`
(`DecidedIsFinal`, an action property). Its invariant adds to the types: `StepInv` (an upload
that records an outcome has one), `OneWorkerPerEvent` itself, which is inductive with the types,
`CaptureInv` (only saved events travel), `VerdictInv` (a verdict of
`APPLIED` names a baton that is over, which it then stays) and `AwaitInv` (an upload
whose answer a page awaits has yet to work off, or the server has the row of, everything saved
while nothing was being uploaded).

`Anchoring_proofs.tla` proves, for any attempts, events, transactions and rows that satisfy
`AnchoringAssumption`, `TypeCorrect`, `MatchHolds` (`[]MatchIsOnChain`), `IndexesAgreeHolds`
(`[]IndexesAgree`) and `RetryIsIdempotentHolds` (`[]RetryIsIdempotent`). `MatchIsOnChain` follows from
`AttemptInv` (an attempt that goes on to write has seen its own transaction mined), `MinedInv` (what is
mined is on the chain), `RowInv` and `StampInv` (rows and events name only mined transactions of their
own hash). `RetryIsIdempotent` needs `RetryInv`: of an event whose attempts came one after another and
failed only before sending, one transaction was sent (`Once`); an attempt about to send or to mark knows
that none was, and as soon as the one that sent is done with its row the verifier finds it (`Turn`), so a
retry finds it too and sends nothing.

`Road_proofs.tla` proves, for any requests, trips, cisterns, stations, users and samples that satisfy
`RoadConstantsAssumption`:

| Theorem | Statement |
|---|---|
| `ReceivedOncePerPath` | `Spec => []OneReceptionPerPath` |
| `FirstReceptionSettles` | `Spec => []SettledForTheFirst` |
| `StaffStayAtTheirStation` | `Spec => []OwnStationOnly` |
| `PaidStaysPaid` | `Spec => PaidIsFinal` |
| `AnsweredIsUploaded` | `Spec => []UploadIsComplete` |
| `RoadBooksOnlyLagHolds` | `Spec => []RoadBooksOnlyLag` |
| `TanksHold` | no tank is below empty or above its capacity |

`RoadInv` adds to the types `HandlersOK` (what each request carries fits its next call: a station
that passed `Find` is the trip's, a level past `Fill` leaves room for the litres), `LockInv` (a trip
is in one transaction at most, and one past the check of its arrival has none yet) and `PathInv`
(a trip's receptions are as many as its arrival row and its spent baton say).
`OneReceptionPerPath` alone is not inductive: it does not know that a second
transaction finds the arrival of the first. `NewestIsOne` shows that the latest of any
trips, finite or not, is one of them, by well-foundedness of `<` on the time that is left.
`UploadIsComplete` needs `UploadInv`: each sample a scan under way carries is stored or still to be sent
(`Sent`), so what it answers for once nothing is left to be sent is stored; no step takes a row away.
`RoadBooksOnlyLag` needs `LagInv`, as in `CustodyQr`: what tank and batch say, and what each reception has
read of them, is behind the events of their trips. At a station with a tank that sum only grows, for
`applyStockDelta` refuses a report that is not positive. Of a batch it grows while none of its events is
negative, and the theorem speaks of such batches; `NegativesStay`: an event that is negative stays so.

`Desk_proofs.tla` proves, for any clerks, codes, quantities and number of requests, `CodeIsFresh` (`[]FreshCode`),
`AnomalyAlwaysFollows` (`[]AnomalyFollows`) and `NeverBackForNothing` (`BackOnlyForAReason`).
`FreshCode` needs `CodeInv`: as long as nothing was typed or removed, no code is above the
number `n` of batches, and a registration under way holds one of at most `n+1`. `AnomalyFollows` needs
`FollowInv` (an event is followed up by one request at most, which has raised
nothing yet) and `EventInv`.

`Screens_proofs.tla` proves, for any trips, windows, departments, codes and visits, what a step of `Stations` and of
`Screens` keeps. `SortedIs` says of `Sorting` that a finite set under a strict total order is listed once and in that
order, an element's place being the number of those before it (`BelowGrows`, and a count of
places). For `MapAndPanelAgree`, `StationsInv` has trips received one after another, so the panel's order is total
(`EarlierOrders`); of a window larger than the open trips the first received row is the last trip
received (`WindowShowsLast`), which is the one the map takes. For `ScreensKeepUp`:

* `PanelInv`: only the last load is not cancelled, and it is for the department chosen;
* `CameraInv`: at most one effect is not cancelled, it belongs to the scanner on the screen, and while it
  asks for the camera none is on; a scanner that took a code is left. `Still` names what every way
  of leaving a page has in common;
* `HistInv`: the history has the codes told last. `Remembering` is its step: the code that is told is
  taken out and put in front, and each other code has one more, or as many, told after it, as the place it
  moves to says (a bijection between the codes kept in front of it and those told later).

`Portal_proofs.tla` proves that a behaviour of `PortalSpec`, which TLC checks, is one of the office, of the
contracts and of the membership page (`PortalIsDesk`, `PortalIsContracts`, `PortalIsMembership`), and
`RefusedOnlyTheDepotsUpload` (`[]OfferedIsAllowed`) from the comparison of the tables page by page, the guard's
(`GuardAgrees`) and the services' (`ServicesAgree`);
`ContractsAlwaysHold` and `MembershipAlwaysOwn`, each from an invariant that says what a request or a check
under way may still do; `ViewsAgree` (`[]MapAndPanelAgree`) and `ScreensKeepUpHolds` (`[]ScreensKeepUp`).

`JourneyAddsUpHolds` (`[]JourneyAddsUp`) holds for any samples, trips, users and windows. Its invariant,
`JourneyInv`, says no more than that the table has rows of samples: nothing is assumed of their order, so the
work is in what the tellers compute from any such table.

* `TakenIs` and `OrderedIs` say what keeping and sorting do: each row once, in time, and rows of one time
  as they stood (`Captured` is an order, `CapturedOrders`); `OrderedStays`: sorting again changes nothing.
* `RoadTold`: between two changes told nothing changes (`BetweenChanges`, from `ChangesAt`), so one drop starts
  at the litres the one before ended at, and the drops add up to the difference of the ends (`StepsAddUp`);
  what changes at each step is another after an odd number of them (`OddChanges`), which is the water.
  The QR's copy has as many points, in order and with the same litres (`PackedIs`), so its drops
  are as many and add up to the same.
* `ListedAre`: the list of a user has the newest rows that the user may see, for it is cut at its end and no later
  row is left out (`Newest`). `RoadsSeen`: of a trip, who sees roads sees every row or none, as a
  sample's cistern is that of its trip. So the page of a trip shows an end of its road (`PageEnds`): the
  places it shows are closed upward (`UpperEnd`), and two lists of the same rows that never fall are of
  one height at each place (`SameHeights`, by the pigeonhole principle), whatever rows of one time
  do. Without ties page and road are the same list.
* `TellersDo`: the pages have each row once (`SumOfParts`: the parts of a finite set have as many
  elements as it has), and water that a sticker tells is in a row that the report looks at (`WaterShows`).

`SeededWorldAddsUpHolds` (`[]SeededWorldAddsUp`) holds for any number of runs of the seed and of writes of the
API. Its invariant is `SeedInv`: a run that the API leaves alone finds the tables it has passed empty (`Gone`),
whatever an earlier run left there and wherever that one was killed; then exactly the rows it has written
(`Peopled`); then the world with its closing statements; and it was not refused.

* `ResetInOrder` and `AllGone`: no table is emptied while another's rows hold its own, and every table is
  (`ResetStep`). This is what the foreign keys ask of the order of the list.
* `RowsAreWrittenOnce`: each row of each table has one statement that writes it (`Writes`), so no unique key
  refuses a statement (`RowStep`) and the tables hold what they should after each (`FillStep`).
* `WorldIs` gives the tables at the end in closed form (`Seeded`). What the property says of them is then `FleetIsSound`
  (each loaded cistern, of fifty, on one trip with its litres), `RowsAreSound`, and `BooksAreSound`: the totals
  of a batch (`TotalsAre`) and what it promises besides (`Promised`, at most ten loads), its custody events
  by their times (`EventsAre`, `LogIs`), its receptions and what they lack (`ReceivedAre`, `ThreeReceptions`,
  `PassportsAre`), its batons and samples (`BatonsAgree`, `SamplesAgree`), and its sensor (`SensedAre`).

The proofs rest on the named assumptions about constants, on the modelling of PostgreSQL stated
above (what is locked, what is visible), and on nothing else.

Every type invariant, safety invariant and action property that a passing run checks is stated by a theorem
above. Only model-checked: liveness (`EveryRequestReturns`, `GateSettles`), out of the prover's reach.

## 5. Not modelled, and what is left

* Documents, transports, authorizations, samples, analyses, certificates: rows inserted without
  a condition on any other row than that the batch exists.
* The dashboard, the demo controller, the IoT demo endpoints and all rendering: they read, or move nothing.
  The sticker page does not cancel its loads when its token changes, the anomaly editor saves on blur
  the status it was opened with, and the movements page always posts batch 182: faults of the pages, not
  of a protocol between parts.
* Signing, hashing and passwords: taken as working. Telemetry stored beside a movement decides nothing.
* Dead code: `applyIdleConsumption` and `demoConsumptionLiters` (stations), `ensureForDelivery` (settlements).
* A baton that runs out leaves its delivery `IN_TRANSIT`: its cistern cannot be dispatched again
  until the sticker, which does not ask for the baton, receives it. Nothing in the code ends it,
  so there is no property to state.
* A batch received in several parts stays `DISTRIBUTING`; modelled, and no property says otherwise.
* A sample without `clientEventId` and the `id` of the phone's own record are told apart only by
  that id; the trail does not show it.
* Reports sort samples of one time as the database returns them, which is unspecified; properties
  compare roads without such ties.

Left for later: two trips of one cistern in `road`, which needs a larger run.
