------------------------------ MODULE CustodyQr ------------------------------
(***************************************************************************)
(* The custody handoff (custody-qr/custody-qr.service.ts): a depot or a    *)
(* driver issues a signed baton for one cistern trip, a station accepts    *)
(* it, a reader may find it expired.                                       *)
(*                                                                         *)
(* Each HTTP request is a process in Requests.  A handler awaits the       *)
(* database between its reads and its writes, so it is split where another *)
(* request can slip in: pc[r] names the next database call, work[r] holds  *)
(* what the handler has read so far.  Transactions run on PostgreSQL at    *)
(* READ COMMITTED: the writes of a transaction become visible together at  *)
(* commit, a plain read takes the last committed row and locks nothing,    *)
(* and an update keeps its row locked until the transaction ends.          *)
(* One custodyBaton row and its delivery row are created together and      *)
(* share the token.                                                        *)
(***************************************************************************)
EXTENDS Integers, FiniteSets, Functions, BatchStatus, Accounting

CONSTANTS Requests,      \* handler invocations the server runs at once
          Tokens,        \* baton identities
          Paper,         \* tokens printed for rows this database no longer has
          PaperLeg,      \* what those printed codes say
          Batches, Cisterns, Stations,
          Tanked,        \* stations that have a tank
          Users, Role,
          Volumes,       \* litres a dispatch may ask for
          Measures,      \* litres a station may report
          Declared,      \* declaredVolumeLiters of each batch
          CisternCap, InitDriver, TankCap, TankInit, DepotInit,
          InitStatus,    \* statuses a batch may start in
          Audited,       \* bound: batches an auditor may open a case on
          None

Roles == {"ADMIN", "TRANSPORTER", "DEPOT_OPERATOR"}  \* RolesAllowed.qrIssue

\* What a baton row says about its trip; a printed code the database does not
\* know names a batch and a volume, but no cistern, delivery or station row.
Legs == [batch : Batches, cistern : Cisterns \cup {None},
         station : Stations \cup {None}, vol : Nat]

CisternRows == [load : Int, status : {"AVAILABLE", "LOADED", "IN_TRANSIT"},
                batch : Batches \cup {None}, driver : Users \cup {None}]

ASSUME ConstantsAssumption ==
    /\ Paper \subseteq Tokens /\ PaperLeg \in [Paper -> Legs]
    /\ \A t \in Paper : PaperLeg[t].cistern = None /\ PaperLeg[t].station = None
    /\ None \notin Tokens \cup Batches \cup Cisterns \cup Stations \cup Users
                    \cup Legs \cup CisternRows
    /\ Tanked \subseteq Stations
    /\ Role \in [Users -> Roles]
    /\ Volumes \subseteq Nat \ {0} /\ Measures \subseteq Int
    /\ Declared \in [Batches -> Nat]
    /\ CisternCap \in [Cisterns -> Nat] /\ InitDriver \in [Cisterns -> Users \cup {None}]
    /\ TankCap \in [Tanked -> Nat] /\ TankInit \in [Tanked -> Nat]
    /\ \A s \in Tanked : TankInit[s] <= TankCap[s]
    /\ DepotInit \in Nat
    /\ InitStatus \subseteq BatchStatuses /\ Audited \subseteq Batches
    /\ None \notin Int

VARIABLES baton,       \* CustodyBaton.status, "ABSENT" without a row
          leg,         \* what the baton and delivery rows say of the trip
          elapsed,     \* has the 72 h of the token run out?
          receipts,    \* RECEIVED custody events naming the token
          measured,    \* measuredVolume of the last of them
          receivedAt,  \* baton.stationId written by the reception
          delivery,    \* Delivery.status, "ABSENT" without a row
          settlement,  \* litres of the driver's settlement, None without a row
          batch,       \* status and deliveredLiters of each batch
          cistern,     \* load, status, current batch and driver of each cistern
          tank,        \* currentStockLiters of each station tank
          depot,       \* currentStockLiters of the depot tank
          pc, work     \* of each request: its next database call, its locals

tripVars == <<baton, leg, receipts, measured, receivedAt, delivery, settlement>>
stockVars == <<batch, cistern, tank, depot>>
dbVars == <<tripVars, stockVars>>
vars == <<tripVars, stockVars, elapsed, pc, work>>

\* Locals of an issue and of an accept.  "status" and "delivered" are the batch
\* row read, "row" the cistern row read, "stock" the tank row read.
IssueWork == [batch : Batches, cistern : Cisterns, station : Stations,
              vol : Volumes, user : Users, status : BatchStatuses,
              delivered : Int, row : CisternRows \cup {None}, stock : Int]
AcceptWork == [token : Tokens, at : Stations \cup {None}, vol : Int,
               status : BatchStatuses, delivered : Int,
               row : CisternRows \cup {None}, stock : Int]

IssueSteps == {"quota", "cistern", "trip", "load", "withdraw"}
AcceptSteps == {"mint", "check", "consume", "settle", "unload", "stock"}
Steps == {"idle"} \cup IssueSteps \cup AcceptSteps

Init ==
    /\ baton = [t \in Tokens |-> "ABSENT"]
    /\ leg = [t \in Tokens |-> IF t \in Paper THEN PaperLeg[t] ELSE None]
    /\ elapsed = [t \in Tokens |-> FALSE]
    /\ receipts = [t \in Tokens |-> 0]
    /\ measured = [t \in Tokens |-> 0]
    /\ receivedAt = [t \in Tokens |-> None]
    /\ delivery = [t \in Tokens |-> "ABSENT"]
    /\ settlement = [t \in Tokens |-> None]
    /\ batch \in [Batches -> [status : InitStatus, delivered : {0}]]
    /\ cistern = [c \in Cisterns |-> [load |-> 0, status |-> "AVAILABLE",
                                      batch |-> None, driver |-> InitDriver[c]]]
    /\ tank = TankInit
    /\ depot = DepotInit
    /\ pc = [r \in Requests |-> "idle"]
    /\ work = [r \in Requests |-> None]

-------------------------------------------------------------------------------
(* Handler bookkeeping. *)

Goto(r, step, w) == /\ pc' = [pc EXCEPT ![r] = step]
                    /\ work' = [work EXCEPT ![r] = w]

\* The handler answers or throws; an open transaction rolls back, which undoes
\* nothing visible and frees its row locks.
Return(r) == Goto(r, "idle", None)

-------------------------------------------------------------------------------
(* Row locks: who holds one, and who has to wait for whom. *)

HoldsBaton(r, t) == pc[r] \in {"settle", "unload", "stock"} /\ work[r].token = t

HoldsBatch(r, b) == pc[r] \in {"unload", "stock"} /\ leg[work[r].token].batch = b

\* accept touches the cistern row only when there is something to unload.
Unloads(w) == w.row # None /\ Unload(w.vol, w.row.load) > 0

HoldsCistern(r, c) ==
    \/ pc[r] = "withdraw" /\ work[r].cistern = c
    \/ pc[r] = "stock" /\ leg[work[r].token].cistern = c /\ Unloads(work[r])

\* issue writes the batch row only from the two statuses of the code.
WritesBatch(w) == w.status \in {"AUTHORIZED", "IN_TRANSIT"}

\* Slip: every dispatch puts its batch in transit.
DispatchedStatusAlways(now, status) == "IN_TRANSIT"

\* The status the row gets: that of a batch read as AUTHORIZED is overwritten,
\* any other is left alone (only the location is written, or nothing at all).
DispatchedStatus(now, status) == IF status = "AUTHORIZED" THEN "IN_TRANSIT" ELSE now

WaitsFor(r, q) ==
    /\ r # q
    /\ \/ pc[r] = "load" /\ HoldsCistern(q, work[r].cistern)
       \/ pc[r] = "withdraw" /\ WritesBatch(work[r]) /\ HoldsBatch(q, work[r].batch)
       \/ pc[r] \in {"check", "consume"} /\ HoldsBaton(q, work[r].token)
       \/ pc[r] = "settle" /\ HoldsBatch(q, leg[work[r].token].batch)
       \/ pc[r] = "unload" /\ Unloads(work[r]) /\ HoldsCistern(q, leg[work[r].token].cistern)

CanLock(r) == \A q \in Requests : ~WaitsFor(r, q)

\* A single-statement update waits for the row as well.
BatonFree(t) == \A q \in Requests : ~HoldsBaton(q, t)
BatchFree(b) == \A q \in Requests : ~HoldsBatch(q, b)

\* PostgreSQL's detector sees a set of transactions that wait for each other.
Deadlocked(r) == \E S \in SUBSET Requests :
                    r \in S /\ \A p \in S : \E q \in S : WaitsFor(p, q)

-------------------------------------------------------------------------------
(* issue: reads first, outside any transaction; then one transaction. *)

OpenTrips == {t \in Tokens : delivery[t] = "IN_TRANSIT"}

\* Litres that a set of trips was dispatched with.
Loaded(T) == SumFunction([t \in T |-> leg[t].vol])

Reserved(b) == Loaded({t \in OpenTrips : leg[t].batch = b})

\* Slip: only the driver's own trips count.
TripInTheWayOfDriver(c, u) ==
    \E t \in OpenTrips : cistern[leg[t].cistern].driver = u

\* A trip in the way of loading cistern c, as user u sees it.
TripInTheWay(c, u) ==
    \E t \in OpenTrips : \/ leg[t].cistern = c
                         \/ Role[u] # "ADMIN" /\ cistern[leg[t].cistern].driver = u

\* Bound of the model: no more dispatches are under way than tokens are left.
FreeTokens == {t \in Tokens \ Paper : leg[t] = None}
TokenLeft == Cardinality({q \in Requests : pc[q] \in IssueSteps}) < Cardinality(FreeTokens)

\* The batch row is read; a batch that may not be dispatched ends the request.
IssueStart(r, b, c, s, v, u) ==
    /\ pc[r] = "idle" /\ TokenLeft
    /\ CanIssueQr(batch[b].status)
    /\ Goto(r, "quota", [batch |-> b, cistern |-> c, station |-> s, vol |-> v,
                         user |-> u, status |-> batch[b].status,
                         delivered |-> batch[b].delivered, row |-> None, stock |-> 0])
    /\ UNCHANGED <<dbVars, elapsed>>

\* Slip: the open deliveries are not summed.
IssueQuotaUnreserved(r) ==
    /\ pc[r] = "quota"
    /\ LET w == work[r] IN
         IF w.vol <= RemainingBatchLiters(Declared[w.batch], w.delivered, 0)
         THEN Goto(r, "cistern", w)
         ELSE Return(r)
    /\ UNCHANGED <<dbVars, elapsed>>

\* The open deliveries are summed and the batch's quota is checked.
IssueQuota(r) ==
    /\ pc[r] = "quota"
    /\ LET w == work[r] IN
         IF w.vol <= RemainingBatchLiters(Declared[w.batch], w.delivered, Reserved(w.batch))
         THEN Goto(r, "cistern", w)
         ELSE Return(r)
    /\ UNCHANGED <<dbVars, elapsed>>

\* Slip: the row is checked and not kept.
IssueCisternUnkept(r) ==
    /\ pc[r] = "cistern"
    /\ LET w == work[r] IN
         IF Role[w.user] = "TRANSPORTER" /\ cistern[w.cistern].driver \notin {None, w.user}
         THEN Return(r)
         ELSE Goto(r, "trip", w)
    /\ UNCHANGED <<dbVars, elapsed>>

\* The cistern row is read; a driver may not load somebody else's cistern.
IssueCistern(r) ==
    /\ pc[r] = "cistern"
    /\ LET w == work[r]
           row == cistern[w.cistern]
       IN IF Role[w.user] = "TRANSPORTER" /\ row.driver \notin {None, w.user}
          THEN Return(r)
          ELSE Goto(r, "trip", [w EXCEPT !.row = row])
    /\ UNCHANGED <<dbVars, elapsed>>

\* Slip: wait for the open trip to end, instead of refusing.
IssueTripWaits(r) ==
    /\ pc[r] = "trip"
    /\ ~TripInTheWay(work[r].cistern, work[r].user)
    /\ Goto(r, "load", work[r])
    /\ UNCHANGED <<dbVars, elapsed>>

\* No open trip on the cistern or of the driver, and room for the load.
IssueTrip(r) ==
    /\ pc[r] = "trip"
    /\ LET w == work[r] IN
         IF /\ ~TripInTheWay(w.cistern, w.user)
            /\ CisternCanLoad(CisternCap[w.cistern], w.row.load, w.vol)
         THEN Goto(r, "load", w)
         ELSE Return(r)
    /\ UNCHANGED <<dbVars, elapsed>>

\* The transaction opens: delivery inserted, cistern row updated (and locked),
\* then the depot row is read; a depot without the litres rolls it back.
IssueLoad(r) ==
    /\ pc[r] = "load"
    /\ CanLock(r)
    /\ IF StockCovers(depot, work[r].vol)
       THEN Goto(r, "withdraw", [work[r] EXCEPT !.stock = depot])
       ELSE Return(r)
    /\ UNCHANGED <<dbVars, elapsed>>

\* Depot, baton, custody events and batch are written, and all is committed.
\* Everything derived from an earlier read is written as it was computed then.
IssueCommit(r) ==
    /\ pc[r] = "withdraw"
    /\ CanLock(r)
    /\ \E t \in FreeTokens :
         LET w == work[r] IN
         /\ baton' = [baton EXCEPT ![t] = "ACTIVE"]
         /\ delivery' = [delivery EXCEPT ![t] = "IN_TRANSIT"]
         /\ leg' = [leg EXCEPT ![t] = [batch |-> w.batch, cistern |-> w.cistern,
                                       station |-> w.station, vol |-> w.vol]]
         /\ cistern' = [cistern EXCEPT ![w.cistern] =
                          [load |-> w.row.load + w.vol, status |-> "IN_TRANSIT",
                           batch |-> w.batch,
                           driver |-> IF w.row.driver = None THEN w.user ELSE w.row.driver]]
         /\ depot' = w.stock - w.vol
         /\ batch' = [batch EXCEPT ![w.batch].status = DispatchedStatus(@, w.status)]
    /\ Return(r)
    /\ UNCHANGED <<receipts, measured, receivedAt, settlement, tank, elapsed>>

-------------------------------------------------------------------------------
(* accept: the baton is looked up and checked, then one transaction. *)

\* The station that receives: the one the caller names, else the baton's.
StationOf(at, t) == IF at # None THEN at ELSE leg[t].station

\* Slip: any station may receive.
AtAnyStation(at, t) == TRUE

AtDestination(at, t) == leg[t].station # None => StationOf(at, t) = leg[t].station

AcceptLocals(t, at, v) ==
    [token |-> t, at |-> StationOf(at, t), vol |-> v, status |-> "DRAFT",
     delivered |-> 0, row |-> None, stock |-> 0]

\* The baton row is read and is good.  (Any other row ends the request: with no
\* write, or with the write of Expire below when its time is up.)
AcceptStart(r, t, at, v) ==
    /\ pc[r] = "idle"
    /\ baton[t] = "ACTIVE" /\ ~elapsed[t]
    /\ AtDestination(at, t)
    /\ Goto(r, "consume", AcceptLocals(t, at, v))
    /\ UNCHANGED <<dbVars, elapsed>>

\* No row, but the printed code is signed and in time.
AcceptEmbedded(r, t, at, v) ==
    /\ pc[r] = "idle"
    /\ t \in Paper /\ baton[t] = "ABSENT" /\ ~elapsed[t]
    /\ Goto(r, "mint", AcceptLocals(t, at, v))
    /\ UNCHANGED <<dbVars, elapsed>>

\* The row is inserted from the code, or, when another request was faster, the
\* unique token makes the insert fail and that row is read; only a row that is
\* ACTIVE goes on (one that is not never becomes so again).
AcceptMint(r) ==
    LET w == work[r]
        found == IF baton[w.token] = "ABSENT" THEN "ACTIVE" ELSE baton[w.token]
    IN /\ pc[r] = "mint"
       /\ baton' = [baton EXCEPT ![w.token] = found]
       /\ IF found = "ACTIVE" THEN Goto(r, "check", w) ELSE Return(r)
       /\ UNCHANGED <<leg, receipts, measured, receivedAt, delivery, settlement,
                      stockVars, elapsed>>

\* The time of that row: a code that ran out meanwhile is marked and refused.
AcceptCheck(r) ==
    LET t == work[r].token IN
    /\ pc[r] = "check"
    /\ IF elapsed[t]
       THEN /\ CanLock(r)
            /\ baton' = [baton EXCEPT ![t] = IF @ = "ACTIVE" THEN "EXPIRED" ELSE @]
            /\ Return(r)
       ELSE Goto(r, "consume", work[r]) /\ UNCHANGED baton
    /\ UNCHANGED <<leg, receipts, measured, receivedAt, delivery, settlement,
                   stockVars, elapsed>>

\* Slip: the update names the baton but not the status it must have.
AcceptConsumeAgain(r) ==
    /\ pc[r] = "consume"
    /\ CanLock(r)
    /\ LET w == work[r]
           row == batch[leg[w.token].batch]
       IN IF CanReceiveBatch(row.status)
          THEN Goto(r, "settle", [w EXCEPT !.status = row.status, !.delivered = row.delivered])
          ELSE Return(r)
    /\ UNCHANGED <<dbVars, elapsed>>

\* ACTIVE -> CONSUMED where still ACTIVE, which locks the baton row; no row
\* updated means somebody else was first.  Then the batch row is read.
AcceptConsume(r) ==
    /\ pc[r] = "consume"
    /\ CanLock(r)
    /\ LET w == work[r]
           row == batch[leg[w.token].batch]
       IN IF baton[w.token] = "ACTIVE" /\ CanReceiveBatch(row.status)
          THEN Goto(r, "settle", [w EXCEPT !.status = row.status, !.delivered = row.delivered])
          ELSE Return(r)
    /\ UNCHANGED <<dbVars, elapsed>>

\* The batch row is updated (and locked), the delivery and the settlement are
\* written, and the cistern row is read.
AcceptSettle(r) ==
    /\ pc[r] = "settle"
    /\ CanLock(r)
    /\ LET c == leg[work[r].token].cistern IN
         Goto(r, "unload", [work[r] EXCEPT !.row = IF c = None THEN None ELSE cistern[c]])
    /\ UNCHANGED <<dbVars, elapsed>>

\* Station staff who give no quality readings are refused only now, after the
\* baton, the RECEIVED event and the batch were written: all of it rolls back.
AcceptUnmeasured(r) ==
    /\ pc[r] = "settle"
    /\ CanLock(r)
    /\ Return(r)
    /\ UNCHANGED <<dbVars, elapsed>>

\* Slip: the tank is taken for empty.
AcceptUnloadEmptyTank(r) ==
    /\ pc[r] = "unload"
    /\ CanLock(r)
    /\ Goto(r, "stock", [work[r] EXCEPT !.stock = 0])
    /\ UNCHANGED <<dbVars, elapsed>>

\* The cistern row is updated (and locked), then the station's tank is read.
AcceptUnload(r) ==
    /\ pc[r] = "unload"
    /\ CanLock(r)
    /\ LET s == work[r].at IN
         Goto(r, "stock", [work[r] EXCEPT !.stock = IF s \in Tanked THEN tank[s] ELSE 0])
    /\ UNCHANGED <<dbVars, elapsed>>

\* Slip: the first reception completes the batch.
NextBatchStatusAtOnce(b, w) ==
    IF CanTransition(w.status, "RECEIVED") THEN "RECEIVED" ELSE w.status

NextBatchStatus(b, w) ==
    IF Declared[b] > 0 /\ w.delivered + w.vol < Declared[b]
    THEN "DISTRIBUTING"
    ELSE IF CanTransition(w.status, "RECEIVED") THEN "RECEIVED" ELSE w.status

Unloaded(row, w) ==
    LET rest == w.row.load - Unload(w.vol, w.row.load) IN
    [row EXCEPT !.load = rest,
                !.status = IF rest < 1 THEN "AVAILABLE" ELSE "LOADED",
                !.batch = IF rest < 1 THEN None ELSE w.row.batch]

\* Slip: the settlement is for the litres as they were reported.
SettledAsReported(litres) == litres

\* Nobody is settled for less than nothing.
Settled(litres) == IF litres > 0 THEN litres ELSE 0

\* The tank is written if the reception fits, and all is committed.
AcceptCommit(r) ==
    LET w == work[r]
        t == w.token
        b == leg[t].batch
        c == leg[t].cistern
    IN
    /\ pc[r] = "stock"
    /\ w.at \in Tanked => StockAccepts(w.stock, w.vol, TankCap[w.at])
    /\ baton' = [baton EXCEPT ![t] = "CONSUMED"]
    /\ receipts' = [receipts EXCEPT ![t] = @ + 1]
    /\ measured' = [measured EXCEPT ![t] = w.vol]
    /\ receivedAt' = [receivedAt EXCEPT ![t] = w.at]
    /\ delivery' = [delivery EXCEPT ![t] = IF t \in Paper THEN @ ELSE "DELIVERED"]
    /\ settlement' = [settlement EXCEPT ![t] =
                        IF t \notin Paper /\ @ = None THEN Settled(w.vol) ELSE @]
    /\ batch' = [batch EXCEPT ![b] = [status |-> NextBatchStatus(b, w),
                                      delivered |-> w.delivered + w.vol]]
    /\ cistern' = IF Unloads(w) THEN [cistern EXCEPT ![c] = Unloaded(@, w)] ELSE cistern
    /\ tank' = IF w.at \in Tanked THEN [tank EXCEPT ![w.at] = w.stock + w.vol] ELSE tank
    /\ Return(r)
    /\ UNCHANGED <<leg, depot, elapsed>>

\* The tank refuses the reception: the whole transaction rolls back.
AcceptOverflow(r) ==
    LET w == work[r] IN
    /\ pc[r] = "stock"
    /\ w.at \in Tanked /\ ~StockAccepts(w.stock, w.vol, TankCap[w.at])
    /\ Return(r)
    /\ UNCHANGED <<dbVars, elapsed>>

-------------------------------------------------------------------------------
(* The other writers of these rows, and the world. *)

\* Slip: the update does not ask for an ACTIVE row.
ExpireAny(t) ==
    /\ elapsed[t] /\ baton[t] # "ABSENT" /\ BatonFree(t)
    /\ baton' = [baton EXCEPT ![t] = "EXPIRED"]
    /\ UNCHANGED <<leg, receipts, measured, receivedAt, delivery, settlement,
                   stockVars, elapsed, pc, work>>

\* getBaton, or an accept that comes too late, marks the baton.
Expire(t) ==
    /\ elapsed[t] /\ baton[t] = "ACTIVE" /\ BatonFree(t)
    /\ baton' = [baton EXCEPT ![t] = "EXPIRED"]
    /\ UNCHANGED <<leg, receipts, measured, receivedAt, delivery, settlement,
                   stockVars, elapsed, pc, work>>

\* Opening an audit case puts the batch on hold, whatever its status.
AuditCreate(b) ==
    /\ BatchFree(b)
    /\ batch' = [batch EXCEPT ![b].status = "AUDIT_REQUIRED"]
    /\ UNCHANGED <<tripVars, cistern, tank, depot, elapsed, pc, work>>

\* The 72 hours of a token run out.
Elapse(t) ==
    /\ leg[t] # None /\ ~elapsed[t]
    /\ elapsed' = [elapsed EXCEPT ![t] = TRUE]
    /\ UNCHANGED <<dbVars, pc, work>>

\* The request dies between two calls: the process stops, the connection drops,
\* the transaction exceeds Prisma's limit, or the deadlock detector picks it.
Abort(r) ==
    /\ pc[r] # "idle"
    /\ Return(r)
    /\ UNCHANGED <<dbVars, elapsed>>

-------------------------------------------------------------------------------

Step(r) == \/ IssueQuota(r) \/ IssueCistern(r) \/ IssueTrip(r) \/ IssueLoad(r)
           \/ IssueCommit(r)
           \/ AcceptMint(r) \/ AcceptCheck(r) \/ AcceptConsume(r) \/ AcceptSettle(r)
           \/ AcceptUnmeasured(r) \/ AcceptUnload(r) \/ AcceptCommit(r) \/ AcceptOverflow(r)

Arrive(r) ==
    \/ \E b \in Batches, c \in Cisterns, s \in Stations, v \in Volumes, u \in Users :
         IssueStart(r, b, c, s, v, u)
    \/ \E t \in Tokens, at \in Stations \cup {None} :
         /\ leg[t] # None
         /\ \E v \in Measures \cup {leg[t].vol} :
              AcceptStart(r, t, at, v) \/ AcceptEmbedded(r, t, at, v)

Next == \/ \E r \in Requests : Arrive(r) \/ Step(r) \/ Abort(r)
        \/ \E t \in Tokens : Expire(t) \/ Elapse(t)
        \/ \E b \in Audited : AuditCreate(b)

Spec == Init /\ [][Next]_vars

\* Node keeps running a handler that has something to do; a row lock is granted
\* in the order of arrival, so a handler does not wait for ever for a lock that
\* keeps being freed; PostgreSQL breaks a deadlock by ending one of its parties.
Fairness == \A r \in Requests : /\ SF_vars(Step(r))
                                /\ WF_vars(Deadlocked(r) /\ Abort(r))

FairSpec == Spec /\ Fairness

-------------------------------------------------------------------------------
(* Properties. *)

\* What a handler's locals w may be when its next step is "step".
WorkFits(step, w) ==
    /\ step = "idle" => w = None
    /\ step \in IssueSteps => w \in IssueWork
    /\ step \in {"trip", "load", "withdraw"} => w.row # None
    /\ step \in AcceptSteps => /\ w \in AcceptWork
                               /\ leg[w.token] # None
                               /\ w.row # None => leg[w.token].cistern # None

\* Every row and every local of a handler has the type the schema and the code
\* give it.
TypeOK ==
    /\ baton \in [Tokens -> {"ABSENT", "ACTIVE", "CONSUMED", "EXPIRED"}]
    /\ leg \in [Tokens -> Legs \cup {None}]
    /\ elapsed \in [Tokens -> BOOLEAN]
    /\ receipts \in [Tokens -> Nat] /\ measured \in [Tokens -> Int]
    /\ receivedAt \in [Tokens -> Stations \cup {None}]
    /\ delivery \in [Tokens -> {"ABSENT", "IN_TRANSIT", "DELIVERED"}]
    /\ settlement \in [Tokens -> Nat \cup {None}]
    /\ batch \in [Batches -> [status : BatchStatuses, delivered : Int]]
    /\ cistern \in [Cisterns -> CisternRows]
    /\ tank \in [Tanked -> Int] /\ depot \in Int
    /\ pc \in [Requests -> Steps]
    /\ work \in [Requests -> IssueWork \cup AcceptWork \cup {None}]
    /\ \A r \in Requests : WorkFits(pc[r], work[r])

\* However many stations accept the same baton at once, it records at most one
\* reception, and it records one exactly when it is consumed: the conditional
\* update ACTIVE -> CONSUMED and the rollback of every failed accept together.
OneReception ==
    \A t \in Tokens : /\ receipts[t] <= 1
                      /\ receipts[t] = 1 <=> baton[t] = "CONSUMED"

\* A baton with a delivery is consumed, its delivery delivered and its driver
\* settled for exactly the litres the RECEIVED event measured, or none of this.  A
\* station without a tank may report less than nothing, which is settled as nothing.
ReceptionIsWhole ==
    \A t \in Tokens :
      delivery[t] # "ABSENT" =>
        /\ baton[t] = "CONSUMED" <=> delivery[t] = "DELIVERED"
        /\ delivery[t] = "DELIVERED" => /\ measured[t] > 0 => settlement[t] = measured[t]
                                        /\ measured[t] <= 0 => settlement[t] = 0
        /\ delivery[t] # "DELIVERED" => settlement[t] = None

\* A delivered trip was received at the station it was dispatched to, whoever
\* accepted it and whichever station the request named.
ReceivedAtDestination ==
    \A t \in Tokens : delivery[t] = "DELIVERED" => receivedAt[t] = leg[t].station

\* No interleaving of stale reads takes a tank above its capacity or below
\* empty, overfills a cistern, or overdraws a cistern or the depot.
StockWithinBounds ==
    /\ \A s \in Tanked : tank[s] \in 0..TankCap[s]
    /\ \A c \in Cisterns : cistern[c].load \in 0..CisternCap[c]
    /\ depot \in 0..DepotInit

\* Litres the RECEIVED events report for a set of tokens.
Measured(T) == SumFunctionOnSet(measured, T)
Dispatched == {t \in Tokens \ Paper : leg[t] # None}
Received == {t \in Tokens : receipts[t] > 0}
ReceivedFor(b) == {t \in Received : leg[t].batch = b}
ReceivedIn(s) == {t \in Received : receivedAt[t] = s}

\* Racing requests may lose an update, and then the books lag behind the custody
\* events; they never run ahead: no batch counts more litres delivered, no tank
\* more stock, no depot less, than the events explain.
BooksOnlyLag ==
    /\ \A b \in Batches : batch[b].delivered <= Measured(ReceivedFor(b))
    /\ \A s \in Tanked : tank[s] <= TankInit[s] + Measured(ReceivedIn(s))
    /\ depot >= DepotInit - Loaded(Dispatched)

\* With one request at a time nothing is lost: batch, tank and depot are exactly
\* what the custody events explain.
BooksExact ==
    /\ \A b \in Batches : batch[b].delivered = Measured(ReceivedFor(b))
    /\ \A s \in Tanked : tank[s] = TankInit[s] + Measured(ReceivedIn(s))
    /\ depot = DepotInit - Loaded(Dispatched)

\* A cistern has at most one open trip.
OneOpenTrip ==
    \A t, u \in OpenTrips : leg[t].cistern = leg[u].cistern => t = u

\* An open trip is aboard: its cistern carries at least its litres, of its batch.
OpenTripIsAboard ==
    \A t \in OpenTrips : LET row == cistern[leg[t].cistern] IN
      row.load >= leg[t].vol /\ row.status = "IN_TRANSIT" /\ row.batch = leg[t].batch

\* As long as no station reports more than was loaded, and no printed code was
\* received for the batch, delivered and reserved litres stay within what the
\* batch declares: receptions hand their reservation over to the delivered count.
QuotaRespected ==
    \A b \in Batches :
      (\A t \in ReceivedFor(b) : t \notin Paper /\ measured[t] <= leg[t].vol)
        => batch[b].delivered + Reserved(b) <= Declared[b]

\* A batch that dispatching and receiving brought to RECEIVED has all its litres.
ReceivedBatchIsComplete ==
    \A b \in Batches : batch[b].status = "RECEIVED" => batch[b].delivered >= Declared[b]

\* A batch that went on is never put back to AUTHORIZED or IN_TRANSIT.
NeverBackToTransit ==
    [][\A b \in Batches : batch[b].status \in {"RECEIVED", "DISTRIBUTING"} =>
         batch'[b].status \notin {"AUTHORIZED", "IN_TRANSIT"}]_vars

\* A batch that was completely received is never again in transit.
ReceivedNeverBackInTransit ==
    [][\A b \in Batches : batch[b].status = "RECEIVED" => batch'[b].status # "IN_TRANSIT"]_vars

\* A batch on hold for an audit stays there: nobody here is the auditor whose
\* explicit PATCH lifts the hold.
AuditHoldStays ==
    [][\A b \in Batches : batch[b].status = "AUDIT_REQUIRED" => batch'[b].status = "AUDIT_REQUIRED"]_vars

\* The abstract handoff: what a token's rows say of it, as Handoff sees it.
StageOf(status) == CASE status = "ABSENT" -> "absent"
                     [] status = "ACTIVE" -> "open"
                     [] status = "CONSUMED" -> "received"
                     [] status = "EXPIRED" -> "lapsed"

Promise == INSTANCE Handoff WITH
             Quantities <- Int,
             Places <- Stations \cup {None},
             stage <- [t \in Tokens |-> StageOf(baton[t])],
             times <- receipts, liters <- measured, place <- receivedAt

\* The handlers implement the one-shot handoff: a token opens once, is received
\* at most once, and a received or lapsed token never changes again.
ImplementsHandoff == Promise!Spec

\* Every request is answered, although requests wait for each other's rows and
\* may do so in a circle.
EveryRequestReturns == \A r \in Requests : pc[r] # "idle" ~> pc[r] = "idle"

===============================================================================
