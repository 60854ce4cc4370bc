--------------------------------- MODULE Road ---------------------------------
(***************************************************************************)
(* The second way a trip is written down and received: the sticker on the  *)
(* cistern (cisterns/cisterns.service.ts), the driver's road samples       *)
(* (checkpoints/checkpoints.service.ts) and the driver's settlement        *)
(* (settlements/settlements.service.ts), over trips that were already      *)
(* dispatched.                                                             *)
(*                                                                         *)
(* Requests are processes as in CustodyQr: pc[r] is the next database      *)
(* call, work[r] what was read so far.  A scan writes outside any          *)
(* transaction, one statement at a time; the reception is a transaction at *)
(* READ COMMITTED: its writes appear at commit, its plain reads lock       *)
(* nothing, its updates keep their row locked until then.  The baton of a  *)
(* trip is a process of CustodyQr; here its acceptance is one step.        *)
(***************************************************************************)
EXTENDS Integers, Sequences, FiniteSets, Functions, Accounting

Seqs == INSTANCE SequencesExt

CONSTANTS Requests,
          Trips, TripOf,     \* the dispatched deliveries and what was written of them
          Cisterns, Stations, Batches,
          Tanked,            \* the stations with a tank
          TankCap, TankInit, \* of each station's tank
          Users, Role, StationOf,
          DriverOf,          \* driver of each cistern
          Buffer,            \* samples in the logger of each cistern
          Notes,             \* samples drivers send from the phone
          Reported,          \* litres a station may report
          Latest,            \* a moment after every other
          None

Sources == [batch : Batches, cistern : Cisterns, station : Stations, loaded : Nat,
            loadedAt : Nat]
Settlements == [liters : Int, status : {"PENDING", "PAID"}, by : Users \cup {None}]

ASSUME RoadConstantsAssumption ==
    /\ TripOf \in [Trips -> Sources]
    /\ Latest \in Nat /\ \A d \in Trips : TripOf[d].loadedAt <= Latest
    /\ Tanked \subseteq Stations
    /\ TankCap \in [Stations -> Nat] /\ TankInit \in [Stations -> Nat]
    /\ \A s \in Stations : TankInit[s] <= TankCap[s]
    /\ Role \in [Users -> {"ADMIN", "STATION_STAFF", "TRANSPORTER"}]
    /\ StationOf \in [Users -> Stations \cup {None}]
    /\ \A u \in Users : Role[u] = "STATION_STAFF" => StationOf[u] # None
    /\ DriverOf \in [Cisterns -> Users \cup {None}]
    /\ \A c \in Cisterns : /\ Buffer[c] \in Seq(Seqs!ToSet(Buffer[c]))
                           /\ \A x \in Seqs!ToSet(Buffer[c]) : x.vol \in Int
    /\ \A n \in Notes : n.vol \in Int
    /\ Reported \subseteq Int
    /\ None \notin Users \cup Stations \cup Cisterns \cup Trips \cup Batches \cup Int \cup Settlements
    /\ "baton" \notin Users

VARIABLES open,        \* Delivery.status is LOADED or IN_TRANSIT
          baton,       \* its baton is still ACTIVE
          receptions,  \* the RECEIVED events of each trip, in order of commit
          settlement,  \* the driver's settlement of each trip, None without a row
          cistern, tank, delivered,
          trail,       \* RouteCheckpoint rows
          arrived,     \* trips whose ARRIVAL row carries the sticker's clientEventId
          promised,    \* ids of logger samples a scan reported as uploaded
          pc, work

rows == <<open, baton, receptions, settlement, cistern, tank, delivered, trail, arrived>>
vars == <<rows, promised, pc, work>>

TripsOf(c) == {d \in Trips : TripOf[d].cistern = c}
Newest(D) == CHOOSE d \in D : \A e \in D : TripOf[e].loadedAt <= TripOf[d].loadedAt

\* Every trip was dispatched and nothing has happened to it yet.
Init ==
    /\ open = [d \in Trips |-> TRUE]
    /\ baton = [d \in Trips |-> TRUE]
    /\ receptions = [d \in Trips |-> << >>]
    /\ settlement = [d \in Trips |-> None]
    /\ cistern = [c \in Cisterns |->
                    IF TripsOf(c) = {} THEN [load |-> 0, status |-> "AVAILABLE", batch |-> None]
                    ELSE [load |-> TripOf[Newest(TripsOf(c))].loaded, status |-> "IN_TRANSIT",
                          batch |-> TripOf[Newest(TripsOf(c))].batch]]
    /\ tank = TankInit
    /\ delivered = [b \in Batches |-> 0]
    /\ trail = {} /\ arrived = {} /\ promised = {}
    /\ pc = [r \in Requests |-> "idle"]
    /\ work = [r \in Requests |-> None]

\* Locals of a request.  "row", "stock" and "counted" are the cistern, tank and
\* batch rows a reception has read.
Locals(goal, u, c, d, v, b, samples) ==
    [goal |-> goal, user |-> u, cistern |-> c, trip |-> d, vol |-> v, batch |-> b,
     samples |-> samples, left |-> samples, row |-> None, stock |-> 0, counted |-> 0]

Goto(r, step, w) == /\ pc' = [pc EXCEPT ![r] = step]
                    /\ work' = [work EXCEPT ![r] = w]
Return(r) == Goto(r, "idle", None)

-------------------------------------------------------------------------------
(* Rows locked by a reception under way. *)

HoldsTrip(r, d) == pc[r] \in {"fill", "count"} /\ work[r].trip = d
HoldsCistern(r, c) == pc[r] \in {"fill", "count"} /\ work[r].cistern = c
HoldsTank(r, s) ==
    s \in Tanked /\ pc[r] = "count" /\ TripOf[work[r].trip].station = s

CisternFree(c) == \A q \in Requests : ~HoldsCistern(q, c)
TripFree(d) == \A q \in Requests : ~HoldsTrip(q, d)
TankFree(s) == \A q \in Requests : ~HoldsTank(q, s)

-------------------------------------------------------------------------------
(* Reading the sticker. *)

OpenTripsOf(c) == {d \in TripsOf(c) : open[d]}

\* The open trip a user means: station staff mean one to their station first.
activeDelivery(c, u) ==
    LET mine == {d \in OpenTripsOf(c) :
                   Role[u] = "STATION_STAFF" /\ TripOf[d].station = StationOf[u]}
    IN IF mine # {} THEN Newest(mine)
       ELSE IF OpenTripsOf(c) # {} THEN Newest(OpenTripsOf(c)) ELSE None

\* Samples invented for a trip whose device sent none.
demoTrailFromDelivery(d) ==
    LET t == TripOf[d] IN
    << [id |-> <<d, "load">>, vol |-> t.loaded, at |-> t.loadedAt],
       [id |-> <<d, "wp1">>, vol |-> t.loaded - 1, at |-> t.loadedAt + 2],
       [id |-> <<d, "wp2">>, vol |-> t.loaded - 3, at |-> t.loadedAt + 5] >>

Known(id) == \E row \in trail : row.id = id

\* The checkpoint row of a sample.
Row(sample, d) == [id |-> sample.id, vol |-> sample.vol, at |-> sample.at, trip |-> d]

\* A scan, by itself or as the head of a reception (which sends no samples):
\* the cistern needs an open trip or at least a current batch.  Its reads are
\* one step: nothing is decided on but the last of them.
ScanStart(r, u, c, samples, goal, v) ==
    /\ pc[r] = "idle"
    /\ goal = "receive" => samples = << >> /\ Role[u] \in {"STATION_STAFF", "ADMIN"}
    /\ LET d == activeDelivery(c, u)
           todo == IF samples = << >> /\ d # None THEN demoTrailFromDelivery(d) ELSE samples
       IN /\ d # None \/ cistern[c].batch # None
          /\ Goto(r, "upload",
                  Locals(goal, u, c, d, v,
                         IF d # None THEN TripOf[d].batch ELSE cistern[c].batch, todo))
    /\ UNCHANGED <<rows, promised>>

\* Slip: the upload ends at the first sample the server has.
UploadUntilKnown(r) ==
    /\ pc[r] = "upload" /\ work[r].left # << >>
    /\ LET w == work[r] IN
         /\ IF Known(Head(w.left).id)
            THEN UNCHANGED trail /\ Goto(r, "upload", [w EXCEPT !.left = << >>])
            ELSE /\ trail' = trail \cup {Row(Head(w.left), w.trip)}
                 /\ Goto(r, "upload", [w EXCEPT !.left = Tail(@)])
    /\ UNCHANGED <<open, baton, receptions, settlement, cistern, tank, delivered,
                   arrived, promised>>

\* One sample is inserted; one the server has (the unique clientEventId) is passed over.
Upload(r) ==
    /\ pc[r] = "upload" /\ work[r].left # << >>
    /\ LET w == work[r] IN
         /\ trail' = IF Known(Head(w.left).id) THEN trail
                     ELSE trail \cup {Row(Head(w.left), w.trip)}
         /\ Goto(r, "upload", [w EXCEPT !.left = Tail(@)])
    /\ UNCHANGED <<open, baton, receptions, settlement, cistern, tank, delivered,
                   arrived, promised>>

\* The last sample overwrites the cistern row, new or not, and the scan answers;
\* a reception goes on.
Park(r) ==
    LET w == work[r] IN
    /\ pc[r] = "upload" /\ w.left = << >>
    /\ IF w.samples = << >> THEN UNCHANGED cistern
       ELSE /\ CisternFree(w.cistern)
            /\ cistern' = [cistern EXCEPT ![w.cistern] =
                             [load |-> Seqs!Last(w.samples).vol, status |-> "IN_TRANSIT",
                              batch |-> w.batch]]
    /\ promised' = promised \cup {x.id : x \in Seqs!ToSet(w.samples)}
    /\ IF w.goal = "scan" THEN Return(r) ELSE Goto(r, "look", w)
    /\ UNCHANGED <<open, baton, receptions, settlement, tank, delivered, trail, arrived>>

-------------------------------------------------------------------------------
(* Receiving through the sticker. *)

\* The cistern row is read once more; all that follows uses this reading.
Look(r) ==
    /\ pc[r] = "look"
    /\ Goto(r, "find", [work[r] EXCEPT !.row = cistern[work[r].cistern]])
    /\ UNCHANGED <<rows, promised>>

\* Slip: a station receives whatever the cistern carries.
MayReceiveAnything(u, d) == TRUE

\* Staff receive what is destined to their station.
MayReceive(u, d) == Role[u] = "STATION_STAFF" => TripOf[d].station = StationOf[u]

\* The trip is looked up once more and its destination compared.
Find(r) ==
    /\ pc[r] = "find"
    /\ LET w == work[r]
           d == activeDelivery(w.cistern, w.user)
       IN IF d # None /\ MayReceive(w.user, d)
          THEN Goto(r, "measure", [w EXCEPT !.trip = d])
          ELSE Return(r)
    /\ UNCHANGED <<rows, promised>>

\* Litres in the latest sample of a trip.
LastMeasured(d) ==
    LET mine == {x \in trail : x.trip = d} IN
    IF mine = {} THEN {TripOf[d].loaded}
    ELSE {x.vol : x \in {y \in mine : \A z \in mine : z.at <= y.at}}

\* What the station reports, else the last sample, is what it receives.
Measure(r) ==
    /\ pc[r] = "measure"
    /\ LET w == work[r] IN
         \E v \in IF w.vol # None THEN {w.vol} ELSE LastMeasured(w.trip) :
           Goto(r, "receive", [w EXCEPT !.vol = v])
    /\ UNCHANGED <<rows, promised>>

\* The transaction opens: delivery, settlement and cistern rows are written,
\* the tank row is read.
Receive(r) ==
    LET w == work[r] IN
    /\ pc[r] = "receive"
    /\ TripFree(w.trip) /\ CisternFree(w.cistern)
    /\ Goto(r, "fill", [w EXCEPT !.stock = tank[TripOf[w.trip].station]])
    /\ UNCHANGED <<rows, promised>>

\* Slip: each reception gets an arrival row of its own.
ArrivalTakenNever(d) == FALSE

\* The arrival row of a sticker reception carries an id made of the delivery's.
ArrivalTaken(d) == d \in arrived

\* A tank takes a positive delivery it has room for; a station without one takes
\* whatever is reported, and none of its rows changes.
Accepts(s, stock, v) == s \in Tanked => StockAccepts(stock, v, TankCap[s])
Filled(s, level) == IF s \in Tanked THEN [tank EXCEPT ![s] = level] ELSE tank

\* A tank without room, or an arrival already on record, rolls all back;
\* otherwise the tank row, if any, is written and the batch row is read.
Fill(r) ==
    LET w == work[r]
        s == TripOf[w.trip].station
    IN
    /\ pc[r] = "fill"
    /\ TankFree(s)
    /\ IF Accepts(s, w.stock, w.vol) /\ ~ArrivalTaken(w.trip)
       THEN Goto(r, "count", [w EXCEPT !.counted = delivered[TripOf[w.trip].batch]])
       ELSE Return(r)
    /\ UNCHANGED <<rows, promised>>

Unloaded(row, v) ==
    LET out == Unload(v, row.load)
        rest == IF out > 0 THEN row.load - out ELSE row.load
    IN
    [load |-> rest, status |-> IF rest < 1 THEN "AVAILABLE" ELSE "LOADED",
     batch |-> IF rest < 1 THEN None ELSE row.batch]

NewSettlement(v) == [liters |-> IF v > 0 THEN v ELSE 0, status |-> "PENDING", by |-> None]

\* Slip: a settlement follows the latest reception.
SettledAgain(row, v) == NewSettlement(v)

\* The upsert creates a settlement and leaves an existing one alone.
Settled(row, v) == IF row = None THEN NewSettlement(v) ELSE row

\* What any reception of trip d leaves: the trip closed, an event, a settlement.
Close(d, by, v) ==
    /\ open' = [open EXCEPT ![d] = FALSE]
    /\ receptions' = [receptions EXCEPT ![d] = Append(@, [by |-> by, vol |-> v])]
    /\ settlement' = [settlement EXCEPT ![d] = Settled(@, v)]

\* The batch counts the litres and all is committed, as it was computed from
\* the rows read on the way.
Count(r) ==
    LET w == work[r]
        d == w.trip
        t == TripOf[d]
    IN
    /\ pc[r] = "count"
    /\ Close(d, w.user, w.vol)
    /\ cistern' = [cistern EXCEPT ![w.cistern] = Unloaded(w.row, w.vol)]
    /\ tank' = Filled(t.station, w.stock + w.vol)
    /\ delivered' = [delivered EXCEPT ![t.batch] = w.counted + w.vol]
    /\ trail' = trail \cup {[id |-> <<d, "arrival">>, trip |-> d, vol |-> w.vol, at |-> Latest]}
    /\ arrived' = arrived \cup {d}
    /\ Return(r)
    /\ UNCHANGED <<baton, promised>>

\* The same trip received through its baton (CustodyQr has the steps): it asks
\* for an ACTIVE baton, not for an open trip, and leaves an arrival without id.
AcceptBaton(d, v) ==
    LET t == TripOf[d] IN
    /\ baton[d]
    /\ TripFree(d) /\ CisternFree(t.cistern) /\ TankFree(t.station)
    /\ Accepts(t.station, tank[t.station], v)
    /\ baton' = [baton EXCEPT ![d] = FALSE]
    /\ Close(d, "baton", v)
    /\ cistern' = IF Unload(v, cistern[t.cistern].load) > 0
                  THEN [cistern EXCEPT ![t.cistern] = Unloaded(@, v)] ELSE cistern
    /\ tank' = Filled(t.station, tank[t.station] + v)
    /\ delivered' = [delivered EXCEPT ![t.batch] = @ + v]
    /\ trail' = trail \cup {[id |-> <<d, "baton">>, trip |-> d, vol |-> v, at |-> Latest]}
    /\ UNCHANGED <<arrived, promised, pc, work>>

-------------------------------------------------------------------------------
(* The driver's road sample, the payment, and failures. *)

FirstGiven(options) == LET given == SelectSeq(options, LAMBDA x : x # None) IN
                       IF given = << >> THEN None ELSE Head(given)

\* The cistern a user drives.
CisternOf(u) == LET mine == {c \in Cisterns : DriverOf[c] = u} IN
                IF mine = {} THEN None ELSE CHOOSE c \in mine : TRUE

\* A sample is about the delivery it names, open or not, else about the open
\* trip of the driver's cistern, else about the batch it names or the one aboard.
\* (A sample the server has is answered without a write.)
NoteStart(r, u, n) ==
    LET mine == CisternOf(u)
        d == IF n.trip # None THEN n.trip
             ELSE IF mine # None /\ OpenTripsOf(mine) # {} THEN Newest(OpenTripsOf(mine))
             ELSE None
        c == FirstGiven(<<n.cistern, mine, IF d # None THEN TripOf[d].cistern ELSE None>>)
    IN
    /\ pc[r] = "idle" /\ Role[u] \in {"TRANSPORTER", "ADMIN"}
    /\ ~Known(n.id)
    /\ c # None
    /\ Role[u] = "TRANSPORTER" => DriverOf[c] \in {None, u}
    /\ LET b == FirstGiven(<<IF d # None THEN TripOf[d].batch ELSE None, n.batch,
                            cistern[c].batch>>)
       IN b # None /\ Goto(r, "note", Locals("note", u, c, d, n.vol, b, <<n>>))
    /\ UNCHANGED <<rows, promised>>

\* The row is inserted, or another request was faster and the answer is 409.
Note(r) ==
    /\ pc[r] = "note"
    /\ LET w == work[r]
           n == Head(w.left)
       IN IF Known(n.id) THEN Return(r) /\ UNCHANGED trail
          ELSE /\ trail' = trail \cup {Row(n, w.trip)}
               /\ Goto(r, "mark", w)
    /\ UNCHANGED <<open, baton, receptions, settlement, cistern, tank, delivered,
                   arrived, promised>>

\* A statement of its own puts the sample's litres on the cistern.
Mark(r) ==
    LET w == work[r]
        n == Head(w.left)
    IN
    /\ pc[r] = "mark" /\ CisternFree(w.cistern)
    /\ cistern' = [cistern EXCEPT ![w.cistern] =
                     [load |-> w.vol, batch |-> w.batch,
                      status |-> IF n.kind = "LOAD_DEPARTURE" THEN "LOADED" ELSE "IN_TRANSIT"]]
    /\ Return(r)
    /\ UNCHANGED <<open, baton, receptions, settlement, tank, delivered, trail, arrived, promised>>

MayPay(u, d) == Role[u] = "STATION_STAFF" => TripOf[d].station = StationOf[u]

\* markPaid reads the row: there is one, of the user's station, not yet PAID.
PayStart(r, u, d) ==
    /\ pc[r] = "idle" /\ Role[u] \in {"STATION_STAFF", "ADMIN"}
    /\ settlement[d] # None /\ MayPay(u, d) /\ settlement[d].status # "PAID"
    /\ Goto(r, "pay", Locals("pay", u, TripOf[d].cistern, d, None, None, << >>))
    /\ UNCHANGED <<rows, promised>>

\* The update does not ask for the status again: who comes last is who paid.
Pay(r) ==
    /\ pc[r] = "pay"
    /\ settlement' = [settlement EXCEPT ![work[r].trip] =
                        [@ EXCEPT !.status = "PAID", !.by = work[r].user]]
    /\ Return(r)
    /\ UNCHANGED <<open, baton, receptions, cistern, tank, delivered, trail, arrived, promised>>

\* The request dies between two calls; what a scan wrote stays written.
Abort(r) ==
    /\ pc[r] # "idle"
    /\ Return(r)
    /\ UNCHANGED <<rows, promised>>

Arrive(r, u) ==
    \/ \E c \in Cisterns :
         \/ \E samples \in {<< >>, Buffer[c]} : ScanStart(r, u, c, samples, "scan", None)
         \/ \E v \in Reported \cup {None} : ScanStart(r, u, c, << >>, "receive", v)
    \/ \E n \in Notes : NoteStart(r, u, n)
    \/ \E d \in Trips : PayStart(r, u, d)

Step(r) == \/ Upload(r) \/ Park(r) \/ Look(r) \/ Find(r) \/ Measure(r)
           \/ Receive(r) \/ Fill(r) \/ Count(r) \/ Note(r) \/ Mark(r) \/ Pay(r)

Next == \/ \E r \in Requests : (\E u \in Users : Arrive(r, u)) \/ Step(r) \/ Abort(r)
        \/ \E d \in Trips : AcceptBaton(d, TripOf[d].loaded)

Spec == Init /\ [][Next]_vars

-------------------------------------------------------------------------------
(* Properties. *)

BySticker(d) == {i \in DOMAIN receptions[d] : receptions[d][i].by # "baton"}

\* A trip is received at most once through the sticker and at most once through
\* its baton, however many stations, retries and stale reads race: the id of the
\* arrival row and the one-shot baton carry what no status check does.
OneReceptionPerPath ==
    \A d \in Trips : /\ Cardinality(BySticker(d)) <= 1
                     /\ Len(receptions[d]) - Cardinality(BySticker(d)) <= 1

\* The driver is settled once, for the litres of the first reception that
\* committed, also when the trip is received again through the other path; for none
\* if it reported less than nothing, which only a station without a tank takes.
SettledForTheFirst ==
    \A d \in Trips :
      IF receptions[d] = << >> THEN settlement[d] = None
      ELSE LET first == receptions[d][1].vol IN
           /\ settlement[d] # None
           /\ settlement[d].liters = IF first > 0 THEN first ELSE 0

\* A paid settlement stays paid and keeps its litres: neither a racing payment
\* nor a later reception opens it again.  Who paid is not kept: a payment that read it
\* as pending replaces the payer of one that committed since.
PaidStays ==
    \A d \in Trips : settlement[d] # None /\ settlement[d].status = "PAID" =>
      /\ settlement'[d] # None /\ settlement'[d].status = "PAID"
      /\ settlement'[d].liters = settlement[d].liters

PaidIsFinal == [][PaidStays]_vars

AtOwnStation(u, d) == Role[u] = "STATION_STAFF" => StationOf[u] = TripOf[d].station

\* Staff receive and pay only trips destined to their own station, whatever the
\* cistern carried when they scanned it.
OwnStationOnly ==
    \A d \in Trips :
      /\ \A i \in BySticker(d) : AtOwnStation(receptions[d][i].by, d)
      /\ settlement[d] # None /\ settlement[d].by # None => AtOwnStation(settlement[d].by, d)

\* Every sample a scan reported as uploaded is on the server, although scans of
\* one logger overlap, die in the middle and are repeated.
UploadIsComplete == \A id \in promised : Known(id)

\* The RECEIVED events of some trips, and the litres they report.
EventsOf(D) == UNION {{d} \X DOMAIN receptions[d] : d \in D}
ReceivedVol(D) == SumFunction([e \in EventsOf(D) |-> receptions[e[1]][e[2]].vol])

DestinedTo(s) == {d \in Trips : TripOf[d].station = s}
PartOf(b) == {d \in Trips : TripOf[d].batch = b}
NoneNegative(b) == \A d \in PartOf(b) : \A i \in DOMAIN receptions[d] : receptions[d][i].vol >= 0

\* Stale reads may lose an update, so tank and batch may lag behind the RECEIVED
\* events; no tank passes its capacity and neither counts litres no event has.  A
\* lost negative report would leave the batch ahead of its events: where there was
\* one, nothing is said of the batch.
RoadBooksOnlyLag ==
    /\ \A s \in Tanked :
         /\ tank[s] \in 0..TankCap[s]
         /\ tank[s] <= TankInit[s] + ReceivedVol(DestinedTo(s))
    /\ \A b \in Batches : NoneNegative(b) => delivered[b] <= ReceivedVol(PartOf(b))
===============================================================================
