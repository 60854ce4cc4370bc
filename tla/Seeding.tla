-------------------------------- MODULE Seeding --------------------------------
(***************************************************************************)
(* The seed (prisma/seed.ts): it empties the tables in an order the foreign *)
(* keys must allow, and writes the world everything starts from.  No        *)
(* transaction holds it together; it may be killed and run again, and the   *)
(* API may be running beside it.  A loop over one table is one step here.   *)
(* Times are hours before the seed ran.                                     *)
(***************************************************************************)
EXTENDS Integers, Sequences, FiniteSets, Functions, Reconcile

CONSTANTS MaxStarts, \* bound: runs of the seed
          MaxTouches \* bound: what the API writes meanwhile

ASSUME SeedingAssumption == MaxStarts \in Nat /\ MaxTouches \in Nat

VARIABLES world,   \* of each table its rows
          at,      \* the seed's next statement
          running, refused, \* it runs; a statement was refused and it gave up
          starts, touches,
          touched  \* history: the API wrote since the run began

evars == <<world, at, running, refused, starts, touches, touched>>

-------------------------------------------------------------------------------
(* Tables and the foreign keys between them. *)

OfBatch == {"document", "transport", "customs", "custody", "authorization", "certificate",
            "sampling", "lab", "baton", "checkpoint", "delivery", "settlement", "anchor",
            "anomaly", "case", "note"}
Tables == OfBatch \cup {"user", "vehicle", "station", "tank", "measurement", "cistern",
                        "batch", "offline"}

\* Rows of the first cannot be without one of the second, and forbid its removal.
Forbids == {<<"delivery", "cistern">>, <<"delivery", "station">>, <<"checkpoint", "cistern">>,
             <<"settlement", "cistern">>, <<"settlement", "station">>}

\* What goes with a removed row.
Cascade(t) == CASE t = "batch" -> OfBatch
                [] t = "delivery" -> {"settlement"}
                [] t = "case" -> {"note"}
                [] t = "sampling" -> {"lab"}
                [] t = "tank" -> {"measurement"}
                [] OTHER -> {}

Clear(t) == [clear |-> t]
Insert(rows) == [insert |-> rows] \* a set of rows for each of some tables
Keys(rows) == {r.key : r \in rows}

\* Slip: the cisterns go before the trips that hold them.
ResetFleetFirst ==
    <<"note", "case", "anomaly", "anchor", "measurement", "lab", "sampling", "certificate",
      "authorization", "customs", "custody", "baton", "cistern", "checkpoint", "delivery",
      "offline", "transport", "document", "batch", "vehicle", "tank", "station", "user">>

\* The tables in the order they are emptied; settlements go with the trips.
resetDemo ==
    <<"note", "case", "anomaly", "anchor", "measurement", "lab", "sampling", "certificate",
      "authorization", "customs", "custody", "baton", "checkpoint", "delivery", "cistern",
      "offline", "transport", "document", "batch", "vehicle", "tank", "station", "user">>

-------------------------------------------------------------------------------
(* The rows, in the order they are written. *)

SeedUsers ==
    Insert([user |-> {[key |-> u[1], role |-> u[2], station |-> "none"] : u \in
      {<<"auditor", "AUDITOR">>, <<"importador", "IMPORTER">>, <<"chofer", "TRANSPORTER">>,
       <<"deposito", "DEPOT_OPERATOR">>, <<"lab", "LAB">>, <<"estacion", "STATION_STAFF">>,
       <<"anh", "VERIFIER">>, <<"ciudadano", "CITIZEN">>, <<"auditor.demo", "AUDITOR">>}}])

SeedDepot ==
    Insert([vehicle |-> {[key |-> "VEH-DEMO-001"]},
            tank |-> {[key |-> <<"depot", 1>>, capacity |-> 200000, stock |-> 160000]}])

\* Stations: code, and of each tank its capacity and what it holds.
StationsToTheNorth ==
    {<<"CBB-01", << <<45000, 28600>>, <<32000, 12400>> >> >>,
     <<"CBB-02", << <<40000, 17500>> >> >>, <<"CBB-03", << <<38000, 5100>> >> >>,
     <<"CBB-04", << <<35000, 16200>> >> >>, <<"CBB-05", << <<28000, 600>> >> >>,
     <<"CBB-06", << <<42000, 35100>> >> >>, <<"CBB-07", << <<40000, 19800>> >> >>}

StationsOfTheAxis ==
    {<<"CBB-08", << <<30000, 3800>> >> >>, <<"CBB-09", << <<36000, 30100>> >> >>,
     <<"CBB-10", << <<32000, NoLitres>> >> >>, <<"LPZ-01", << <<50000, 22000>> >> >>,
     <<"LPZ-02", << <<38000, 9100>> >> >>, <<"SCZ-01", << <<55000, 41200>> >> >>,
     <<"SCZ-02", << <<42000, 7800>> >> >>}

StationsElsewhere ==
    {<<"ORU-01", << <<36000, 15400>> >> >>, <<"PTS-01", << <<30000, 4200>> >> >>,
     <<"TJA-01", << <<40000, 26800>> >> >>, <<"CHQ-01", << <<34000, 18900>> >> >>,
     <<"BEN-01", << <<32000, 11200>> >> >>, <<"PND-01", << <<28000, 6400>> >> >>}

\* A tank nobody has read is empty and has no measurement.
seedBoliviaStations ==
    LET defs == StationsToTheNorth \cup StationsOfTheAxis \cup StationsElsewhere
        tanks == UNION {{[key |-> <<d[1], i>>, capacity |-> d[2][i][1], fill |-> d[2][i][2]] :
                           i \in DOMAIN d[2]} : d \in defs}
    IN Insert([station |-> {[key |-> d[1]] : d \in defs},
               tank |-> {[key |-> t.key, capacity |-> t.capacity,
                          stock |-> IF t.fill = NoLitres THEN 0 ELSE t.fill] : t \in tanks},
               measurement |-> {[key |-> <<"tank", t.key[1], t.key[2]>>, tank |-> t.key, litres |-> t.fill] :
                                  t \in {x \in tanks : x.fill # NoLitres}}])

\* The first station's staff.
Posted == [post |-> "CBB-01"]

Batch181 == Insert([batch |-> {[key |-> 181, declared |-> 100000, status |-> "COMPLETED",
                                delivered |-> 0]}])
Batch182 == Insert([batch |-> {[key |-> 182, declared |-> 150000, status |-> "IN_TRANSIT",
                                delivered |-> 0]}])
Batch184 == Insert([batch |-> {[key |-> 184, declared |-> 100000, status |-> "AUDIT_REQUIRED",
                                delivered |-> 0]}])

Sheet(b, n) == {[key |-> <<b, i>>] : i \in 1..n}
createCoreDocs(b) == Insert([document |-> Sheet(b, 4)])

\* Authorization, journey, customs, sample, analysis and certificate of a batch.
Permits(b) == Insert([authorization |-> Sheet(b, 1), transport |-> Sheet(b, 1)])
Tested(b) == Insert([customs |-> Sheet(b, 1), sampling |-> Sheet(b, 1), lab |-> Sheet(b, 1),
                     certificate |-> Sheet(b, 1)])
Sensor(b, litres) ==
    Insert([measurement |-> {[key |-> <<"batch", "sensor", b>>, tank |-> <<"depot", 1>>, litres |-> litres]}])

\* One batch's custody: kind, hours, declared, measured.
Custody(b, steps) ==
    Insert([custody |-> {[key |-> <<"own", b, s[2]>>, batch |-> b, kind |-> s[1], hours |-> s[2],
                          declared |-> s[3], measured |-> s[4]] : s \in steps}])

HappyCustody ==
    Custody(181, {<<"CREATED", 120, 100000, NoLitres>>, <<"LOADED", 100, 100000, NoLitres>>,
      <<"INSPECTED", 98, 100000, NoLitres>>, <<"IN_TRANSIT", 90, 100000, NoLitres>>,
      <<"ENTERED_COUNTRY", 72, 100000, 99980>>, <<"CUSTOMS", 70, 100000, 99980>>,
      <<"RECEIVED", 60, 100000, 99950>>, <<"SAMPLED", 58, NoLitres, NoLitres>>,
      <<"LAB_ANALYSIS", 50, NoLitres, NoLitres>>, <<"CERTIFIED", 48, NoLitres, NoLitres>>,
      <<"STORED", 40, NoLitres, 99950>>, <<"DISPATCHED", 24, NoLitres, 99950>>,
      <<"DELIVERED", 12, NoLitres, 99940>>})

seedInTransit ==
    Custody(182, {<<"CREATED", 72, 150000, NoLitres>>, <<"LOADED", 48, 150000, NoLitres>>,
      <<"INSPECTED", 40, 150000, NoLitres>>, <<"IN_TRANSIT", 24, 150000, NoLitres>>})

AuditCustody ==
    Custody(184, {<<"CREATED", 200, 100000, NoLitres>>, <<"LOADED", 180, 100000, NoLitres>>,
      <<"INSPECTED", 178, 100000, NoLitres>>, <<"IN_TRANSIT", 160, 100000, NoLitres>>,
      <<"ENTERED_COUNTRY", 120, 100000, 99900>>, <<"CUSTOMS", 118, 100000, 99900>>,
      <<"RECEIVED", 100, 100000, 99900>>, <<"SAMPLED", 90, NoLitres, NoLitres>>,
      <<"LAB_ANALYSIS", 80, NoLitres, NoLitres>>, <<"CERTIFIED", 70, NoLitres, NoLitres>>,
      <<"STORED", 60, NoLitres, 98700>>})

\* The anomaly of the third batch, its case and the note, and the anchors.
HeldForAudit ==
    Insert([anomaly |-> {[key |-> 1, batch |-> 184]},
            case |-> {[key |-> 1, batch |-> 184, anomaly |-> 1]},
            note |-> {[key |-> 1]}])
Anchors(b, n) == Insert([anchor |-> Sheet(b, n)])

\* Fifty cisterns; from the fifth on every third is on its way.
FleetLoad(i) == CASE i = 1 -> 8000
                  [] i = 2 -> 7500
                  [] OTHER -> IF i > 4 /\ i % 3 = 0 THEN 5000 + (i % 7) * 250 ELSE 0
FleetBatch(i) == IF i = 1 \/ (i # 2 /\ i % 2 = 0) THEN 182 ELSE 184
FleetDriver(i) == IF i = 1 \/ (i > 4 /\ i % 15 = 0) THEN "chofer" ELSE "none"

mkCistern ==
    Insert([cistern |-> {[key |-> i, load |-> FleetLoad(i), driver |-> FleetDriver(i),
                          batch |-> IF FleetLoad(i) > 0 THEN FleetBatch(i) ELSE 0] : i \in 1..50}])

\* Trips: station, batch, cistern, litres loaded and received, hours loaded and
\* delivered (0 while on the way).
trips ==
    << <<"CBB-01", 182, 3, 8500, 8480, 46, 44>>, <<"CBB-01", 181, 4, 7200, 7185, 20, 18>>,
       <<"CBB-01", 182, 1, 8000, NoLitres, 3, 0>>, <<"CBB-02", 182, 3, 8000, 7970, 40, 38>>,
       <<"CBB-03", 184, 4, 6500, 6480, 36, 34>>, <<"CBB-05", 182, 3, 5000, 4990, 52, 50>>,
       <<"CBB-06", 181, 4, 9000, 8990, 28, 26>>, <<"CBB-08", 184, 3, 6000, 5950, 24, 22>>,
       <<"CBB-04", 182, 2, 7500, NoLitres, 5, 0>> >>

Trip(n, t) == [key |-> n, station |-> t[1], batch |-> t[2], cistern |-> t[3], loaded |-> t[4],
               received |-> t[5], from |-> t[6], to |-> t[7]]

\* Each trip with its baton and its custody event.
SeedTrip(n) ==
    LET t == Trip(n, trips[n])
        over == t.to > 0
    IN Insert([delivery |-> {t},
               baton |-> {[key |-> n, delivery |-> n, status |-> IF over THEN "CONSUMED" ELSE "ACTIVE"]},
               custody |-> {[key |-> <<"trip", n, 0>>, batch |-> t.batch,
                             kind |-> IF over THEN "RECEIVED" ELSE "IN_TRANSIT",
                             hours |-> IF over THEN t.to ELSE t.from, declared |-> t.loaded,
                             measured |-> IF over THEN t.received ELSE t.loaded]}])

\* The map the loop has filled is written to the batches.
deliveredByBatch ==
    LET Done(b) == {n \in DOMAIN trips : trips[n][2] = b /\ trips[n][7] > 0} IN
    [totals |-> [b \in {181, 182, 184} |-> SumFunction([n \in Done(b) |-> trips[n][5]])]]

\* Three samples of a trip, the last three litres short.
Samples3(d) == {[key |-> <<d.key, less>>, delivery |-> d.key, cistern |-> d.cistern,
                 litres |-> d.loaded - less] : less \in {0, 1, 3}}

\* Three samples for whatever is on its way by now.
Sampled == [samples |-> "IN_TRANSIT"]

\* The cisterns on their way that have no trip yet get one to the first station.
FleetTrips == [fleet |-> "CBB-01"]

\* The depot, the stations, the three batches and the cisterns.
SeedRows ==
    <<SeedUsers, SeedDepot, seedBoliviaStations, Posted,
      Batch181, createCoreDocs(181), Permits(181), HappyCustody, Tested(181),
      Sensor(181, 99940), Anchors(181, 1),
      Batch182, createCoreDocs(182), Permits(182), seedInTransit,
      Batch184, createCoreDocs(184), Permits(184), AuditCustody, Tested(184),
      Sensor(184, 98650), HeldForAudit, Anchors(184, 3), mkCistern>>

main ==
    [i \in DOMAIN resetDemo |-> Clear(resetDemo[i])] \o SeedRows
      \o [n \in DOMAIN trips |-> SeedTrip(n)]
      \o <<deliveredByBatch, Sampled, FleetTrips>>

-------------------------------------------------------------------------------
(* Rows that depend on others, and the passport. *)

Empty == [t \in Tables |-> {}]
OpenTrips(w) == {d \in w["delivery"] : d.to = 0}

SeedingInit ==
    /\ world = Empty /\ at = 0 /\ running = FALSE /\ refused = FALSE
    /\ starts = 0 /\ touches = 0 /\ touched = FALSE

\* A world with more rows.
Plus(w, rows) == [t \in Tables |-> w[t] \cup (IF t \in DOMAIN rows THEN rows[t] ELSE {})]

FleetTrip(c, n) ==
    Trip(n, <<"CBB-01", c.batch, c.key, c.load, NoLitres, 6 + (n % 4), 0>>)

\* The first station's staff is posted.
Manned(w, station) ==
    [w EXCEPT !["user"] = {IF u.key = "estacion" THEN [u EXCEPT !.station = station] ELSE u : u \in @}]

Booked(w, totals) ==
    [w EXCEPT !["batch"] = {[b EXCEPT !.delivered = totals[b.key]] : b \in @}]

Watched(w) == Plus(w, [checkpoint |-> UNION {Samples3(d) : d \in OpenTrips(w)}])

SentOut(w) ==
    LET free == {c \in w["cistern"] : /\ c.key > 2 /\ c.load > 0
                                      /\ \A d \in OpenTrips(w) : d.cistern # c.key}
        new == {FleetTrip(c, 100 + c.key) : c \in free}
    IN Plus(w, [delivery |-> new, checkpoint |-> UNION {Samples3(d) : d \in new}])

\* What a statement makes of a world; nothing if a foreign key or a unique key refuses it.
Results(w, s) ==
    CASE "clear" \in DOMAIN s ->
           IF \E link \in Forbids : link[2] = s.clear /\ w[link[1]] # {} THEN {}
           ELSE {[t \in Tables |-> IF t \in {s.clear} \cup Cascade(s.clear) THEN {} ELSE w[t]]}
      [] "insert" \in DOMAIN s ->
           IF \E t \in DOMAIN s.insert : Keys(s.insert[t]) \cap Keys(w[t]) # {} THEN {}
           ELSE {Plus(w, s.insert)}
      [] "post" \in DOMAIN s -> {Manned(w, s.post)}
      [] "totals" \in DOMAIN s -> {Booked(w, s.totals)}
      [] "samples" \in DOMAIN s -> {Watched(w)}
      [] OTHER -> {SentOut(w)}

\* The custody events of a batch by their time.
Eventlog(b) ==
    LET events == {e \in world["custody"] : e.batch = b} IN
    [time \in {-e.hours : e \in events} |-> CHOOSE e \in events : e.hours = -time]

\* A batch has one measurement at most.
Sensed(b) == LET own == {x \in world["measurement"] : x.key = <<"batch", "sensor", b>>} IN
             IF own = {} THEN NoLitres ELSE (CHOOSE x \in own : TRUE).litres

\* Every anomaly of the seed is OPEN: somebody has to look at it.
getPassport(b) ==
    LET deliveries == {d \in world["delivery"] : d.batch = b.key} IN
    [quantity |-> buildQuantityReconciliation(b.declared, Eventlog(b.key), Sensed(b.key)),
     deliveries |-> deliveries,
     batons |-> {t \in world["baton"] : \E d \in deliveries : d.key = t.delivery},
     checkpoints |-> {p \in world["checkpoint"] : \E d \in deliveries : d.key = p.delivery},
     review |-> {a \in world["anomaly"] : a.batch = b.key},
     audits |-> {c \in world["case"] : c.batch = b.key}]

-------------------------------------------------------------------------------
(* The run. *)

StartSeed ==
    /\ ~running /\ starts < MaxStarts
    /\ at' = 1 /\ running' = TRUE /\ refused' = FALSE /\ starts' = starts + 1
    /\ touched' = FALSE
    /\ UNCHANGED <<world, touches>>

Execute ==
    /\ running /\ at <= Len(main)
    /\ IF Results(world, main[at]) = {} THEN /\ refused' = TRUE /\ running' = FALSE
                                      /\ UNCHANGED <<world, at>>
       ELSE /\ world' \in Results(world, main[at]) /\ at' = at + 1
            /\ running' = (at < Len(main)) /\ UNCHANGED refused
    /\ UNCHANGED <<starts, touches, touched>>

\* The process is killed; its statements stay.
Killed ==
    /\ running /\ running' = FALSE
    /\ UNCHANGED <<world, at, refused, starts, touches, touched>>

\* The API dispatches a cistern, a logger's sample arrives, or a trip is received
\* and settled.
Touch ==
    /\ touches < MaxTouches /\ touches' = touches + 1 /\ touched' = TRUE
    /\ LET free == {c \in world["cistern"] : c.key = 3 /\ \A d \in OpenTrips(world) : d.cistern # 3}
           seen == {d \in OpenTrips(world) : d.cistern \in {1, 3}}
       IN \/ \E c \in free, s \in world["station"] :
               /\ s.key = "CBB-02" /\ \E b \in world["batch"] : b.key = 182
               /\ world' = [world EXCEPT
                    !["delivery"] = @ \cup {Trip(200 + touches, <<s.key, 182, 3, 5000, NoLitres, 1, 0>>)}]
          \/ \E d \in seen :
               world' = [world EXCEPT !["checkpoint"] = @ \cup
                           {[key |-> <<d.key, 9>>, delivery |-> d.key, cistern |-> d.cistern,
                             litres |-> d.loaded]}]
          \/ \E d \in seen :
               world' = [world EXCEPT
                 !["delivery"] = (@ \ {d}) \cup {[d EXCEPT !.to = 1, !.received = d.loaded]},
                 !["settlement"] = @ \cup {[key |-> d.key]}]
    /\ UNCHANGED <<at, running, refused, starts>>

SeedingNext == StartSeed \/ Execute \/ Killed \/ Touch

-------------------------------------------------------------------------------
(* Properties. *)

Finished == ~running /\ at > Len(main)

\* The world the seed must leave.
SoundFleet ==
    /\ \A c \in world["cistern"] :
         LET open == {d \in OpenTrips(world) : d.cistern = c.key} IN
         /\ c.load > 0 <=> Cardinality(open) = 1
         /\ \A d \in open : d.loaded = c.load
    /\ \A d, e \in world["delivery"] :
         d # e /\ d.cistern = e.cistern => d.to >= e.from \/ e.to >= d.from

SoundBooks ==
    \A b \in world["batch"] :
      LET page == getPassport(b)
          done == {d \in page.deliveries : d.to > 0}
          open == page.deliveries \ done
          own == {e \in world["custody"] : e.batch = b.key /\ e.kind = "RECEIVED" /\ e.declared = b.declared}
      IN /\ b.delivered = SumFunction([d \in done |-> d.received])
         /\ b.delivered + SumFunction([d \in open |-> d.loaded]) <= b.declared
         /\ page.quantity.totalGapLiters =
              SumFunction([d \in done |-> d.received - d.loaded])
                + SumFunction([e \in own |-> e.measured - e.declared])
         /\ Cardinality(DOMAIN page.quantity.movements) = Cardinality(done) + Cardinality(own)
         /\ \A d \in done : (\A e \in done : d.to <= e.to) => page.quantity.received = d.received
         /\ \A t \in page.batons : t.status = "ACTIVE" <=> \E d \in open : d.key = t.delivery
         /\ {d.key : d \in open} = {p.delivery : p \in page.checkpoints}
         /\ page.review # {} <=> reconcileMovement(b.declared, page.quantity.sensor) = "ANOMALY"
         /\ b.status = "AUDIT_REQUIRED" <=> page.review # {} /\ page.audits # {}

SoundRows ==
    /\ \A t \in world["tank"] : t.stock <= t.capacity
    /\ \A p \in world["checkpoint"] :
         \E d \in OpenTrips(world) : d.key = p.delivery /\ d.cistern = p.cistern /\ p.litres > 0
    /\ \A u \in world["user"] :
         u.role = "STATION_STAFF" <=> \E s \in world["station"] : s.key = u.station
    /\ world["settlement"] = {}

\* Whatever an earlier run or the API left behind, and wherever an earlier run was
\* killed, a run the API leaves alone is never refused, and the world it finishes
\* with adds up: each loaded cistern is on exactly one trip with its litres, no
\* cistern was on two trips at once, batches neither promise nor deliver more than
\* they have, and every passport agrees with itself: the movements' gap is what
\* trips and depot lost, a baton is out for every trip that is, samples are those of
\* trips on their way, and a batch is held exactly where the sensor is out of
\* tolerance (while the last reception it shows is the last trip's, not the depot's).
SeededWorldAddsUp ==
    /\ refused => touched
    /\ Finished /\ ~touched => SoundFleet /\ SoundBooks /\ SoundRows
===============================================================================
