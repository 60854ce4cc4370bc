------------------------------ MODULE Road_proofs ------------------------------
(***************************************************************************)
(* What the sticker's reception, the road samples and the payment keep,    *)
(* for any requests at a time, any trips, stations, users and readings.    *)
(***************************************************************************)
EXTENDS Road, SumTheorems

Steps == {"idle", "upload", "look", "find", "measure", "receive", "fill", "count", "note",
          "mark", "pay"}

Room(d) == TankCap[TripOf[d].station]

Names == {"goal", "user", "cistern", "trip", "vol", "batch", "samples", "left", "row", "stock",
          "counted"}

\* What a request at its next call has read fits that call.
Fits(step, w) ==
    /\ step \in Steps
    /\ step # "idle" => w.user \in Users /\ DOMAIN w = Names
    /\ step \in {"upload", "look", "find", "measure"} => w.vol \in Int \cup {None}
    /\ step = "upload" => \E S : /\ w.samples \in Seq(S) /\ w.left \in Seq(S)
                                 /\ \A x \in S : x.vol \in Int
    /\ step = "note" => Head(w.left).vol \in Int
    /\ step \in {"measure", "receive", "fill", "count"} =>
         w.trip \in Trips /\ MayReceive(w.user, w.trip)
    /\ step \in {"receive", "fill", "count"} => w.vol \in Int
    /\ step \in {"fill", "count"} => w.stock \in 0..Room(w.trip)
    /\ step = "count" => Accepts(TripOf[w.trip].station, w.stock, w.vol)
    /\ step = "pay" => w.trip \in Trips /\ MayPay(w.user, w.trip)

HandlersOK ==
    /\ DOMAIN pc = Requests /\ DOMAIN work = Requests
    /\ \A r \in Requests : Fits(pc[r], work[r])

Receptions == [by : Users \cup {"baton"}, vol : Int]

\* Every row has its type, and no tank is fuller than it can be.
RowsOK ==
    /\ baton \in [Trips -> BOOLEAN]
    /\ receptions \in [Trips -> Seq(Receptions)]
    /\ settlement \in [Trips -> Settlements \cup {None}]
    /\ tank \in [Stations -> Int] /\ \A s \in Stations : tank[s] \in 0..TankCap[s]
    /\ arrived \subseteq Trips
    /\ \A row \in trail : row.vol \in Int

-------------------------------------------------------------------------------
(* The latest of some trips is one of them. *)

\* Newest picks a trip from any trips that are not none.
LEMMA NewestIsOne ==
    ASSUME NEW D, D \subseteq Trips, D # {}
    PROVE  Newest(D) \in D
<1> DEFINE before(d) == Latest - TripOf[d].loadedAt
           T == {before(d) : d \in D}
<1>1. \A d \in D : TripOf[d].loadedAt \in Nat /\ before(d) \in Nat
  BY RoadConstantsAssumption DEF Sources
<1>2. T \subseteq Nat /\ T # {}
  BY <1>1
<1> HIDE DEF T
<1>3. \E x \in T : \A y \in T : <<y, x>> \notin OpToRel(<, Nat)
  BY <1>2, NatLessThanWellFounded, WFMin, Zenon
<1>4. PICK x \in T : \A y \in T : ~(y < x)
  BY <1>2, <1>3, Zenon DEF OpToRel
<1>5. PICK d \in D : x = before(d)
  BY <1>4 DEF T
<1>6. \A e \in D : before(e) \in T
  BY DEF T
<1>7. \A e \in D : ~(before(e) < before(d))
  BY <1>4, <1>5, <1>6
<1>8. \A e \in D : TripOf[e].loadedAt <= TripOf[d].loadedAt
  BY <1>1, <1>7, RoadConstantsAssumption
<1>9. QED BY <1>8 DEF Newest

\* The open trip a user means is a trip.
LEMMA ActiveIsTrip ==
    ASSUME NEW c \in Cisterns, NEW u \in Users
    PROVE  activeDelivery(c, u) \in Trips \cup {None}
<1>1. OpenTripsOf(c) \subseteq Trips
  BY DEF OpenTripsOf, TripsOf
<1>2. QED BY <1>1, NewestIsOne DEF activeDelivery

-------------------------------------------------------------------------------
(* What every request carries fits its next call. *)

\* A request that moves to a call its locals fit leaves the others as they were.
LEMMA GotoFits ==
    ASSUME HandlersOK, NEW r \in Requests, NEW step, NEW w, Goto(r, step, w), Fits(step, w)
    PROVE  /\ HandlersOK'
           /\ \A q \in Requests : /\ pc'[q] = IF q = r THEN step ELSE pc[q]
                                  /\ work'[q] = IF q = r THEN w ELSE work[q]
  BY DEF HandlersOK, Goto

\* Whatever a request has read before, it may return.
LEMMA IdleFits == Fits("idle", None)
BY DEF Fits, Steps

\* A scan is sent no samples, or those of the logger: litres in either case.
LEMMA SamplesFit ==
    ASSUME NEW c \in Cisterns, NEW samples \in {<< >>, Buffer[c]}
    PROVE  \E S : samples \in Seq(S) /\ \A x \in S : x.vol \in Int
<1>1. CASE samples = << >>
  BY <1>1
<1>2. CASE samples = Buffer[c]
  BY <1>2, RoadConstantsAssumption
<1>3. QED BY <1>1, <1>2

\* Invented samples report litres.
LEMMA DemoFits ==
    ASSUME NEW d \in Trips
    PROVE  \E S : demoTrailFromDelivery(d) \in Seq(S) /\ \A x \in S : x.vol \in Int
<1> DEFINE t == TripOf[d]
           x1 == [id |-> <<d, "load">>, vol |-> t.loaded, at |-> t.loadedAt]
           x2 == [id |-> <<d, "wp1">>, vol |-> t.loaded - 1, at |-> t.loadedAt + 2]
           x3 == [id |-> <<d, "wp2">>, vol |-> t.loaded - 3, at |-> t.loadedAt + 5]
<1>1. t.loaded \in Int
  BY RoadConstantsAssumption DEF Sources
<1>2. x1.vol \in Int /\ x2.vol \in Int /\ x3.vol \in Int
  BY <1>1
<1>3. demoTrailFromDelivery(d) = <<x1, x2, x3>>
  BY DEF demoTrailFromDelivery
<1> HIDE DEF x1, x2, x3
<1> DEFINE S == {x1, x2, x3}
<1>4. <<x1, x2, x3>> \in Seq(S)
  OBVIOUS
<1>5. \A x \in S : x.vol \in Int
  BY <1>2
<1> HIDE DEF S
<1>6. QED BY <1>3, <1>4, <1>5

\* A scan starts with samples, its own or invented ones.
LEMMA ScanFits ==
    ASSUME NEW r \in Requests, NEW u \in Users, NEW c \in Cisterns,
           NEW samples \in {<< >>, Buffer[c]}, NEW goal, NEW v \in Reported \cup {None},
           ScanStart(r, u, c, samples, goal, v)
    PROVE  \E w : /\ Goto(r, "upload", w) /\ Fits("upload", w) /\ w.samples = w.left
<1> DEFINE d == activeDelivery(c, u)
           todo == IF samples = << >> /\ d # None THEN demoTrailFromDelivery(d) ELSE samples
           b == IF d # None THEN TripOf[d].batch ELSE cistern[c].batch
           w == Locals(goal, u, c, d, v, b, todo)
<1>1. Goto(r, "upload", w)
  BY DEF ScanStart
<1>2. \E S : todo \in Seq(S) /\ \A x \in S : x.vol \in Int
  BY ActiveIsTrip, SamplesFit, DemoFits
<1> HIDE DEF d, todo, b
<1>3. w.user = u /\ w.vol = v /\ w.samples = todo /\ w.left = todo
  BY DEF Locals
<1>4. v \in Int \cup {None}
  BY RoadConstantsAssumption
<1>5. Fits("upload", w)
  <2>1. DOMAIN w = Names
    BY DEF Locals, Names
  <2>2. QED BY <1>2, <1>3, <1>4, <2>1 DEF Fits, Steps
<1>6. QED BY <1>1, <1>3, <1>5

\* A road sample starts.
LEMMA NoteFits ==
    ASSUME NEW r \in Requests, NEW u \in Users, NEW n \in Notes, NoteStart(r, u, n)
    PROVE  \E w : Goto(r, "note", w) /\ Fits("note", w)
<1>1. PICK c, d, b : Goto(r, "note", Locals("note", u, c, d, n.vol, b, <<n>>))
  BY DEF NoteStart
<1> DEFINE w == Locals("note", u, c, d, n.vol, b, <<n>>)
<1>2. w.user = u /\ w.left = <<n>>
  BY DEF Locals
<1>3. Fits("note", w)
  <2>1. DOMAIN w = Names
    BY DEF Locals, Names
  <2> HIDE DEF w
  <2>2. Head(<<n>>) = n
    OBVIOUS
  <2>3. n.vol \in Int
    BY RoadConstantsAssumption
  <2>4. Head(w.left).vol \in Int
    BY <1>2, <2>2, <2>3
  <2>5. QED BY <1>2, <2>1, <2>4 DEF Fits, Steps
<1>4. QED BY <1>1, <1>3

\* A payment starts.
LEMMA PayFits ==
    ASSUME NEW r \in Requests, NEW u \in Users, NEW d \in Trips, PayStart(r, u, d)
    PROVE  \E w : Goto(r, "pay", w) /\ Fits("pay", w) /\ w.trip = d
<1> DEFINE w == Locals("pay", u, TripOf[d].cistern, d, None, None, << >>)
<1>1. Goto(r, "pay", w) /\ MayPay(u, d)
  BY DEF PayStart
<1>2. w.user = u /\ w.trip = d
  BY DEF Locals
<1>3. Fits("pay", w)
  <2>1. DOMAIN w = Names
    BY DEF Locals, Names
  <2>2. QED BY <1>1, <1>2, <2>1 DEF Fits, Steps
<1>4. QED BY <1>1, <1>2, <1>3

\* The litres of a trip's last sample are litres.
LEMMA MeasuredIsInt ==
    ASSUME RowsOK, NEW d \in Trips, NEW v \in LastMeasured(d)
    PROVE  v \in Int
<1>1. TripOf[d].loaded \in Int
  BY RoadConstantsAssumption DEF Sources
<1>2. QED BY <1>1 DEF LastMeasured, RowsOK

\* A step of a request other than Count leads to a call that what it carries fits.
LEMMA StepFits ==
    ASSUME RowsOK, HandlersOK, NEW r \in Requests,
           Upload(r) \/ Park(r) \/ Look(r) \/ Find(r) \/ Measure(r) \/ Receive(r) \/ Fill(r)
             \/ Note(r) \/ Mark(r) \/ Pay(r) \/ Abort(r)
    PROVE  \E step, w :
             /\ Goto(r, step, w) /\ Fits(step, w)
             /\ step = "fill" => Receive(r) /\ w.trip = work[r].trip
             /\ step = "count" => Fill(r) /\ w.trip = work[r].trip /\ ~ArrivalTaken(w.trip)
             /\ step = "upload" => /\ Upload(r) /\ w.samples = work[r].samples
                                  /\ w.left = Tail(work[r].left)
             /\ step # "pay"
<1> DEFINE w == work[r]
           Goal(step, x) ==
             /\ Goto(r, step, x) /\ Fits(step, x)
             /\ step = "fill" => Receive(r) /\ x.trip = work[r].trip
             /\ step = "count" => Fill(r) /\ x.trip = work[r].trip /\ ~ArrivalTaken(x.trip)
             /\ step = "upload" => /\ Upload(r) /\ x.samples = work[r].samples
                                  /\ x.left = Tail(work[r].left)
             /\ step # "pay"
<1>0. Fits(pc[r], w)
  BY DEF HandlersOK
<1>1. CASE Return(r)
  <2>1. Goal("idle", None)
    BY <1>1, IdleFits DEF Return
  <2>2. QED BY <2>1
<1>2. CASE Upload(r)
  <2> DEFINE x == [w EXCEPT !.left = Tail(@)]
  <2>1. Goto(r, "upload", x) /\ pc[r] = "upload" /\ w.left # << >>
    BY <1>2 DEF Upload
  <2>2. DOMAIN w = Names /\ w.user \in Users /\ w.vol \in Int \cup {None}
    BY <1>0, <2>1 DEF Fits
  <2>3. PICK S : /\ w.samples \in Seq(S) /\ w.left \in Seq(S) /\ \A y \in S : y.vol \in Int
    BY <1>0, <2>1 DEF Fits
  <2>4. Tail(w.left) \in Seq(S)
    BY <2>1, <2>3
  <2>5. /\ DOMAIN x = Names /\ x.user = w.user /\ x.vol = w.vol
        /\ x.samples = w.samples /\ x.left = Tail(w.left)
    BY <2>2 DEF Names
  <2> HIDE DEF x, w
  <2>6. Fits("upload", x)
    BY <2>2, <2>3, <2>4, <2>5 DEF Fits, Steps
  <2>7. Goal("upload", x)
    BY <1>2, <2>1, <2>5, <2>6 DEF w
  <2> HIDE DEF Goal
  <2>8. QED BY <2>7 DEF Goal
<1>3. CASE Park(r)
  <2>1. CASE Goto(r, "look", w)
    <3>1. Fits("look", w)
      BY <1>0, <1>3 DEF Park, Fits, Steps
    <3>2. Goal("look", w)
      BY <2>1, <3>1
    <3>3. QED BY <3>2
  <2>2. QED BY <1>1, <1>3, <2>1 DEF Park
<1>4. CASE Look(r)
  <2> DEFINE x == [w EXCEPT !.row = cistern[w.cistern]]
  <2>1. Goto(r, "find", x) /\ pc[r] = "look"
    BY <1>4 DEF Look
  <2>2. DOMAIN w = Names /\ w.user \in Users /\ w.vol \in Int \cup {None}
    BY <1>0, <2>1 DEF Fits
  <2>3. DOMAIN x = Names /\ x.user = w.user /\ x.vol = w.vol
    BY <2>2 DEF Names
  <2> HIDE DEF x, w
  <2>4. Fits("find", x)
    BY <2>2, <2>3 DEF Fits, Steps
  <2>5. Goal("find", x)
    BY <2>1, <2>4
  <2>6. QED BY <2>5
<1>5. CASE Find(r)
  <2> DEFINE d == activeDelivery(w.cistern, w.user)
             x == [w EXCEPT !.trip = d]
  <2>1. CASE d # None /\ MayReceive(w.user, d) /\ Goto(r, "measure", x)
    <3>1. DOMAIN w = Names /\ w.user \in Users /\ w.vol \in Int \cup {None}
      BY <1>0, <1>5 DEF Find, Fits
    <3>2. DOMAIN x = Names /\ x.user = w.user /\ x.vol = w.vol /\ x.trip = d
      BY <3>1 DEF Names
    <3>3. d \in Trips
      BY <2>1, <3>1, NewestIsOne DEF activeDelivery, OpenTripsOf, TripsOf
    <3> HIDE DEF x, d, w
    <3>4. Fits("measure", x)
      BY <2>1, <3>1, <3>2, <3>3 DEF Fits, Steps
    <3>5. Goal("measure", x)
      BY <2>1, <3>4
    <3>6. QED BY <3>5
  <2>2. QED BY <1>1, <1>5, <2>1 DEF Find
<1>6. CASE Measure(r)
  <2>1. pc[r] = "measure"
    BY <1>6 DEF Measure
  <2>2. /\ DOMAIN w = Names /\ w.user \in Users /\ w.vol \in Int \cup {None}
        /\ w.trip \in Trips /\ MayReceive(w.user, w.trip)
    BY <1>0, <2>1 DEF Fits
  <2>3. PICK v : /\ v \in IF w.vol # None THEN {w.vol} ELSE LastMeasured(w.trip)
                 /\ Goto(r, "receive", [w EXCEPT !.vol = v])
    BY <1>6 DEF Measure
  <2> DEFINE x == [w EXCEPT !.vol = v]
  <2>4. v \in Int
    BY <2>2, <2>3, MeasuredIsInt
  <2>5. DOMAIN x = Names /\ x.user = w.user /\ x.vol = v /\ x.trip = w.trip
    BY <2>2 DEF Names
  <2>6. Goto(r, "receive", x)
    BY <2>3
  <2> HIDE DEF x, w
  <2>7. Fits("receive", x)
    BY <2>2, <2>4, <2>5 DEF Fits, Steps
  <2>8. Goal("receive", x)
    BY <2>6, <2>7
  <2>9. QED BY <2>8
<1>7. CASE Receive(r)
  <2> DEFINE x == [w EXCEPT !.stock = tank[TripOf[w.trip].station]]
  <2>1. Goto(r, "fill", x) /\ pc[r] = "receive"
    BY <1>7 DEF Receive
  <2>2. /\ DOMAIN w = Names /\ w.user \in Users /\ w.vol \in Int
        /\ w.trip \in Trips /\ MayReceive(w.user, w.trip)
    BY <1>0, <2>1 DEF Fits
  <2>3. /\ DOMAIN x = Names /\ x.user = w.user /\ x.vol = w.vol /\ x.trip = w.trip
        /\ x.stock = tank[TripOf[w.trip].station]
    BY <2>2 DEF Names
  <2>4. TripOf[w.trip].station \in Stations
    BY <2>2, RoadConstantsAssumption DEF Sources
  <2>5. x.stock \in 0..Room(w.trip)
    BY <2>3, <2>4 DEF RowsOK, Room
  <2> HIDE DEF x
  <2>6. Fits("fill", x)
    BY <2>2, <2>3, <2>5 DEF Fits, Steps
  <2>7. Goal("fill", x)
    BY <1>7, <2>1, <2>3, <2>6
  <2>8. QED BY <2>7
<1>8. CASE Fill(r)
  <2> DEFINE x == [w EXCEPT !.counted = delivered[TripOf[w.trip].batch]]
  <2>1. CASE /\ Accepts(TripOf[w.trip].station, w.stock, w.vol)
             /\ ~ArrivalTaken(w.trip) /\ Goto(r, "count", x)
    <3>1. /\ DOMAIN w = Names /\ w.user \in Users /\ w.vol \in Int
          /\ w.trip \in Trips /\ MayReceive(w.user, w.trip) /\ w.stock \in 0..Room(w.trip)
      BY <1>0, <1>8 DEF Fill, Fits
    <3>2. /\ DOMAIN x = Names /\ x.user = w.user /\ x.vol = w.vol /\ x.trip = w.trip
          /\ x.stock = w.stock
      BY <3>1 DEF Names
    <3> HIDE DEF x
    <3>3. Fits("count", x)
      BY <2>1, <3>1, <3>2 DEF Fits, Steps, Room
    <3>4. Goal("count", x)
      BY <1>8, <2>1, <3>2, <3>3
    <3>5. QED BY <3>4
  <2>2. QED BY <1>1, <1>8, <2>1 DEF Fill
<1>9. CASE Note(r)
  <2>1. CASE Goto(r, "mark", w)
    <3>1. Fits("mark", w)
      BY <1>0, <1>9 DEF Note, Fits, Steps
    <3>2. Goal("mark", w)
      BY <2>1, <3>1
    <3>3. QED BY <3>2
  <2>2. QED BY <1>1, <1>9, <2>1 DEF Note
<1>10. CASE Mark(r) \/ Pay(r) \/ Abort(r)
  BY <1>1, <1>10 DEF Mark, Pay, Abort
<1>11. QED BY <1>2, <1>3, <1>4, <1>5, <1>6, <1>7, <1>8, <1>9, <1>10

-------------------------------------------------------------------------------
(* The invariant. *)

Inside(r) == pc[r] \in {"fill", "count"}

\* A trip is in one transaction at most, and one past its check has no arrival yet.
LockInv ==
    /\ \A q, r \in Requests : Inside(q) /\ Inside(r) /\ q # r => work[q].trip # work[r].trip
    /\ \A r \in Requests : pc[r] = "count" => work[r].trip \notin arrived

\* The receptions of a trip are those its arrival row and its baton tell of.
Paths(d) ==
    /\ Len(receptions[d]) = (IF d \in arrived THEN 1 ELSE 0) + (IF baton[d] THEN 0 ELSE 1)
    /\ d \in arrived => \E i : BySticker(d) = {i}
    /\ d \notin arrived => BySticker(d) = {}

PathInv == \A d \in Trips : Paths(d)

\* What somebody is about to pay exists.
PayInv == \A r \in Requests : pc[r] = "pay" => settlement[work[r].trip] # None

RoadInv == /\ HandlersOK /\ RowsOK /\ LockInv /\ PathInv /\ PayInv
           /\ SettledForTheFirst /\ OwnStationOnly

\* The rows a trip's reception and payment are written in.
moneyVars == <<baton, receptions, settlement, arrived, tank>>

\* A trip that was dispatched and nothing else.
LEMMA RoadInitially == Init => RoadInv
<1> SUFFICES ASSUME Init PROVE RoadInv
  OBVIOUS
<1>1. HandlersOK
  BY IdleFits DEF Init, HandlersOK
<1>2. RowsOK
  <2>1. \A s \in Stations : TankInit[s] \in 0..TankCap[s] /\ TankInit[s] \in Int
    BY RoadConstantsAssumption
  <2>2. tank \in [Stations -> Int]
    BY <2>1, RoadConstantsAssumption DEF Init
  <2>3. receptions \in [Trips -> Seq(Receptions)]
    BY DEF Init
  <2>4. settlement \in [Trips -> Settlements \cup {None}]
    BY DEF Init
  <2>5. QED BY <2>1, <2>2, <2>3, <2>4 DEF Init, RowsOK
<1>3. LockInv /\ PayInv
  BY DEF Init, LockInv, PayInv, Inside
<1>4. PathInv
  BY DEF Init, PathInv, Paths, BySticker
<1>5. SettledForTheFirst /\ OwnStationOnly
  BY DEF Init, SettledForTheFirst, OwnStationOnly, BySticker
<1>6. QED BY <1>1, <1>2, <1>3, <1>4, <1>5 DEF RoadInv

\* A step that writes none of these rows, and leads a request on or home.
LEMMA WalkKeeps ==
    ASSUME RoadInv, NEW r \in Requests, NEW step, NEW w, Goto(r, step, w), Fits(step, w),
           UNCHANGED moneyVars, \A row \in trail' : row.vol \in Int,
           step = "fill" => w.trip = work[r].trip /\ TripFree(work[r].trip),
           step = "count" => /\ w.trip = work[r].trip /\ pc[r] = "fill"
                             /\ w.trip \notin arrived,
           step = "pay" => settlement[w.trip] # None
    PROVE  RoadInv'
<1>0. HandlersOK /\ RowsOK /\ LockInv /\ PathInv /\ PayInv /\ SettledForTheFirst /\ OwnStationOnly
  BY DEF RoadInv
<1>1. /\ HandlersOK'
      /\ \A q \in Requests : /\ pc'[q] = IF q = r THEN step ELSE pc[q]
                             /\ work'[q] = IF q = r THEN w ELSE work[q]
  BY <1>0, GotoFits
<1>2. RowsOK'
  BY <1>0 DEF RowsOK, moneyVars
<1>3. PathInv' /\ SettledForTheFirst' /\ OwnStationOnly'
  BY <1>0 DEF PathInv, Paths, BySticker, SettledForTheFirst, OwnStationOnly, AtOwnStation, moneyVars
<1>4. PayInv'
  BY <1>0, <1>1 DEF PayInv, moneyVars
<1>5. LockInv'
  <2>1. ASSUME NEW q \in Requests, q # r, Inside(r)', Inside(q)
        PROVE  work'[q].trip # work'[r].trip
    <3>1. CASE step = "fill"
      BY <1>1, <2>1, <3>1 DEF Inside, TripFree, HoldsTrip
    <3>2. CASE step = "count"
      BY <1>0, <1>1, <2>1, <3>2 DEF Inside, LockInv
    <3>3. QED BY <1>1, <2>1, <3>1, <3>2 DEF Inside
  <2>2. ASSUME NEW q \in Requests, NEW p \in Requests, Inside(q)', Inside(p)', q # p
        PROVE  work'[q].trip # work'[p].trip
    <3>1. CASE q = r
      BY <1>1, <2>1, <2>2, <3>1 DEF Inside
    <3>2. CASE p = r
      BY <1>1, <2>1, <2>2, <3>2 DEF Inside
    <3>3. CASE q # r /\ p # r
      BY <1>0, <1>1, <2>2, <3>3 DEF Inside, LockInv
    <3>4. QED BY <3>1, <3>2, <3>3
  <2>3. \A q \in Requests : pc'[q] = "count" => work'[q].trip \notin arrived'
    BY <1>0, <1>1 DEF LockInv, moneyVars
  <2>4. QED BY <2>2, <2>3 DEF LockInv
<1>6. QED BY <1>1, <1>2, <1>3, <1>4, <1>5 DEF RoadInv

\* A reception is one more, settles who is not settled, and touches no other trip.
LEMMA CloseKeeps ==
    ASSUME RowsOK, SettledForTheFirst, OwnStationOnly,
           NEW d \in Trips, NEW by \in Users \cup {"baton"}, NEW v \in Int,
           Close(d, by, v), by # "baton" => AtOwnStation(by, d)
    PROVE  /\ receptions' \in [Trips -> Seq(Receptions)]
           /\ settlement' \in [Trips -> Settlements \cup {None}]
           /\ SettledForTheFirst' /\ OwnStationOnly'
           /\ Len(receptions'[d]) = Len(receptions[d]) + 1
           /\ BySticker(d)' = BySticker(d) \cup (IF by = "baton" THEN {}
                                                ELSE {Len(receptions[d]) + 1})
           /\ \A e \in Trips : e # d => receptions'[e] = receptions[e]
           /\ \A e \in Trips : settlement[e] # None => settlement'[e] = settlement[e]
<1> DEFINE x == [by |-> by, vol |-> v]
           R == receptions[d]
<1>1. /\ receptions \in [Trips -> Seq(Receptions)]
      /\ settlement \in [Trips -> Settlements \cup {None}]
  BY DEF RowsOK
<1>2. R \in Seq(Receptions) /\ x \in Receptions /\ x.by = by /\ x.vol = v
  BY <1>1 DEF Receptions
<1>3. /\ receptions' = [receptions EXCEPT ![d] = Append(R, x)]
      /\ settlement' = [settlement EXCEPT ![d] = Settled(settlement[d], v)]
  BY DEF Close
<1> HIDE DEF x
<1>4. /\ Append(R, x) \in Seq(Receptions) /\ Len(Append(R, x)) = Len(R) + 1
      /\ \A i \in DOMAIN R : i \in DOMAIN Append(R, x) /\ Append(R, x)[i] = R[i]
      /\ DOMAIN Append(R, x) = DOMAIN R \cup {Len(R) + 1} /\ Append(R, x)[Len(R) + 1] = x
  BY <1>2
<1>5. /\ receptions' \in [Trips -> Seq(Receptions)]
      /\ receptions'[d] = Append(R, x)
      /\ \A e \in Trips : e # d => receptions'[e] = receptions[e]
  BY <1>1, <1>3, <1>4
<1>6. /\ NewSettlement(v) \in Settlements /\ NewSettlement(v).by = None
      /\ NewSettlement(v).liters = IF v > 0 THEN v ELSE 0
  BY DEF NewSettlement, Settlements
<1>7. None \notin Settlements
  BY RoadConstantsAssumption
<1>8. /\ settlement' \in [Trips -> Settlements \cup {None}]
      /\ settlement'[d] = Settled(settlement[d], v) /\ settlement'[d] \in Settlements
      /\ \A e \in Trips : e # d => settlement'[e] = settlement[e]
  BY <1>1, <1>3, <1>6, Zenon DEF Settled
<1>9. \A e \in Trips : settlement[e] # None => settlement'[e] = settlement[e]
  BY <1>8 DEF Settled
<1>10. BySticker(d)' = BySticker(d) \cup (IF by = "baton" THEN {} ELSE {Len(R) + 1})
  BY <1>2, <1>4, <1>5 DEF BySticker
<1>11. SettledForTheFirst'
  <2>1. receptions'[d] # << >> /\ settlement'[d] # None
    BY <1>2, <1>4, <1>5, <1>7, <1>8
  <2>2. settlement'[d].liters = IF receptions'[d][1].vol > 0 THEN receptions'[d][1].vol ELSE 0
    <3>1. CASE R = << >>
      BY <1>2, <1>4, <1>5, <1>6, <1>8, <3>1 DEF SettledForTheFirst, Settled
    <3>2. CASE R # << >>
      BY <1>2, <1>4, <1>5, <1>8, <3>2 DEF SettledForTheFirst, Settled
    <3>3. QED BY <3>1, <3>2
  <2>3. QED BY <1>5, <1>8, <2>1, <2>2 DEF SettledForTheFirst
<1>12. OwnStationOnly'
  <2>1. \A i \in BySticker(d)' : AtOwnStation(receptions'[d][i].by, d)
    <3>1. ASSUME NEW i \in BySticker(d)
          PROVE  AtOwnStation(receptions'[d][i].by, d)
      BY <1>4, <1>5, <3>1 DEF OwnStationOnly, BySticker
    <3>2. by # "baton" => AtOwnStation(receptions'[d][Len(R) + 1].by, d)
      BY <1>2, <1>4, <1>5
    <3>3. QED BY <1>10, <3>1, <3>2
  <2>2. settlement'[d].by # None => AtOwnStation(settlement'[d].by, d)
    BY <1>6, <1>8 DEF OwnStationOnly, Settled
  <2>3. ASSUME NEW e \in Trips, e # d
        PROVE  /\ \A i \in BySticker(e)' : AtOwnStation(receptions'[e][i].by, e)
               /\ settlement'[e] # None /\ settlement'[e].by # None =>
                    AtOwnStation(settlement'[e].by, e)
    BY <1>5, <1>8, <2>3 DEF OwnStationOnly, BySticker
  <2>4. QED BY <2>1, <2>2, <2>3 DEF OwnStationOnly, AtOwnStation
<1>13. QED BY <1>4, <1>5, <1>8, <1>9, <1>10, <1>11, <1>12

\* The sticker's reception commits: the trip had no arrival, now it has one.
LEMMA CountKeeps ==
    ASSUME RoadInv, NEW r \in Requests, Count(r)
    PROVE  RoadInv' /\ PaidStays
<1>0. HandlersOK /\ RowsOK /\ LockInv /\ PathInv /\ PayInv /\ SettledForTheFirst /\ OwnStationOnly
  BY DEF RoadInv
<1>1. /\ pc[r] = "count"
      /\ work[r].trip \in Trips /\ work[r].user \in Users /\ work[r].vol \in Int
      /\ MayReceive(work[r].user, work[r].trip) /\ work[r].stock \in 0..Room(work[r].trip)
      /\ Accepts(TripOf[work[r].trip].station, work[r].stock, work[r].vol)
  BY <1>0 DEF Count, HandlersOK, Fits
<1>2. PICK d, u, v, stock :
        /\ d \in Trips /\ u \in Users /\ v \in Int
        /\ d = work[r].trip /\ u = work[r].user /\ v = work[r].vol /\ stock = work[r].stock
        /\ stock \in 0..Room(d) /\ AtOwnStation(u, d)
        /\ Accepts(TripOf[d].station, stock, v)
  <2>1. AtOwnStation(work[r].user, work[r].trip)
    BY <1>1 DEF MayReceive, AtOwnStation
  <2>2. QED BY <1>1, <2>1, Zenon
<1> DEFINE s == TripOf[d].station
<1>3. /\ Close(d, u, v) /\ tank' = Filled(s, stock + v)
      /\ trail' = trail \cup {[id |-> <<d, "arrival">>, trip |-> d, vol |-> v, at |-> Latest]}
      /\ arrived' = arrived \cup {d} /\ Goto(r, "idle", None) /\ baton' = baton
  BY <1>2 DEF Count, Return
<1>4. u # "baton" /\ s \in Stations
  BY <1>2, RoadConstantsAssumption DEF Sources
<1>5. s \in Tanked => stock + v \in 0..TankCap[s]
  BY <1>2, <1>4, RoadConstantsAssumption DEF Accepts, StockAccepts, Room
<1>6. /\ receptions' \in [Trips -> Seq(Receptions)]
      /\ settlement' \in [Trips -> Settlements \cup {None}]
      /\ SettledForTheFirst' /\ OwnStationOnly'
      /\ Len(receptions'[d]) = Len(receptions[d]) + 1
      /\ BySticker(d)' = BySticker(d) \cup {Len(receptions[d]) + 1}
      /\ \A e \in Trips : e # d => receptions'[e] = receptions[e]
      /\ \A e \in Trips : settlement[e] # None => settlement'[e] = settlement[e]
  BY <1>0, <1>2, <1>3, <1>4, CloseKeeps
<1>7. /\ HandlersOK'
      /\ \A q \in Requests : /\ pc'[q] = IF q = r THEN "idle" ELSE pc[q]
                             /\ work'[q] = IF q = r THEN None ELSE work[q]
  BY <1>0, <1>3, IdleFits, GotoFits
<1>8. RowsOK'
  <2>1. tank' \in [Stations -> Int] /\ \A t \in Stations : tank'[t] \in 0..TankCap[t]
    BY <1>0, <1>2, <1>3, <1>4, <1>5 DEF RowsOK, Filled
  <2>2. \A row \in trail' : row.vol \in Int
    BY <1>0, <1>2, <1>3 DEF RowsOK
  <2>3. QED BY <1>0, <1>2, <1>3, <1>6, <2>1, <2>2 DEF RowsOK
<1>9. d \notin arrived
  BY <1>0, <1>1, <1>2 DEF LockInv
<1>10. LockInv'
  <2>1. ASSUME NEW q \in Requests, pc'[q] = "count"
        PROVE  work'[q].trip \notin arrived'
    <3>1. q # r /\ pc[q] = "count" /\ work'[q] = work[q]
      BY <1>7, <2>1
    <3>2. work[q].trip # d
      BY <1>0, <1>1, <1>2, <3>1 DEF LockInv, Inside
    <3>3. QED BY <1>0, <1>3, <3>1, <3>2 DEF LockInv
  <2>2. QED BY <1>0, <1>7, <2>1 DEF LockInv, Inside
<1>11. PathInv'
  <2>0. Paths(d)
    BY <1>0, <1>2 DEF PathInv
  <2>1. BySticker(d) = {} /\ Len(receptions[d]) = IF baton[d] THEN 0 ELSE 1
    <3>1. BySticker(d) = {}
      BY <1>9, <2>0 DEF Paths
    <3>2. Len(receptions[d]) = IF baton[d] THEN 0 ELSE 1
      BY <1>9, <2>0 DEF Paths
    <3>3. QED BY <3>1, <3>2
  <2>2. Paths(d)'
    <3>1. BySticker(d)' = {Len(receptions[d]) + 1}
      BY <1>6, <2>1
    <3>2. d \in arrived' /\ \E i : BySticker(d)' = {i}
      BY <1>3, <3>1
    <3>3. Len(receptions'[d]) = 1 + IF baton'[d] THEN 0 ELSE 1
      BY <1>3, <1>6, <2>1
    <3>4. QED BY <3>2, <3>3 DEF Paths
  <2>3. ASSUME NEW e \in Trips, e # d PROVE Paths(e)'
    <3>1. BySticker(e)' = BySticker(e) /\ receptions'[e] = receptions[e]
      BY <1>6, <2>3 DEF BySticker
    <3>2. QED BY <1>0, <1>3, <2>3, <3>1 DEF PathInv, Paths
  <2>4. QED BY <2>2, <2>3 DEF PathInv
<1>12. PayInv'
  <2>1. \A q \in Requests : pc'[q] = "pay" => pc[q] = "pay" /\ work'[q] = work[q]
    BY <1>7
  <2>2. \A q \in Requests : pc[q] = "pay" => work[q].trip \in Trips
    BY <1>0 DEF HandlersOK, Fits
  <2>3. QED BY <1>0, <1>6, <2>1, <2>2, RoadConstantsAssumption DEF PayInv
<1>13. PaidStays
  BY <1>6 DEF PaidStays
<1>14. QED BY <1>6, <1>7, <1>8, <1>10, <1>11, <1>12, <1>13 DEF RoadInv

\* The baton is accepted: it was active, now it is not.
LEMMA BatonKeeps ==
    ASSUME RoadInv, NEW d \in Trips, AcceptBaton(d, TripOf[d].loaded)
    PROVE  RoadInv' /\ PaidStays
<1> DEFINE v == TripOf[d].loaded
           s == TripOf[d].station
<1>0. HandlersOK /\ RowsOK /\ LockInv /\ PathInv /\ PayInv /\ SettledForTheFirst /\ OwnStationOnly
  BY DEF RoadInv
<1>1. /\ baton[d] /\ baton' = [baton EXCEPT ![d] = FALSE] /\ Close(d, "baton", v)
      /\ Accepts(s, tank[s], v) /\ tank' = Filled(s, tank[s] + v)
      /\ trail' = trail \cup {[id |-> <<d, "baton">>, trip |-> d, vol |-> v, at |-> Latest]}
      /\ arrived' = arrived /\ pc' = pc /\ work' = work
  BY DEF AcceptBaton
<1>2. v \in Int /\ s \in Stations
  BY RoadConstantsAssumption DEF Sources
<1>3. s \in Tanked => tank[s] + v \in 0..TankCap[s]
  BY <1>0, <1>1, <1>2, RoadConstantsAssumption DEF Accepts, StockAccepts, RowsOK
<1>4. /\ receptions' \in [Trips -> Seq(Receptions)]
      /\ settlement' \in [Trips -> Settlements \cup {None}]
      /\ SettledForTheFirst' /\ OwnStationOnly'
      /\ Len(receptions'[d]) = Len(receptions[d]) + 1
      /\ BySticker(d)' = BySticker(d)
      /\ \A e \in Trips : e # d => receptions'[e] = receptions[e]
      /\ \A e \in Trips : settlement[e] # None => settlement'[e] = settlement[e]
  BY <1>0, <1>1, <1>2, CloseKeeps
<1>5. HandlersOK' /\ LockInv'
  BY <1>0, <1>1 DEF HandlersOK, LockInv, Inside
<1>6. RowsOK'
  <2>1. tank' \in [Stations -> Int] /\ \A t \in Stations : tank'[t] \in 0..TankCap[t]
    BY <1>0, <1>1, <1>2, <1>3 DEF RowsOK, Filled
  <2>2. \A row \in trail' : row.vol \in Int
    BY <1>0, <1>1, <1>2 DEF RowsOK
  <2>3. QED BY <1>0, <1>1, <1>4, <2>1, <2>2 DEF RowsOK
<1>7. PathInv'
  <2>1. /\ baton' \in [Trips -> BOOLEAN] /\ ~baton'[d]
        /\ \A e \in Trips : e # d => baton'[e] = baton[e]
    BY <1>0, <1>1 DEF RowsOK
  <2>2. Paths(d)'
    <3>0. Paths(d)
      BY <1>0 DEF PathInv
    <3>1. Len(receptions[d]) = IF d \in arrived THEN 1 ELSE 0
      BY <1>1, <3>0 DEF Paths
    <3>2. /\ d \in arrived => \E i : BySticker(d) = {i}
          /\ d \notin arrived => BySticker(d) = {}
      BY <3>0 DEF Paths
    <3>3. Len(receptions'[d]) = (IF d \in arrived' THEN 1 ELSE 0) + IF baton'[d] THEN 0 ELSE 1
      BY <1>1, <1>4, <2>1, <3>1
    <3>4. /\ d \in arrived' => \E i : BySticker(d)' = {i}
          /\ d \notin arrived' => BySticker(d)' = {}
      BY <1>1, <1>4, <3>2
    <3>5. QED BY <3>3, <3>4 DEF Paths
  <2>3. ASSUME NEW e \in Trips, e # d PROVE Paths(e)'
    <3>1. BySticker(e)' = BySticker(e) /\ receptions'[e] = receptions[e]
      BY <1>4, <2>3 DEF BySticker
    <3>2. QED BY <1>0, <1>1, <2>1, <2>3, <3>1 DEF PathInv, Paths
  <2>4. QED BY <2>2, <2>3 DEF PathInv
<1>8. PayInv'
  <2>1. \A q \in Requests : pc[q] = "pay" => work[q].trip \in Trips
    BY <1>0 DEF HandlersOK, Fits
  <2>2. QED BY <1>0, <1>1, <1>4, <2>1 DEF PayInv
<1>9. PaidStays
  BY <1>4 DEF PaidStays
<1>10. QED BY <1>4, <1>5, <1>6, <1>7, <1>8, <1>9 DEF RoadInv

\* A settlement is paid, perhaps again: who paid it changes, its litres do not.
LEMMA PayKeeps ==
    ASSUME RoadInv, NEW r \in Requests, Pay(r)
    PROVE  RoadInv' /\ PaidStays
<1> DEFINE w == work[r]
           d == w.trip
           x == settlement[d]
<1>0. HandlersOK /\ RowsOK /\ LockInv /\ PathInv /\ PayInv /\ SettledForTheFirst /\ OwnStationOnly
  BY DEF RoadInv
<1>1. /\ pc[r] = "pay" /\ Goto(r, "idle", None)
      /\ settlement' = [settlement EXCEPT ![d] = [x EXCEPT !.status = "PAID", !.by = w.user]]
      /\ UNCHANGED <<baton, receptions, tank, trail, arrived>>
  BY DEF Pay, Return
<1>2. d \in Trips /\ w.user \in Users /\ AtOwnStation(w.user, d)
  BY <1>0, <1>1 DEF HandlersOK, Fits, MayPay, AtOwnStation
<1>3. x \in Settlements
  BY <1>0, <1>1, <1>2 DEF RowsOK, PayInv
<1> DEFINE y == [x EXCEPT !.status = "PAID", !.by = w.user]
<1>4. y \in Settlements /\ y.status = "PAID" /\ y.by = w.user /\ y.liters = x.liters
  BY <1>2, <1>3 DEF Settlements
<1>5. y # None
  BY <1>4, RoadConstantsAssumption
<1> HIDE DEF y
<1>6. /\ settlement' \in [Trips -> Settlements \cup {None}] /\ settlement'[d] = y
      /\ \A e \in Trips : e # d => settlement'[e] = settlement[e]
  BY <1>0, <1>1, <1>2, <1>4 DEF RowsOK, y
<1>7. x # None
  BY <1>3, RoadConstantsAssumption
<1>8. /\ HandlersOK'
      /\ \A q \in Requests : /\ pc'[q] = IF q = r THEN "idle" ELSE pc[q]
                             /\ work'[q] = IF q = r THEN None ELSE work[q]
  BY <1>0, <1>1, IdleFits, GotoFits
<1>9. RowsOK'
  BY <1>0, <1>1, <1>6 DEF RowsOK
<1>10. LockInv' /\ PathInv'
  <2>1. LockInv'
    BY <1>0, <1>1, <1>8 DEF LockInv, Inside
  <2>2. ASSUME NEW e \in Trips PROVE Paths(e)'
    <3>1. BySticker(e)' = BySticker(e)
      BY <1>1 DEF BySticker
    <3>2. QED BY <1>0, <1>1, <3>1 DEF PathInv, Paths
  <2>3. QED BY <2>1, <2>2 DEF PathInv
<1>11. PayInv'
  <2>1. \A e \in Trips : settlement[e] # None => settlement'[e] # None
    BY <1>5, <1>6
  <2>2. \A q \in Requests : pc[q] = "pay" => work[q].trip \in Trips
    BY <1>0 DEF HandlersOK, Fits
  <2>3. QED BY <1>0, <1>8, <2>1, <2>2 DEF PayInv
<1>12. SettledForTheFirst'
  <2> DEFINE owed(v) == IF v > 0 THEN v ELSE 0
  <2>1. receptions[d] # << >> /\ x.liters = owed(receptions[d][1].vol)
    BY <1>0, <1>2, <1>7 DEF SettledForTheFirst
  <2>2. receptions'[d] # << >> /\ settlement'[d] # None
        /\ settlement'[d].liters = owed(receptions'[d][1].vol)
    BY <1>1, <1>4, <1>5, <1>6, <2>1
  <2>3. ASSUME NEW e \in Trips, e # d
        PROVE  IF receptions'[e] = << >> THEN settlement'[e] = None
               ELSE settlement'[e] # None /\ settlement'[e].liters = owed(receptions'[e][1].vol)
    BY <1>0, <1>1, <1>6, <2>3 DEF SettledForTheFirst
  <2>4. QED BY <2>2, <2>3 DEF SettledForTheFirst
<1>13. OwnStationOnly'
  BY <1>0, <1>1, <1>2, <1>4, <1>6 DEF OwnStationOnly, BySticker, AtOwnStation
<1>14. PaidStays
  BY <1>4, <1>5, <1>6 DEF PaidStays
<1>15. QED BY <1>8, <1>9, <1>10, <1>11, <1>12, <1>13, <1>14 DEF RoadInv

\* A request that reads, uploads, parks or gives up.
LEMMA WalkStep ==
    ASSUME RoadInv, NEW r \in Requests,
           Upload(r) \/ Park(r) \/ Look(r) \/ Find(r) \/ Measure(r) \/ Receive(r) \/ Fill(r)
             \/ Note(r) \/ Mark(r) \/ Abort(r)
    PROVE  RoadInv' /\ PaidStays
<1>0. HandlersOK /\ RowsOK
  BY DEF RoadInv
<1>1. UNCHANGED moneyVars
  BY DEF Upload, Park, Look, Find, Measure, Receive, Fill, Note, Mark, Abort, rows, moneyVars
<1>2. \A row \in trail' : row.vol \in Int
  <2>0. Fits(pc[r], work[r])
    BY <1>0 DEF HandlersOK
  <2>1. CASE Upload(r)
    <3>1. PICK S : work[r].left \in Seq(S) /\ \A x \in S : x.vol \in Int
      BY <2>0, <2>1 DEF Upload, Fits
    <3>2. Head(work[r].left) \in S
      BY <2>1, <3>1 DEF Upload
    <3>3. Head(work[r].left).vol \in Int
      BY <3>1, <3>2
    <3>4. QED BY <1>0, <2>1, <3>3 DEF Upload, Row, RowsOK
  <2>2. CASE Note(r)
    <3>1. Head(work[r].left).vol \in Int
      BY <2>0, <2>2 DEF Note, Fits
    <3>2. QED BY <1>0, <2>2, <3>1 DEF Note, Row, RowsOK
  <2>3. CASE trail' = trail
    BY <1>0, <2>3 DEF RowsOK
  <2>4. QED BY <2>1, <2>2, <2>3
            DEF Park, Look, Find, Measure, Receive, Fill, Mark, Abort, rows
<1>3. PICK step, w : /\ Goto(r, step, w) /\ Fits(step, w)
                     /\ step = "fill" => Receive(r) /\ w.trip = work[r].trip
                     /\ step = "count" => Fill(r) /\ w.trip = work[r].trip
                                             /\ ~ArrivalTaken(w.trip)
                     /\ step # "pay"
  BY <1>0, StepFits
<1>4. step = "fill" => TripFree(work[r].trip)
  BY <1>3 DEF Receive
<1>5. step = "count" => pc[r] = "fill" /\ w.trip \notin arrived
  BY <1>3 DEF Fill, ArrivalTaken
<1>6. RoadInv'
  BY <1>1, <1>2, <1>3, <1>4, <1>5, WalkKeeps
<1>7. PaidStays
  BY <1>1 DEF PaidStays, moneyVars
<1>8. QED BY <1>6, <1>7

\* A request that arrives.
LEMMA ArriveStep ==
    ASSUME RoadInv, NEW r \in Requests, NEW u \in Users, Arrive(r, u)
    PROVE  RoadInv' /\ PaidStays
<1>1. UNCHANGED rows
  BY DEF Arrive, ScanStart, NoteStart, PayStart
<1>2. UNCHANGED moneyVars /\ \A row \in trail' : row.vol \in Int
  BY <1>1 DEF RoadInv, RowsOK, rows, moneyVars
<1>3. PaidStays
  BY <1>2 DEF PaidStays, moneyVars
<1>4. CASE \E c \in Cisterns : \E samples \in {<< >>, Buffer[c]}, v \in Reported \cup {None} :
             \E goal : ScanStart(r, u, c, samples, goal, v)
  <2>1. PICK w : Goto(r, "upload", w) /\ Fits("upload", w)
    BY <1>4, ScanFits
  <2>2. RoadInv'
    BY <1>2, <2>1, WalkKeeps
  <2>3. QED BY <1>3, <2>2
<1>5. CASE \E n \in Notes : NoteStart(r, u, n)
  <2>1. PICK w : Goto(r, "note", w) /\ Fits("note", w)
    BY <1>5, NoteFits
  <2>2. RoadInv'
    BY <1>2, <2>1, WalkKeeps
  <2>3. QED BY <1>3, <2>2
<1>6. CASE \E d \in Trips : PayStart(r, u, d)
  <2>1. PICK d \in Trips : PayStart(r, u, d)
    BY <1>6
  <2>2. PICK w : Goto(r, "pay", w) /\ Fits("pay", w) /\ w.trip = d
    BY <2>1, PayFits
  <2>3. settlement[w.trip] # None
    BY <2>1, <2>2 DEF PayStart
  <2>4. RoadInv'
    BY <1>2, <2>2, <2>3, WalkKeeps
  <2>5. QED BY <1>3, <2>4
<1>7. \/ \E c \in Cisterns : \E samples \in {<< >>, Buffer[c]}, v \in Reported \cup {None} :
             \E goal : ScanStart(r, u, c, samples, goal, v)
      \/ \E n \in Notes : NoteStart(r, u, n)
      \/ \E d \in Trips : PayStart(r, u, d)
  <2>1. ASSUME NEW c \in Cisterns, NEW samples \in {<< >>, Buffer[c]},
               ScanStart(r, u, c, samples, "scan", None)
        PROVE  \E x \in {<< >>, Buffer[c]}, v \in Reported \cup {None} :
                 \E goal : ScanStart(r, u, c, x, goal, v)
    BY <2>1
  <2>2. ASSUME NEW c \in Cisterns, NEW v \in Reported \cup {None},
               ScanStart(r, u, c, << >>, "receive", v)
        PROVE  \E x \in {<< >>, Buffer[c]}, w \in Reported \cup {None} :
                 \E goal : ScanStart(r, u, c, x, goal, w)
    BY <2>2
  <2>3. QED BY <2>1, <2>2 DEF Arrive
<1>8. QED BY <1>4, <1>5, <1>6, <1>7

\* Every step of the road keeps the invariant and what is paid.
LEMMA RoadStep == RoadInv /\ [Next]_vars => RoadInv' /\ [PaidStays]_vars
<1> SUFFICES ASSUME RoadInv, [Next]_vars PROVE RoadInv' /\ [PaidStays]_vars
  OBVIOUS
<1>1. CASE UNCHANGED vars
  <2>1. /\ HandlersOK /\ RowsOK /\ LockInv /\ PathInv /\ PayInv
        /\ SettledForTheFirst /\ OwnStationOnly
    BY DEF RoadInv
  <2>2. HandlersOK' /\ LockInv' /\ PayInv'
    BY <1>1, <2>1 DEF vars, rows, HandlersOK, LockInv, Inside, PayInv
  <2>3. RowsOK' /\ SettledForTheFirst'
    BY <1>1, <2>1 DEF vars, rows, RowsOK, SettledForTheFirst
  <2>4. \A d \in Trips : BySticker(d)' = BySticker(d)
    BY <1>1 DEF vars, rows, BySticker
  <2>5. PathInv' /\ OwnStationOnly'
    BY <1>1, <2>1, <2>4 DEF vars, rows, PathInv, Paths, OwnStationOnly, AtOwnStation
  <2>6. QED BY <1>1, <2>2, <2>3, <2>5 DEF RoadInv
<1>2. CASE \E r \in Requests : \E u \in Users : Arrive(r, u)
  BY <1>2, ArriveStep
<1>3. CASE \E r \in Requests : Step(r) \/ Abort(r)
  BY <1>3, WalkStep, CountKeeps, PayKeeps DEF Step
<1>4. CASE \E d \in Trips : AcceptBaton(d, TripOf[d].loaded)
  BY <1>4, BatonKeeps
<1>5. QED BY <1>1, <1>2, <1>3, <1>4 DEF Next

-------------------------------------------------------------------------------
(* Uploads: what a scan has passed over is on the server, and stays there. *)

\* Each sample of a request is still to be sent or is on the server.
Sent(w) == \A x \in Seqs!ToSet(w.samples) : x \in Seqs!ToSet(w.left) \/ Known(x.id)

UploadInv == UploadIsComplete /\ \A r \in Requests : pc[r] = "upload" => Sent(work[r])

\* No step takes a row away.
LEMMA TrailGrows ==
    ASSUME [Next]_vars PROVE trail \subseteq trail'
<1>1. ASSUME NEW r \in Requests, NEW u \in Users, Arrive(r, u) PROVE trail' = trail
  BY <1>1 DEF Arrive, ScanStart, NoteStart, PayStart, rows
<1>2. ASSUME NEW r \in Requests, Step(r) \/ Abort(r) PROVE trail \subseteq trail'
  BY <1>2 DEF Step, Upload, Park, Look, Find, Measure, Receive, Fill, Count, Note, Mark, Pay,
              Abort, rows
<1>3. ASSUME NEW d \in Trips, AcceptBaton(d, TripOf[d].loaded) PROVE trail \subseteq trail'
  BY <1>3 DEF AcceptBaton
<1>4. QED BY <1>1, <1>2, <1>3 DEF Next, vars, rows

\* A request moves: nothing is promised that is not there, and what it still uploads
\* has been sent as far as it got.
LEMMA MoveKeepsUploads ==
    ASSUME UploadInv, HandlersOK, trail \subseteq trail',
           NEW r \in Requests, NEW step, NEW w, Goto(r, step, w), Fits(step, w),
           step = "upload" => Sent(w)',
           \A id \in promised' : id \in promised \/ Known(id)
    PROVE  UploadInv'
<1>1. \A id : Known(id) => Known(id)'
  BY DEF Known
<1>2. UploadIsComplete'
  BY <1>1 DEF UploadInv, UploadIsComplete
<1>3. \A q \in Requests : /\ pc'[q] = IF q = r THEN step ELSE pc[q]
                          /\ work'[q] = IF q = r THEN w ELSE work[q]
  BY GotoFits
<1>4. ASSUME NEW q \in Requests, pc'[q] = "upload" PROVE Sent(work[q])'
  <2>1. CASE q = r
    BY <1>3, <1>4, <2>1 DEF Sent
  <2>2. CASE q # r
    <3>1. pc[q] = "upload" /\ work'[q] = work[q]
      BY <1>3, <1>4, <2>2
    <3>2. Sent(work[q])
      BY <3>1 DEF UploadInv
    <3>3. QED BY <1>1, <3>1, <3>2 DEF Sent
  <2>3. QED BY <2>1, <2>2
<1>5. QED BY <1>2, <1>4 DEF UploadInv

\* One sample is sent: it is there now, whoever put it there.
LEMMA UploadSends ==
    ASSUME UploadInv, HandlersOK, NEW r \in Requests, Upload(r), NEW w,
           w.samples = work[r].samples, w.left = Tail(work[r].left)
    PROVE  Sent(w)'
<1>1. PICK l, x : /\ l = work[r].left /\ x = Head(l) /\ pc[r] = "upload" /\ l # << >>
                  /\ trail' = IF Known(x.id) THEN trail
                              ELSE trail \cup {Row(x, work[r].trip)}
  BY DEF Upload
<1>2. PICK S : l \in Seq(S)
  BY <1>1 DEF HandlersOK, Fits
<1>3. \A y \in Seqs!ToSet(l) : y = x \/ y \in Seqs!ToSet(Tail(l))
  <2>1. ASSUME NEW i \in DOMAIN l, i # 1
        PROVE  i - 1 \in DOMAIN Tail(l) /\ Tail(l)[i - 1] = l[i]
    BY <1>1, <1>2, <2>1
  <2>2. x = l[1]
    BY <1>1, <1>2
  <2>3. ASSUME NEW i \in DOMAIN l PROVE l[i] = x \/ l[i] \in Seqs!ToSet(Tail(l))
    BY <2>1, <2>2 DEF Seqs!ToSet
  <2>4. QED BY <2>3 DEF Seqs!ToSet
<1>4. Known(x.id)'
  <2>1. CASE Known(x.id)
    <3>1. trail' = trail
      BY <1>1, <2>1
    <3>2. QED BY <2>1, <3>1 DEF Known
  <2>2. CASE ~Known(x.id)
    <3>1. Row(x, work[r].trip) \in trail' /\ Row(x, work[r].trip).id = x.id
      BY <1>1, <2>2 DEF Row
    <3>2. QED BY <3>1 DEF Known
  <2>3. QED BY <2>1, <2>2
<1>5. \A id : Known(id) => Known(id)'
  BY <1>1 DEF Known
<1>6. Sent(work[r])
  BY <1>1 DEF UploadInv
<1>7. \A y \in Seqs!ToSet(w.samples) : y \in Seqs!ToSet(l) \/ Known(y.id)
  BY <1>1, <1>6 DEF Sent
<1>8. \A y \in Seqs!ToSet(w.samples) : y \in Seqs!ToSet(w.left) \/ Known(y.id)'
  BY <1>1, <1>3, <1>4, <1>5, <1>7
<1>9. QED BY <1>8 DEF Sent

\* No step promises what is not stored, or forgets what is still to be sent.
LEMMA UploadStep == RoadInv /\ UploadInv /\ [Next]_vars => UploadInv'
<1> SUFFICES ASSUME RoadInv, UploadInv, [Next]_vars PROVE UploadInv'
  OBVIOUS
<1>0. HandlersOK /\ RowsOK /\ trail \subseteq trail'
  BY TrailGrows DEF RoadInv
<1>1. CASE pc' = pc /\ work' = work /\ promised' = promised
  <2>1. \A id : Known(id) => Known(id)'
    BY <1>0 DEF Known
  <2>2. \A r \in Requests : Sent(work[r]) => Sent(work[r])'
    BY <1>1, <2>1 DEF Sent
  <2>3. QED BY <1>1, <2>1, <2>2 DEF UploadInv, UploadIsComplete
<1>2. ASSUME NEW r \in Requests, NEW u \in Users, Arrive(r, u) PROVE UploadInv'
  <2>0. promised' = promised
    BY <1>2 DEF Arrive, ScanStart, NoteStart, PayStart
  <2>1. ASSUME NEW c \in Cisterns, NEW samples \in {<< >>, Buffer[c]},
               NEW v \in Reported \cup {None}, NEW goal, ScanStart(r, u, c, samples, goal, v)
        PROVE  UploadInv'
    <3>1. PICK w : Goto(r, "upload", w) /\ Fits("upload", w) /\ w.samples = w.left
      BY <2>1, ScanFits
    <3>2. Sent(w)'
      BY <3>1 DEF Sent
    <3>3. QED BY <1>0, <2>0, <3>1, <3>2, MoveKeepsUploads
  <2>2. ASSUME NEW n \in Notes, NoteStart(r, u, n) PROVE UploadInv'
    <3>1. PICK w : Goto(r, "note", w) /\ Fits("note", w)
      BY <2>2, NoteFits
    <3>2. QED BY <1>0, <2>0, <3>1, MoveKeepsUploads
  <2>3. ASSUME NEW d \in Trips, PayStart(r, u, d) PROVE UploadInv'
    <3>1. PICK w : Goto(r, "pay", w) /\ Fits("pay", w)
      BY <2>3, PayFits
    <3>2. QED BY <1>0, <2>0, <3>1, MoveKeepsUploads
  <2>4. QED BY <1>2, <2>1, <2>2, <2>3 DEF Arrive
<1>3. ASSUME NEW r \in Requests, Count(r) PROVE UploadInv'
  <2>1. Goto(r, "idle", None) /\ promised' = promised
    BY <1>3 DEF Count, Return
  <2>2. QED BY <1>0, <2>1, IdleFits, MoveKeepsUploads
<1>4. ASSUME NEW r \in Requests,
             Upload(r) \/ Park(r) \/ Look(r) \/ Find(r) \/ Measure(r) \/ Receive(r) \/ Fill(r)
               \/ Note(r) \/ Mark(r) \/ Pay(r) \/ Abort(r)
      PROVE  UploadInv'
  <2>1. PICK step, w : /\ Goto(r, step, w) /\ Fits(step, w)
                       /\ step = "upload" => /\ Upload(r) /\ w.samples = work[r].samples
                                             /\ w.left = Tail(work[r].left)
    BY <1>0, <1>4, StepFits
  <2>2. step = "upload" => Sent(w)'
    BY <1>0, <2>1, UploadSends
  <2>3. \A id \in promised' : id \in promised \/ Known(id)
    <3>1. CASE Park(r)
      <4>1. pc[r] = "upload" /\ work[r].left = << >>
            /\ promised' = promised \cup {x.id : x \in Seqs!ToSet(work[r].samples)}
        BY <3>1 DEF Park
      <4>2. Sent(work[r]) /\ Seqs!ToSet(work[r].left) = {}
        BY <4>1 DEF UploadInv, Seqs!ToSet
      <4>3. QED BY <4>1, <4>2 DEF Sent
    <3>2. CASE promised' = promised
      BY <3>2
    <3>3. QED BY <1>4, <3>1, <3>2
              DEF Upload, Look, Find, Measure, Receive, Fill, Note, Mark, Pay, Abort
  <2>4. QED BY <1>0, <2>1, <2>2, <2>3, MoveKeepsUploads
<1>5. ASSUME NEW d \in Trips, AcceptBaton(d, TripOf[d].loaded) PROVE UploadInv'
  BY <1>1, <1>5 DEF AcceptBaton
<1>6. QED BY <1>1, <1>2, <1>3, <1>4, <1>5 DEF Next, Step, vars

-------------------------------------------------------------------------------
(* Tank and batch against the RECEIVED events. *)

\* n litres of a tank are no more than it had and its station's events report.
TankLags(s, n) == s \in Tanked => n <= TankInit[s] + ReceivedVol(DestinedTo(s))

\* n litres of a batch are no more than its events report, if none reports less than
\* nothing.
BatchLags(b, n) == NoneNegative(b) => n <= ReceivedVol(PartOf(b))

\* What a reception has read and will compute from lags too.
ReadsLag(step, w) ==
    /\ step \in {"fill", "count"} => TankLags(TripOf[w.trip].station, w.stock)
    /\ step = "count" => w.counted \in Int /\ BatchLags(TripOf[w.trip].batch, w.counted)

LagInv ==
    /\ delivered \in [Batches -> Int]
    /\ IsFiniteSet(EventsOf(Trips))
    /\ \A s \in Stations : TankLags(s, tank[s])
    /\ \A b \in Batches : BatchLags(b, delivered[b])
    /\ \A r \in Requests : ReadsLag(pc[r], work[r])

\* The events of some trips are finitely many if all are, and report integers.
LEMMA SomeEvents ==
    ASSUME RowsOK, IsFiniteSet(EventsOf(Trips)), NEW D, D \subseteq Trips
    PROVE  /\ IsFiniteSet(EventsOf(D))
           /\ \A e \in EventsOf(D) : receptions[e[1]][e[2]].vol \in Int
           /\ ReceivedVol(D) \in Int
<1>1. IsFiniteSet(EventsOf(D))
  <2>1. EventsOf(D) \subseteq EventsOf(Trips)
    BY DEF EventsOf
  <2>2. QED BY <2>1, FS_Subset
<1>2. \A e \in EventsOf(D) : receptions[e[1]][e[2]].vol \in Int
  <2>1. ASSUME NEW d \in D, NEW i \in DOMAIN receptions[d]
        PROVE  receptions[d][i].vol \in Int
    <3>1. receptions[d] \in Seq(Receptions)
      BY DEF RowsOK
    <3>2. receptions[d][i] \in Receptions
      BY <3>1
    <3>3. QED BY <3>2 DEF Receptions
  <2>2. QED BY <2>1 DEF EventsOf
<1>3. ReceivedVol(D) \in Int
  <2> DEFINE f == [e \in EventsOf(D) |-> receptions[e[1]][e[2]].vol]
  <2>1. \A e \in EventsOf(D) : f[e] \in Int
    BY <1>2
  <2>2. DOMAIN f = EventsOf(D)
    OBVIOUS
  <2> HIDE DEF f
  <2>3. SumFunctionOnSet(f, EventsOf(D)) \in Int
    BY <1>1, <2>1, SumInt
  <2>4. QED BY <2>2, <2>3 DEF f, ReceivedVol, SumFunction
<1>4. QED BY <1>1, <1>2, <1>3

\* A reception is one event more, and no other trip's events or litres change.
LEMMA EventAdded ==
    ASSUME RowsOK, NEW d \in Trips, NEW by \in Users \cup {"baton"}, NEW v \in Int,
           Close(d, by, v), NEW D, D \subseteq Trips
    PROVE  \E x : /\ x \notin EventsOf(D) /\ x[1] = d
                  /\ EventsOf(D)' = EventsOf(D) \cup (IF d \in D THEN {x} ELSE {})
                  /\ \A e \in EventsOf(D) : receptions'[e[1]][e[2]].vol = receptions[e[1]][e[2]].vol
                  /\ d \in D => receptions'[x[1]][x[2]].vol = v
<1> DEFINE R == receptions[d]
           y == [by |-> by, vol |-> v]
           n == Len(R) + 1
           x == <<d, n>>
<1>1. R \in Seq(Receptions) /\ y \in Receptions /\ y.vol = v
  BY DEF RowsOK, Receptions
<1>2. receptions' = [receptions EXCEPT ![d] = Append(R, y)] /\ DOMAIN receptions = Trips
  BY DEF Close, RowsOK
<1> HIDE DEF y
<1>3. /\ DOMAIN Append(R, y) = DOMAIN R \cup {n} /\ n \notin DOMAIN R
      /\ \A i \in DOMAIN R : Append(R, y)[i] = R[i]
      /\ Append(R, y)[n] = y
  BY <1>1
<1> HIDE DEF n
<1>4. /\ receptions'[d] = Append(R, y)
      /\ \A e \in Trips : e # d => receptions'[e] = receptions[e]
  BY <1>2
<1>5. x \notin EventsOf(D)
  BY <1>3 DEF EventsOf
<1>6. EventsOf(D)' = UNION {{e} \X DOMAIN receptions'[e] : e \in D}
  BY DEF EventsOf
<1>7. EventsOf(D)' = EventsOf(D) \cup (IF d \in D THEN {x} ELSE {})
  <2>1. \A e \in D : e # d => DOMAIN receptions'[e] = DOMAIN receptions[e]
    BY <1>4
  <2>2. DOMAIN receptions'[d] = DOMAIN receptions[d] \cup {n}
    BY <1>3, <1>4
  <2>3. ASSUME NEW e, NEW i
        PROVE  <<e, i>> \in EventsOf(D)' <=>
                 <<e, i>> \in EventsOf(D) \cup (IF d \in D THEN {x} ELSE {})
    BY <1>6, <2>1, <2>2 DEF EventsOf
  <2>4. \A z \in EventsOf(D)' : \E e, i : z = <<e, i>>
    BY <1>6
  <2>5. \A z \in EventsOf(D) \cup (IF d \in D THEN {x} ELSE {}) : \E e, i : z = <<e, i>>
    BY DEF EventsOf
  <2>6. QED BY <2>3, <2>4, <2>5
<1>8. \A e \in EventsOf(D) : receptions'[e[1]][e[2]].vol = receptions[e[1]][e[2]].vol
  <2>1. ASSUME NEW e \in D, NEW i \in DOMAIN receptions[e]
        PROVE  receptions'[e][i].vol = receptions[e][i].vol
    BY <1>3, <1>4
  <2>2. QED BY <2>1 DEF EventsOf
<1>9. receptions'[x[1]][x[2]].vol = v
  BY <1>1, <1>3, <1>4
<1>10. QED BY <1>5, <1>7, <1>8, <1>9

\* A reception adds its litres to those received of its trip, and to no others.
LEMMA LitresAdded ==
    ASSUME RowsOK, IsFiniteSet(EventsOf(Trips)), NEW d \in Trips,
           NEW by \in Users \cup {"baton"}, NEW v \in Int, Close(d, by, v),
           NEW D, D \subseteq Trips
    PROVE  /\ ReceivedVol(D)' = ReceivedVol(D) + (IF d \in D THEN v ELSE 0)
           /\ IsFiniteSet(EventsOf(D)')
<1> DEFINE Adds(x) ==
             /\ x \notin EventsOf(D) /\ x[1] = d
             /\ EventsOf(D)' = EventsOf(D) \cup (IF d \in D THEN {x} ELSE {})
             /\ \A e \in EventsOf(D) : receptions'[e[1]][e[2]].vol = receptions[e[1]][e[2]].vol
             /\ d \in D => receptions'[x[1]][x[2]].vol = v
<1>0. \E x : Adds(x)
  BY EventAdded
<1>1. PICK x : Adds(x)
  BY <1>0, Zenon
<1>2. /\ IsFiniteSet(EventsOf(D)) /\ ReceivedVol(D) \in Int
      /\ \A e \in EventsOf(D) : receptions[e[1]][e[2]].vol \in Int
  BY SomeEvents
<1> DEFINE S == EventsOf(D)
           f == [e \in S |-> receptions[e[1]][e[2]].vol]
           T == EventsOf(D)'
           g == [e \in T |-> receptions'[e[1]][e[2]].vol]
<1>3. ReceivedVol(D) = SumFunctionOnSet(f, S)
  <2>1. DOMAIN f = S
    OBVIOUS
  <2>2. QED BY <2>1 DEF ReceivedVol, SumFunction
<1>4. ReceivedVol(D)' = SumFunctionOnSet(g, T)
  <2>1. DOMAIN g = T
    OBVIOUS
  <2>2. ReceivedVol(D)' = SumFunction(g)
    BY DEF ReceivedVol
  <2>3. QED BY <2>1, <2>2 DEF SumFunction
<1>5. CASE d \in D
  <2>1. T = S \cup {x} /\ IsFiniteSet(T)
    BY <1>1, <1>2, <1>5, FS_AddElement
  <2>2. \A y \in S : g[y] = f[y] /\ f[y] \in Int
    BY <1>1, <1>2, <2>1
  <2>3. g[x] = v
    BY <1>1, <1>5, <2>1
  <2> HIDE DEF f, g, S, T
  <2>4. SumFunctionOnSet(g, S \cup {x}) = SumFunctionOnSet(f, S) + g[x]
    <3>1. IsFiniteSet(S) /\ x \notin S /\ g[x] \in Int
      BY <1>1, <1>2, <2>3 DEF S
    <3>2. QED BY <2>2, <3>1, SumExtends
  <2>5. QED BY <1>3, <1>4, <1>5, <2>1, <2>3, <2>4 DEF T
<1>6. CASE d \notin D
  <2>1. T = S
    BY <1>1, <1>6
  <2>2. \A y \in S : g[y] = f[y]
    BY <1>1, <2>1
  <2> HIDE DEF f, g, S, T
  <2>3. SumFunctionOnSet(g, S) = SumFunctionOnSet(f, S)
    BY <1>2, <2>2, SumSame DEF S
  <2>4. QED BY <1>2, <1>3, <1>4, <1>6, <2>1, <2>3 DEF S, T
<1>7. QED BY <1>5, <1>6

\* Where no event reports less than nothing after a reception, none did before it
\* and the reception does not.
LEMMA NegativesStay ==
    ASSUME RowsOK, NEW d \in Trips, NEW by \in Users \cup {"baton"}, NEW v \in Int,
           Close(d, by, v), NEW b \in Batches, NoneNegative(b)'
    PROVE  NoneNegative(b) /\ (b = TripOf[d].batch => v >= 0)
<1> DEFINE R == receptions[d]
           y == [by |-> by, vol |-> v]
<1>1. R \in Seq(Receptions) /\ y \in Receptions /\ y.vol = v
  BY DEF RowsOK, Receptions
<1>2. receptions' = [receptions EXCEPT ![d] = Append(R, y)] /\ DOMAIN receptions = Trips
  BY DEF Close, RowsOK
<1> HIDE DEF y
<1>3. /\ \A i \in DOMAIN R : i \in DOMAIN Append(R, y) /\ Append(R, y)[i] = R[i]
      /\ Len(R) + 1 \in DOMAIN Append(R, y) /\ Append(R, y)[Len(R) + 1] = y
  BY <1>1
<1>4. \A e \in PartOf(b) : \A i \in DOMAIN receptions'[e] : receptions'[e][i].vol >= 0
  BY DEF NoneNegative, PartOf
<1>5. ASSUME NEW e \in PartOf(b), NEW i \in DOMAIN receptions[e]
      PROVE  receptions[e][i].vol >= 0
  <2>1. e \in Trips
    BY DEF PartOf
  <2>2. CASE e = d
    BY <1>2, <1>3, <1>4, <1>5, <2>1, <2>2
  <2>3. CASE e # d
    BY <1>2, <1>4, <1>5, <2>1, <2>3
  <2>4. QED BY <2>2, <2>3
<1>6. b = TripOf[d].batch => v >= 0
  <2>1. CASE b = TripOf[d].batch
    <3>1. d \in PartOf(b)
      BY <2>1 DEF PartOf
    <3>2. receptions'[d] = Append(R, y)
      BY <1>2
    <3>3. y.vol >= 0
      BY <1>3, <1>4, <3>1, <3>2
    <3>4. QED BY <1>1, <3>3
  <2>2. QED BY <2>1
<1>7. QED BY <1>5, <1>6 DEF NoneNegative

\* A step that closes no trip leaves the litres received as they are.
LEMMA LitresStay ==
    ASSUME UNCHANGED receptions, NEW D
    PROVE  /\ ReceivedVol(D)' = ReceivedVol(D) /\ EventsOf(D)' = EventsOf(D)
           /\ \A b : NoneNegative(b)' <=> NoneNegative(b)
BY DEF ReceivedVol, EventsOf, NoneNegative, PartOf

\* A request moves and closes nothing: what it has read lags, so does the rest.
LEMMA ReadsKeep ==
    ASSUME LagInv, HandlersOK, NEW r \in Requests, NEW step, NEW w, Goto(r, step, w),
           Fits(step, w), ReadsLag(step, w), UNCHANGED <<receptions, tank, delivered>>
    PROVE  LagInv'
<1>1. \A q \in Requests : /\ pc'[q] = IF q = r THEN step ELSE pc[q]
                          /\ work'[q] = IF q = r THEN w ELSE work[q]
  BY GotoFits
<1>2. /\ \A D : ReceivedVol(D)' = ReceivedVol(D) /\ EventsOf(D)' = EventsOf(D)
      /\ \A b : NoneNegative(b)' <=> NoneNegative(b)
  BY LitresStay
<1>3. \A s, b, n : (TankLags(s, n)' <=> TankLags(s, n)) /\ (BatchLags(b, n)' <=> BatchLags(b, n))
  BY <1>2 DEF TankLags, BatchLags, DestinedTo, PartOf
<1>4. \A q \in Requests : ReadsLag(pc'[q], work'[q])
  BY <1>1 DEF LagInv
<1>5. \A q \in Requests : ReadsLag(pc[q], work[q])'
  BY <1>3, <1>4 DEF ReadsLag
<1>6. QED BY <1>2, <1>3, <1>5 DEF LagInv

\* A reception commits the litres of an event: what lagged before it lags after it,
\* and so does what it adds to a reading that lagged.
LEMMA CommitLags ==
    ASSUME RowsOK, LagInv, NEW d \in Trips, NEW by \in Users \cup {"baton"}, NEW v \in Int,
           TripOf[d].station \in Tanked => v > 0, Close(d, by, v)
    PROVE  /\ IsFiniteSet(EventsOf(Trips)')
           /\ \A s \in Stations : \A n \in Int :
                TankLags(s, n) => /\ TankLags(s, n)'
                                  /\ s = TripOf[d].station => TankLags(s, n + v)'
           /\ \A b \in Batches : \A n \in Int :
                BatchLags(b, n) => /\ BatchLags(b, n)'
                                   /\ b = TripOf[d].batch => BatchLags(b, n + v)'
<1>1. IsFiniteSet(EventsOf(Trips))
  BY DEF LagInv
<1>2. IsFiniteSet(EventsOf(Trips)')
  BY <1>1, LitresAdded
<1>3. ASSUME NEW s \in Stations, NEW n \in Int, TankLags(s, n)
      PROVE  TankLags(s, n)' /\ (s = TripOf[d].station => TankLags(s, n + v)')
  <2>1. DestinedTo(s) \subseteq Trips /\ (d \in DestinedTo(s) <=> s = TripOf[d].station)
    BY DEF DestinedTo
  <2>2. PICK D : D = DestinedTo(s)
    OBVIOUS
  <2>3. ReceivedVol(D)' = ReceivedVol(D) + (IF d \in D THEN v ELSE 0) /\ ReceivedVol(D) \in Int
    BY <1>1, <2>1, <2>2, LitresAdded, SomeEvents
  <2>4. TankInit[s] \in Int
    BY RoadConstantsAssumption
  <2>5. DestinedTo(s)' = D
    BY <2>2 DEF DestinedTo
  <2>6. \A m : TankLags(s, m)' <=> (s \in Tanked => m <= TankInit[s] + ReceivedVol(D)')
    BY <2>2 DEF TankLags, DestinedTo
  <2>7. s \in Tanked => n <= TankInit[s] + ReceivedVol(D)
    BY <1>3, <2>2 DEF TankLags
  <2>8. QED BY <2>1, <2>2, <2>3, <2>4, <2>6, <2>7
<1>4. ASSUME NEW b \in Batches, NEW n \in Int, BatchLags(b, n)
      PROVE  BatchLags(b, n)' /\ (b = TripOf[d].batch => BatchLags(b, n + v)')
  <2>1. PartOf(b) \subseteq Trips /\ (d \in PartOf(b) <=> b = TripOf[d].batch)
    BY DEF PartOf
  <2>2. PICK D : D = PartOf(b)
    OBVIOUS
  <2>3. ReceivedVol(D)' = ReceivedVol(D) + (IF d \in D THEN v ELSE 0) /\ ReceivedVol(D) \in Int
    BY <1>1, <2>1, <2>2, LitresAdded, SomeEvents
  <2>4. \A m : BatchLags(b, m)' <=> (NoneNegative(b)' => m <= ReceivedVol(D)')
    BY <2>2 DEF BatchLags, PartOf
  <2>5. CASE NoneNegative(b)'
    <3>1. NoneNegative(b) /\ (b = TripOf[d].batch => v >= 0)
      BY <2>5, NegativesStay
    <3>2. n <= ReceivedVol(D)
      BY <1>4, <2>2, <3>1 DEF BatchLags
    <3>3. QED BY <2>1, <2>2, <2>3, <2>4, <3>1, <3>2
  <2>6. QED BY <2>4, <2>5
<1>5. QED BY <1>2, <1>3, <1>4

\* The litres a reception read are in the range the lemmas ask for.
LEMMA ReadsAreInt ==
    ASSUME HandlersOK, LagInv, NEW q \in Requests, Inside(q)
    PROVE  /\ work[q].trip \in Trips /\ work[q].stock \in Int
           /\ TripOf[work[q].trip].station \in Stations /\ TripOf[work[q].trip].batch \in Batches
           /\ TankLags(TripOf[work[q].trip].station, work[q].stock)
           /\ pc[q] = "count" => /\ work[q].counted \in Int
                                /\ BatchLags(TripOf[work[q].trip].batch, work[q].counted)
<1>1. Fits(pc[q], work[q]) /\ ReadsLag(pc[q], work[q])
  BY DEF HandlersOK, LagInv
<1>2. work[q].trip \in Trips /\ work[q].stock \in Int
  BY <1>1, RoadConstantsAssumption DEF Fits, Inside, Room
<1>3. TripOf[work[q].trip].station \in Stations /\ TripOf[work[q].trip].batch \in Batches
  BY <1>2, RoadConstantsAssumption DEF Sources
<1>4. QED BY <1>1, <1>2, <1>3 DEF ReadsLag, Inside

\* The requests that wait while another commits still lag.
LEMMA OthersLag ==
    ASSUME RowsOK, HandlersOK, LagInv, NEW d \in Trips, NEW by \in Users \cup {"baton"},
           NEW v \in Int, TripOf[d].station \in Tanked => v > 0, Close(d, by, v),
           NEW q \in Requests,
           pc'[q] = pc[q], work'[q] = work[q]
    PROVE  ReadsLag(pc[q], work[q])'
<1>1. CASE ~Inside(q)
  BY <1>1 DEF Inside, ReadsLag
<1>2. CASE Inside(q)
  <2>1. PICK p, t, n, m : p = pc[q] /\ t = TripOf[work[q].trip] /\ n = work[q].stock
                          /\ m = work[q].counted
    BY Zenon
  <2>2. TankLags(t.station, n)'
    BY <1>2, <2>1, CommitLags, ReadsAreInt
  <2>3. p = "count" => m \in Int /\ BatchLags(t.batch, m)'
    BY <1>2, <2>1, CommitLags, ReadsAreInt
  <2>4. /\ pc'[q] = p /\ TripOf[work'[q].trip] = t /\ work'[q].stock = n
        /\ work'[q].counted = m
    BY <2>1
  <2>5. QED BY <2>2, <2>3, <2>4 DEF ReadsLag
<1>3. QED BY <1>1, <1>2

\* The sticker's reception writes what it read and its own litres.
LEMMA CountLags ==
    ASSUME RoadInv, LagInv, NEW r \in Requests, Count(r)
    PROVE  LagInv'
<1>0. HandlersOK /\ RowsOK
  BY DEF RoadInv
<1>1. pc[r] = "count" /\ Inside(r)
  BY DEF Count, Inside
<1>2. PICK d, u, v, stock, counted :
        /\ d = work[r].trip /\ u = work[r].user /\ v = work[r].vol /\ stock = work[r].stock
        /\ counted = work[r].counted
  BY Zenon
<1>3. d \in Trips /\ u \in Users /\ v \in Int /\ (TripOf[d].station \in Tanked => v > 0)
  BY <1>0, <1>1, <1>2 DEF HandlersOK, Fits, Accepts, StockAccepts
<1> DEFINE s == TripOf[d].station
           b == TripOf[d].batch
<1>4. /\ s \in Stations /\ b \in Batches /\ stock \in Int /\ counted \in Int
      /\ TankLags(s, stock) /\ BatchLags(b, counted)
  BY <1>0, <1>1, <1>2, ReadsAreInt
<1>5. /\ Close(d, u, v) /\ tank' = Filled(s, stock + v)
      /\ delivered' = [delivered EXCEPT ![b] = counted + v] /\ Goto(r, "idle", None)
  BY <1>2 DEF Count, Return
<1>6. /\ tank \in [Stations -> Int] /\ delivered \in [Batches -> Int]
      /\ \A t \in Stations : TankLags(t, tank[t])
      /\ \A t \in Batches : BatchLags(t, delivered[t])
  BY <1>0 DEF RowsOK, LagInv
<1>7. /\ IsFiniteSet(EventsOf(Trips)')
      /\ \A t \in Stations : \A n \in Int :
           TankLags(t, n) => TankLags(t, n)' /\ (t = s => TankLags(t, n + v)')
      /\ \A t \in Batches : \A n \in Int :
           BatchLags(t, n) => BatchLags(t, n)' /\ (t = b => BatchLags(t, n + v)')
  BY <1>0, <1>3, <1>5, CommitLags
<1> HIDE DEF s, b
<1>8. \A t \in Stations : TankLags(t, tank[t])'
  <2>1. ASSUME NEW t \in Stations PROVE TankLags(t, tank[t])'
    <3>1. PICK n, m : n = tank[t] /\ m = stock + v
      OBVIOUS
    <3>2. CASE t = s
      <4>1. t \in Tanked => tank'[t] = m
        BY <1>5, <1>6, <3>1, <3>2 DEF Filled
      <4>2. TankLags(s, stock + v)'
        BY <1>4, <1>7
      <4>3. TankLags(t, m)'
        BY <3>1, <3>2, <4>2
      <4>4. QED BY <4>1, <4>3 DEF TankLags
    <3>3. CASE t # s
      <4>1. tank'[t] = n
        BY <1>5, <1>6, <3>1, <3>3 DEF Filled
      <4>2. n \in Int /\ TankLags(t, n)
        BY <1>6, <3>1
      <4>3. TankLags(t, n)'
        BY <1>7, <4>2
      <4>4. QED BY <4>1, <4>3 DEF TankLags
    <3>4. QED BY <3>2, <3>3
  <2>2. QED BY <2>1
<1>9. \A t \in Batches : BatchLags(t, delivered[t])'
  <2>1. ASSUME NEW t \in Batches PROVE BatchLags(t, delivered[t])'
    <3>1. PICK n, m : n = delivered[t] /\ m = counted + v
      OBVIOUS
    <3>2. CASE t = b
      <4>1. delivered'[t] = m
        BY <1>5, <1>6, <3>1, <3>2
      <4>2. BatchLags(b, counted + v)'
        BY <1>4, <1>7
      <4>3. BatchLags(t, m)'
        BY <3>1, <3>2, <4>2
      <4>4. QED BY <4>1, <4>3 DEF BatchLags
    <3>3. CASE t # b
      <4>1. delivered'[t] = n
        BY <1>5, <1>6, <3>1, <3>3
      <4>2. n \in Int /\ BatchLags(t, n)
        BY <1>6, <3>1
      <4>3. BatchLags(t, n)'
        BY <1>7, <4>2
      <4>4. QED BY <4>1, <4>3 DEF BatchLags
    <3>4. QED BY <3>2, <3>3
  <2>2. QED BY <2>1
<1>10. delivered' \in [Batches -> Int]
  BY <1>3, <1>4, <1>5, <1>6
<1>11. \A q \in Requests : /\ pc'[q] = IF q = r THEN "idle" ELSE pc[q]
                           /\ work'[q] = IF q = r THEN None ELSE work[q]
  BY <1>0, <1>5, IdleFits, GotoFits
<1>12. ASSUME NEW q \in Requests PROVE ReadsLag(pc[q], work[q])'
  <2>1. CASE q = r
    BY <1>11, <2>1 DEF ReadsLag
  <2>2. CASE q # r
    BY <1>0, <1>3, <1>5, <1>11, <2>2, OthersLag
  <2>3. QED BY <2>1, <2>2
<1>13. QED BY <1>7, <1>8, <1>9, <1>10, <1>12 DEF LagInv

\* The baton's reception reads and writes in one step.
LEMMA BatonLags ==
    ASSUME RoadInv, LagInv, NEW d \in Trips, AcceptBaton(d, TripOf[d].loaded)
    PROVE  LagInv'
<1>0. HandlersOK /\ RowsOK
  BY DEF RoadInv
<1>1. PICK v : v = TripOf[d].loaded
  OBVIOUS
<1> DEFINE s == TripOf[d].station
           b == TripOf[d].batch
<1>2. /\ s \in Stations /\ b \in Batches /\ v \in Int
  BY <1>1, RoadConstantsAssumption DEF Sources
<1>3. /\ Close(d, "baton", v) /\ tank' = Filled(s, tank[s] + v)
      /\ TripOf[d].station \in Tanked => v > 0
      /\ delivered' = [delivered EXCEPT ![b] = @ + v] /\ pc' = pc /\ work' = work
  BY <1>1 DEF AcceptBaton, Accepts, StockAccepts
<1>4. /\ tank \in [Stations -> Int] /\ delivered \in [Batches -> Int]
      /\ \A t \in Stations : TankLags(t, tank[t])
      /\ \A t \in Batches : BatchLags(t, delivered[t])
  BY <1>0 DEF RowsOK, LagInv
<1>5. /\ IsFiniteSet(EventsOf(Trips)')
      /\ \A t \in Stations : \A n \in Int :
           TankLags(t, n) => TankLags(t, n)' /\ (t = s => TankLags(t, n + v)')
      /\ \A t \in Batches : \A n \in Int :
           BatchLags(t, n) => BatchLags(t, n)' /\ (t = b => BatchLags(t, n + v)')
  BY <1>0, <1>2, <1>3, CommitLags
<1> HIDE DEF s, b
<1>6. \A t \in Stations : TankLags(t, tank[t])'
  <2>1. ASSUME NEW t \in Stations PROVE TankLags(t, tank[t])'
    <3>1. PICK n : n = tank[t]
      OBVIOUS
    <3>2. n \in Int /\ TankLags(t, n)
      BY <1>4, <3>1
    <3>3. t \in Tanked => tank'[t] = IF t = s THEN n + v ELSE n
      BY <1>3, <1>4, <3>1 DEF Filled
    <3>4. TankLags(t, n)' /\ (t = s => TankLags(t, n + v)')
      BY <1>5, <3>2
    <3>5. QED BY <3>3, <3>4 DEF TankLags
  <2>2. QED BY <2>1
<1>7. \A t \in Batches : BatchLags(t, delivered[t])'
  <2>1. ASSUME NEW t \in Batches PROVE BatchLags(t, delivered[t])'
    <3>1. PICK n : n = delivered[t]
      OBVIOUS
    <3>2. n \in Int /\ BatchLags(t, n)
      BY <1>4, <3>1
    <3>3. delivered'[t] = IF t = b THEN n + v ELSE n
      BY <1>3, <1>4, <3>1
    <3>4. BatchLags(t, n)' /\ (t = b => BatchLags(t, n + v)')
      BY <1>5, <3>2
    <3>5. QED BY <3>3, <3>4 DEF BatchLags
  <2>2. QED BY <2>1
<1>8. delivered' \in [Batches -> Int]
  BY <1>2, <1>3, <1>4
<1>9. \A q \in Requests : ReadsLag(pc[q], work[q])'
  BY <1>0, <1>2, <1>3, OthersLag
<1>10. QED BY <1>5, <1>6, <1>7, <1>8, <1>9 DEF LagInv

\* A reception reads the tank and, a step later, the batch, as far as they have come.
LEMMA ReadingLags ==
    ASSUME RoadInv, LagInv, NEW r \in Requests, Receive(r) \/ Fill(r)
    PROVE  \E step, w : Goto(r, step, w) /\ Fits(step, w) /\ ReadsLag(step, w)
<1>0. HandlersOK /\ RowsOK /\ Fits(pc[r], work[r]) /\ ReadsLag(pc[r], work[r])
  BY DEF RoadInv, HandlersOK, LagInv
<1> DEFINE w == work[r]
<1>1. CASE Return(r)
  BY <1>1, IdleFits DEF Return, ReadsLag
<1>2. /\ DOMAIN w = Names /\ w.user \in Users /\ w.vol \in Int
      /\ w.trip \in Trips /\ MayReceive(w.user, w.trip)
  BY <1>0 DEF Receive, Fill, Fits
<1>3. TripOf[w.trip].station \in Stations /\ TripOf[w.trip].batch \in Batches
  BY <1>2, RoadConstantsAssumption DEF Sources
<1>4. CASE Receive(r)
  <2> DEFINE x == [w EXCEPT !.stock = tank[TripOf[w.trip].station]]
  <2>1. Goto(r, "fill", x)
    BY <1>4 DEF Receive
  <2>2. /\ DOMAIN x = Names /\ x.user = w.user /\ x.vol = w.vol /\ x.trip = w.trip
        /\ x.stock = tank[TripOf[w.trip].station]
    BY <1>2 DEF Names
  <2>3. x.stock \in 0..Room(w.trip)
    BY <1>0, <1>3, <2>2 DEF RowsOK, Room
  <2>4. TankLags(TripOf[w.trip].station, x.stock)
    BY <1>3, <2>2 DEF LagInv
  <2> HIDE DEF x, w
  <2>5. Fits("fill", x) /\ ReadsLag("fill", x)
    BY <1>2, <2>2, <2>3, <2>4 DEF Fits, Steps, ReadsLag
  <2>6. QED BY <2>1, <2>5
<1>5. CASE Fill(r)
  <2> DEFINE x == [w EXCEPT !.counted = delivered[TripOf[w.trip].batch]]
  <2>1. CASE /\ Accepts(TripOf[w.trip].station, w.stock, w.vol)
             /\ Goto(r, "count", x)
    <3>1. w.stock \in 0..Room(w.trip) /\ TankLags(TripOf[w.trip].station, w.stock)
      BY <1>0, <1>5 DEF Fill, Fits, ReadsLag
    <3>2. /\ DOMAIN x = Names /\ x.user = w.user /\ x.vol = w.vol /\ x.trip = w.trip
          /\ x.stock = w.stock /\ x.counted = delivered[TripOf[w.trip].batch]
      BY <1>2 DEF Names
    <3>3. x.counted \in Int /\ BatchLags(TripOf[w.trip].batch, x.counted)
      BY <1>3, <3>2 DEF LagInv
    <3> HIDE DEF x
    <3>4. Fits("count", x) /\ ReadsLag("count", x)
      BY <1>2, <2>1, <3>1, <3>2, <3>3 DEF Fits, Steps, Room, ReadsLag
    <3>5. QED BY <2>1, <3>4
  <2>2. QED BY <1>1, <1>5, <2>1 DEF Fill
<1>6. QED BY <1>4, <1>5

\* Every step keeps what lags lagging.
LEMMA LagStep == RoadInv /\ LagInv /\ [Next]_vars => LagInv'
<1> SUFFICES ASSUME RoadInv, LagInv, [Next]_vars PROVE LagInv'
  OBVIOUS
<1>0. HandlersOK /\ RowsOK
  BY DEF RoadInv
<1>1. CASE UNCHANGED vars
  <2>1. /\ \A D : ReceivedVol(D)' = ReceivedVol(D) /\ EventsOf(D)' = EventsOf(D)
        /\ \A b : NoneNegative(b)' <=> NoneNegative(b)
    BY <1>1, LitresStay DEF vars, rows
  <2>2. \A s, b, n : (TankLags(s, n)' <=> TankLags(s, n)) /\ (BatchLags(b, n)' <=> BatchLags(b, n))
    BY <2>1 DEF TankLags, BatchLags, DestinedTo, PartOf
  <2>3. UNCHANGED <<tank, delivered, pc, work>>
    BY <1>1 DEF vars, rows
  <2>4. QED BY <2>1, <2>2, <2>3 DEF LagInv, ReadsLag
<1>2. ASSUME NEW r \in Requests, NEW u \in Users, Arrive(r, u) PROVE LagInv'
  <2>0. UNCHANGED <<receptions, tank, delivered>>
    BY <1>2 DEF Arrive, ScanStart, NoteStart, PayStart, rows
  <2>1. ASSUME NEW c \in Cisterns, NEW samples \in {<< >>, Buffer[c]},
               NEW v \in Reported \cup {None}, NEW goal, ScanStart(r, u, c, samples, goal, v)
        PROVE  LagInv'
    <3>1. PICK w : Goto(r, "upload", w) /\ Fits("upload", w)
      BY <2>1, ScanFits
    <3>2. QED BY <1>0, <2>0, <3>1, ReadsKeep DEF ReadsLag
  <2>2. ASSUME NEW n \in Notes, NoteStart(r, u, n) PROVE LagInv'
    <3>1. PICK w : Goto(r, "note", w) /\ Fits("note", w)
      BY <2>2, NoteFits
    <3>2. QED BY <1>0, <2>0, <3>1, ReadsKeep DEF ReadsLag
  <2>3. ASSUME NEW d \in Trips, PayStart(r, u, d) PROVE LagInv'
    <3>1. PICK w : Goto(r, "pay", w) /\ Fits("pay", w)
      BY <2>3, PayFits
    <3>2. QED BY <1>0, <2>0, <3>1, ReadsKeep DEF ReadsLag
  <2>4. QED BY <1>2, <2>1, <2>2, <2>3 DEF Arrive
<1>3. ASSUME NEW r \in Requests, Count(r) PROVE LagInv'
  BY <1>3, CountLags
<1>4. ASSUME NEW r \in Requests, Receive(r) \/ Fill(r) PROVE LagInv'
  <2>1. PICK step, w : Goto(r, step, w) /\ Fits(step, w) /\ ReadsLag(step, w)
    BY <1>4, ReadingLags
  <2>2. UNCHANGED <<receptions, tank, delivered>>
    BY <1>4 DEF Receive, Fill, rows
  <2>3. QED BY <1>0, <2>1, <2>2, ReadsKeep
<1>5. ASSUME NEW r \in Requests,
             Upload(r) \/ Park(r) \/ Look(r) \/ Find(r) \/ Measure(r)
               \/ Note(r) \/ Mark(r) \/ Pay(r) \/ Abort(r)
      PROVE  LagInv'
  <2>1. PICK step, w : /\ Goto(r, step, w) /\ Fits(step, w)
                       /\ step = "fill" => Receive(r)
                       /\ step = "count" => Fill(r)
    BY <1>0, <1>5, StepFits
  <2>2. CASE step \in {"fill", "count"}
    BY <1>4, <2>1, <2>2
  <2>3. CASE step \notin {"fill", "count"}
    <3>1. UNCHANGED <<receptions, tank, delivered>>
      BY <1>5 DEF Upload, Park, Look, Find, Measure, Note, Mark, Pay, Abort, rows
    <3>2. QED BY <1>0, <2>1, <2>3, <3>1, ReadsKeep DEF ReadsLag
  <2>4. QED BY <2>2, <2>3
<1>6. ASSUME NEW d \in Trips, AcceptBaton(d, TripOf[d].loaded) PROVE LagInv'
  BY <1>6, BatonLags
<1>7. QED BY <1>1, <1>2, <1>3, <1>4, <1>5, <1>6 DEF Next, Step

\* Nothing was received and every book is at its start.
LEMMA LagInitially == Init => LagInv
<1> SUFFICES ASSUME Init PROVE LagInv
  OBVIOUS
<1>1. \A D \in SUBSET Trips : EventsOf(D) = {}
  <2>1. \A d \in Trips : DOMAIN receptions[d] = {}
    BY DEF Init
  <2>2. QED BY <2>1 DEF EventsOf
<1>2. \A D \in SUBSET Trips : ReceivedVol(D) = 0
  <2>1. ASSUME NEW D \in SUBSET Trips PROVE ReceivedVol(D) = 0
    <3> DEFINE f == [e \in EventsOf(D) |-> receptions[e[1]][e[2]].vol]
    <3>1. DOMAIN f = {}
      BY <1>1
    <3> HIDE DEF f
    <3>2. SumFunctionOnSet(f, {}) = 0
      BY SumEmpty
    <3>3. QED BY <3>1, <3>2 DEF ReceivedVol, SumFunction, f
  <2>2. QED BY <2>1
<1>3. IsFiniteSet(EventsOf(Trips))
  BY <1>1, FS_EmptySet
<1>4. \A s \in Stations : TankLags(s, tank[s])
  BY <1>2, RoadConstantsAssumption DEF Init, TankLags, DestinedTo
<1>5. \A b \in Batches : BatchLags(b, delivered[b])
  BY <1>2 DEF Init, BatchLags, PartOf
<1>6. delivered \in [Batches -> Int] /\ \A r \in Requests : ReadsLag(pc[r], work[r])
  BY DEF Init, ReadsLag
<1>7. QED BY <1>3, <1>4, <1>5, <1>6 DEF LagInv

-------------------------------------------------------------------------------
(* The theorems. *)

\* The invariant holds forever.
LEMMA RoadInductive == Spec => []RoadInv
<1>1. RoadInv /\ [Next]_vars => RoadInv'
  BY RoadStep
<1>2. QED BY <1>1, RoadInitially, PTL DEF Spec

\* However many stations, retries and stale reads race, a trip is received once
\* through its sticker and once through its baton at most: custodians scanning one
\* cistern at the same time cannot both have it received.
THEOREM ReceivedOncePerPath == Spec => []OneReceptionPerPath
<1>1. RoadInv => OneReceptionPerPath
  <2>1. ASSUME RoadInv, NEW d \in Trips
        PROVE  /\ Cardinality(BySticker(d)) <= 1
               /\ Len(receptions[d]) - Cardinality(BySticker(d)) <= 1
    <3>1. Paths(d)
      BY <2>1 DEF RoadInv, PathInv
    <3>2. Cardinality(BySticker(d)) = IF d \in arrived THEN 1 ELSE 0
      BY <3>1, FS_EmptySet, FS_Singleton DEF Paths
    <3>3. QED BY <3>1, <3>2 DEF Paths
  <2>2. QED BY <2>1 DEF OneReceptionPerPath
<1>2. QED BY <1>1, RoadInductive, PTL

\* The driver of every trip that was received is settled once, for the litres of
\* the first reception, in whatever order the two paths commit.
THEOREM FirstReceptionSettles == Spec => []SettledForTheFirst
<1>1. RoadInv => SettledForTheFirst
  BY DEF RoadInv
<1>2. QED BY <1>1, RoadInductive, PTL

\* Station staff receive and pay what is destined to their own station and nothing
\* else, also when the trip aboard changed between their scan and their reception.
THEOREM StaffStayAtTheirStation == Spec => []OwnStationOnly
<1>1. RoadInv => OwnStationOnly
  BY DEF RoadInv
<1>2. QED BY <1>1, RoadInductive, PTL

\* What a driver was paid stays paid, with its litres: racing payments and later
\* receptions change no more than the name of who paid.
THEOREM PaidStaysPaid == Spec => PaidIsFinal
<1>1. RoadInv /\ [Next]_vars => [PaidStays]_vars
  BY RoadStep
<1>2. QED BY <1>1, RoadInductive, PTL DEF Spec, PaidIsFinal

\* No tank is ever fuller than it can be or below empty, although a reception
\* writes the level it computed from an earlier reading.
THEOREM TanksHold == Spec => [](\A s \in Stations : tank[s] \in 0..TankCap[s])
<1>1. RoadInv => \A s \in Stations : tank[s] \in 0..TankCap[s]
  BY DEF RoadInv, RowsOK
<1>2. QED BY <1>1, RoadInductive, PTL

\* What a scan has answered for is on the server: the answer counts every sample the
\* logger sent, and each is there, although uploads of one logger overlap, end in the
\* middle and are made again.
THEOREM AnsweredIsUploaded == Spec => []UploadIsComplete
<1>1. Init => UploadInv
  BY DEF Init, UploadInv, UploadIsComplete
<1>2. RoadInv /\ UploadInv /\ [Next]_vars => UploadInv'
  BY UploadStep
<1>3. UploadInv => UploadIsComplete
  BY DEF UploadInv
<1>4. QED BY <1>1, <1>2, <1>3, RoadInductive, PTL DEF Spec

\* Receptions that overlap compute tank and batch from readings that others have
\* overtaken, and an update may be lost: but no tank ever holds, and no batch ever
\* counts as delivered, litres that no RECEIVED event reports.
THEOREM RoadBooksOnlyLagHolds == Spec => []RoadBooksOnlyLag
<1>1. RoadInv /\ LagInv /\ [Next]_vars => LagInv'
  BY LagStep
<1>2. RoadInv /\ LagInv => RoadBooksOnlyLag
  <2>1. ASSUME RoadInv, LagInv PROVE RoadBooksOnlyLag
    <3>1. \A s \in Stations : tank[s] \in 0..TankCap[s]
      BY <2>1 DEF RoadInv, RowsOK
    <3>2. Tanked \subseteq Stations
      BY RoadConstantsAssumption
    <3>3. QED BY <2>1, <3>1, <3>2 DEF RoadBooksOnlyLag, LagInv, TankLags, BatchLags
  <2>2. QED BY <2>1
<1>3. QED BY <1>1, <1>2, LagInitially, RoadInductive, PTL DEF Spec
===============================================================================
