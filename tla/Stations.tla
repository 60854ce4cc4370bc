------------------------------- MODULE Stations -------------------------------
(***************************************************************************)
(* What is shown of one station: the citizens' map and the supervisors'    *)
(* panel (stations.service.ts, station-quality.ts).  Trips, readings and   *)
(* certificates come from elsewhere and are taken as they come.            *)
(***************************************************************************)
EXTENDS Integers, Sequences, FiniteSets, Sorting

CONSTANTS MaxTrips,  \* bound: trips ever sent here
          Window,    \* the trips the panel looks at: 8 in the code
          Share,     \* per cent of the tank a trip brings
          Level,     \* per cent of the tank at first
          Given      \* readings that receptions report

\* Of a temperature only counts whether it is known.
Readings == [water : BOOLEAN, density : {"low", "good", "unknown"}, temperature : BOOLEAN]
NoReading == [water |-> FALSE, density |-> "unknown", temperature |-> FALSE]

ASSUME StationsAssumption ==
    /\ MaxTrips \in Nat /\ Window \in Nat \ {0} /\ Share \in 1..100 /\ Level \in 0..100
    /\ Given \subseteq Readings

VARIABLES trip,    \* Delivery rows to this station, in the order they were loaded
          station, \* the row: whether it has a tank, its column of availability
          level,   \* stock of the tank, per cent
          sensor,  \* the tank's latest measurement, if any
          grade    \* quality status of each trip's batch

svars == <<trip, station, level, sensor, grade>>

\* A station may have no tank: then it has neither stock nor measurements.
StationsInit ==
    /\ trip = << >> /\ grade = << >> /\ sensor = NoReading
    /\ station \in [tank : BOOLEAN, availability : {"UNKNOWN"}]
    /\ level = IF station.tank THEN Level ELSE 0

-------------------------------------------------------------------------------
(* Two views of the station. *)

availabilityFromFillRatio(percent) ==
    CASE percent >= 70 -> "FULL"
      [] percent \in 35..69 -> "MEDIUM"
      [] percent \in 6..34 -> "LOW"
      [] OTHER -> "EMPTY"

assessStationQuality(reading, batchGrade, certified) ==
    CASE batchGrade = "REJECTED" -> "RECHAZADO"
      [] batchGrade # "REJECTED" /\ (reading.water \/ reading.density = "low") -> "ALERTA"
      [] OTHER -> IF batchGrade = "CERTIFIED" \/ certified
                       \/ reading.density # "unknown" \/ reading.temperature
                  THEN "OK" ELSE "SIN_DATO"

Delivered == {d \in DOMAIN trip : trip[d].status = "DELIVERED"}
Open == DOMAIN trip \ Delivered

\* d was delivered last of the trips in D.
LastDelivered(D) == CHOOSE d \in D : \A e \in D : trip[e].at <= trip[d].at

\* The reading of a trip stands before the tank's: its water flag is never
\* unknown, its density and its temperature may be.
Judged(d) ==
    assessStationQuality(
      [trip[d].reading EXCEPT !.density = IF @ = "unknown" THEN sensor.density ELSE @,
                              !.temperature = @ \/ sensor.temperature],
      grade[d], trip[d].certified)

JudgedByTank == assessStationQuality(sensor, "PENDING", FALSE)

\* The citizens' map: the last delivered trip, if any; of a station without a tank
\* the column, which only receptions into a tank write.
listPublic ==
    [level |-> IF station.tank THEN availabilityFromFillRatio(level) ELSE station.availability,
     tone |-> IF Delivered = {} THEN JudgedByTank ELSE Judged(LastDelivered(Delivered))]

\* Slip: the panel judges by the first row of its window.
FirstOfWindow(rows) == rows[1]

\* The first delivered row of the window, else its first.
LatestOfWindow(rows) ==
    LET done == {i \in DOMAIN rows : rows[i] \in Delivered} IN
    IF done = {} THEN rows[1] ELSE rows[CHOOSE i \in done : \A j \in done : i <= j]

\* Rows by deliveredAt, descending: PostgreSQL puts the rows without one first,
\* and these go by loadedAt.
Earlier(d, e) ==
    CASE d \in Open /\ e \in Open -> d > e
      [] d \in Open /\ e \notin Open -> TRUE
      [] d \notin Open /\ e \in Open -> FALSE
      [] OTHER -> trip[d].at > trip[e].at

ByDelivery == {p \in (DOMAIN trip) \X (DOMAIN trip) : Earlier(p[1], p[2])}
PanelRows == FirstOf(Window, Sorted(DOMAIN trip, ByDelivery))

\* The supervisors' panel, to which no tank is an empty one.
listSupervision ==
    [level |-> availabilityFromFillRatio(level),
     tone |-> IF trip = << >> THEN JudgedByTank ELSE Judged(LatestOfWindow(PanelRows))]

-------------------------------------------------------------------------------
(* What arrives from the other services. *)

Send(certified) ==
    /\ Len(trip) < MaxTrips
    /\ trip' = Append(trip, [status |-> "IN_TRANSIT", certified |-> certified,
                             reading |-> NoReading, at |-> 0])
    /\ grade' = Append(grade, "PENDING")
    /\ UNCHANGED <<station, level, sensor>>

\* A reception fills the tank, if there is one, and measures it.
Receive(d, reading) ==
    /\ d \in Open
    /\ trip' = [trip EXCEPT ![d].status = "DELIVERED", ![d].reading = reading,
                            ![d].at = Cardinality(Delivered) + 1]
    /\ \/ /\ station.tank /\ level + Share <= 100
          /\ level' = level + Share
          /\ station' = [station EXCEPT !.availability = availabilityFromFillRatio(level')]
          /\ sensor' = reading
       \/ ~station.tank /\ UNCHANGED <<station, level, sensor>>
    /\ UNCHANGED grade

\* A measurement of the tank by itself, which knows neither water nor density; it may
\* know the temperature.
createMeasurement(known) ==
    /\ station.tank
    /\ sensor' = [NoReading EXCEPT !.temperature = known]
    /\ UNCHANGED <<trip, station, level, grade>>

\* The laboratory decides on a batch.
Grade(d, g) ==
    /\ d \in DOMAIN trip
    /\ grade' = [grade EXCEPT ![d] = g]
    /\ UNCHANGED <<trip, station, level, sensor>>

StationsNext ==
    \/ \E certified \in BOOLEAN : Send(certified)
    \/ \E d \in DOMAIN trip, reading \in Given : Receive(d, reading)
    \/ \E d \in DOMAIN trip, g \in {"CERTIFIED", "REJECTED"} : Grade(d, g)
    \/ \E known \in BOOLEAN : createMeasurement(known)

-------------------------------------------------------------------------------
(* Properties. *)

\* Citizens and supervisors see the same quality of a station that has received a
\* trip, as long as fewer trips are on their way than the panel looks at; open trips,
\* which sort before the received ones, do not count.  They see the same level if the
\* station has a tank: of one without, the map shows the column, the panel an empty tank.
MapAndPanelAgree ==
    Delivered # {} /\ Cardinality(Open) < Window =>
      /\ listPublic.tone = listSupervision.tone
      /\ station.tank => listPublic.level = listSupervision.level
===============================================================================
