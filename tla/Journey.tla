-------------------------------- MODULE Journey --------------------------------
(***************************************************************************)
(* What is told of the road: the samples, which may be stored in any       *)
(* order, the litres and the quality that changed from one to the next     *)
(* (common/journey-trail.ts), the same trail packed into the QR, and the   *)
(* four places that tell it: the cistern's sticker, the baton's QR, the    *)
(* list of the movements page, the members' report.  Each has a window of  *)
(* its own.                                                                *)
(* Litres and densities are counted in the least difference the code       *)
(* reports, times in half seconds; temperatures go as densities do.        *)
(***************************************************************************)
EXTENDS Integers, Sequences, Functions, Sorting, Contracts

CONSTANTS Samples,   \* what loggers, phones and tabs may send
          MaxStored, \* bound: rows
          Unknown,   \* density nobody gave
          Recent,    \* rows of the list: 200 in the code
          Leg,       \* rows of a journey: 80
          Few        \* rows of a trip in the report: 8

ASSUME JourneyAssumption ==
    /\ \A s \in Samples :
         /\ DOMAIN s = {"trip", "batch", "cistern", "by", "kind", "vol", "density", "water", "at"}
         /\ s.vol \in Int /\ s.at \in Nat /\ s.water \in BOOLEAN
         /\ s.trip # None => s.trip \in Agreed /\ s.cistern = TripCistern[s.trip]
    /\ {MaxStored, Recent, Leg, Few} \subseteq Nat

VARIABLE stored \* RouteCheckpoint rows, as they were inserted

JourneyInit == stored = << >>

\* Slip: in the order of insertion.
AsStored(points) == points

\* Earlier by time of capture; of one time, earlier in the list.
Captured(points) ==
    {p \in (DOMAIN points) \X (DOMAIN points) :
       \/ points[p[1]].at < points[p[2]].at
       \/ points[p[1]].at = points[p[2]].at /\ p[1] < p[2]}

\* By time of capture; the sort is stable.
orderedPoints(points) == Taken(points, Sorted(DOMAIN points, Captured(points)))

\* One drop for each neighbour that differs, with where it starts and ends.
computeVolumeDrops(points) ==
    LET p == orderedPoints(points)
        all == [i \in 1..(Len(p) - 1) |->
                  [from |-> p[i].at, to |-> p[i + 1].at, previous |-> p[i].vol,
                   next |-> p[i + 1].vol, delta |-> p[i + 1].vol - p[i].vol]]
    IN KeptAt(all, {i \in DOMAIN all : all[i].delta # 0})

\* Densities are compared only between neighbours that both have one.
computeQualityChanges(points) ==
    LET p == orderedPoints(points)
        \* of one metric: changed neighbours
        Changes(metric, Changed(_, _)) ==
            LET all == [i \in 1..(Len(p) - 1) |->
                          [metric |-> metric, to |-> p[i + 1].at,
                           changed |-> Changed(p[i], p[i + 1])]]
            IN KeptAt(all, {i \in DOMAIN all : all[i].changed})
    IN [water |-> Changes("water", LAMBDA a, b : a.water # b.water),
        density |-> Changes("density", LAMBDA a, b : /\ Unknown \notin {a.density, b.density}
                                                     /\ a.density # b.density)]

normalizeCheckpointKind(kind) ==
    IF kind \in {"LOAD_DEPARTURE", "ARRIVAL_STATION"} THEN kind ELSE "ROUTE_WAYPOINT"

\* The phone's copy has times in whole seconds.
compactTrailForQr(samples) ==
    [i \in DOMAIN samples |->
       LET s == samples[i] IN
       [kind |-> s.kind, vol |-> s.vol, density |-> s.density, water |-> s.water,
        ts |-> s.at \div 2]]

parseJourneyTrail(trail) ==
    [i \in DOMAIN trail |->
       LET row == trail[i] IN
       [kind |-> row.kind, vol |-> row.vol, density |-> row.density,
        water |-> row.water, at |-> 2 * row.ts]]

-------------------------------------------------------------------------------
(* Four tellers.  The one the code asks for a row's order sorts by time of *)
(* capture, and rows of one time come as they were stored.                  *)

RowsOf(d) == KeptAt(stored, {i \in DOMAIN stored : stored[i].trip = d})

\* The oldest rows of a trip.
journeyFor(d) == FirstOf(Leg, orderedPoints(RowsOf(d)))

\* The sticker's page, while d is the trip it finds.
getByQr(d) == [checkpoints |-> journeyFor(d), volumeDrops |-> computeVolumeDrops(journeyFor(d)),
               qualityChanges |-> computeQualityChanges(journeyFor(d))]

\* The page behind a baton's QR: the rows of its trip, all of them, and while there
\* are none the trail that came in the QR.
getBaton(points, trail) ==
    LET rows == IF points # << >> THEN points ELSE parseJourneyTrail(trail)
    IN [volumeDrops |-> computeVolumeDrops(rows), qualityChanges |-> computeQualityChanges(rows)]

\* The road of each trip in the report.  Water found when the cistern was loaded or
\* received is an alert as well, and not the road's.
listUnlockReport ==
    [d \in Agreed |->
       LET few == FirstOf(Few, orderedPoints(RowsOf(d))) IN
       [checkpoints |-> few, water |-> \E i \in DOMAIN few : few[i].water]]

\* The rows a user may see: of trips to the station, all, of the session's cistern,
\* or the user's own.
Visible(u, c, s) ==
    CASE Role[u] = "STATION_STAFF" /\ PostOf[u] # None ->
           s.trip # None /\ TripStation[s.trip] = PostOf[u]
      [] Role[u] \in {"VERIFIER", "AUDITOR", "ADMIN"} -> TRUE
      [] OTHER -> IF c # None THEN s.cistern = c ELSE s.by = u

\* The newest of them, newest first.
listForActor(u, c) ==
    LET seen == orderedPoints(KeptAt(stored, {i \in DOMAIN stored : Visible(u, c, stored[i])}))
    IN FirstOf(Recent, [n \in DOMAIN seen |-> seen[Len(seen) + 1 - n]])

\* The page sorts them apart: by trip, or else by cistern and batch, each in order of
\* time.
GroupOf(s) ==
    IF s.trip # None THEN <<"trip", s.trip>> ELSE <<"cistern", s.cistern, s.batch>>

groupByJourney(rows) ==
    [g \in {GroupOf(rows[i]) : i \in DOMAIN rows} |->
       orderedPoints(KeptAt(rows, {i \in DOMAIN rows : GroupOf(rows[i]) = g}))]

-------------------------------------------------------------------------------
(* Samples arrive. *)

Row(s) == [s EXCEPT !.kind = normalizeCheckpointKind(@)]

\* What has an id of its own is stored once: a logger's sample, the invented trail,
\* a phone's note that is sent again.
Store(s) ==
    /\ Len(stored) < MaxStored
    /\ \A i \in DOMAIN stored : stored[i] # Row(s)
    /\ stored' = Append(stored, Row(s))

\* The form of the movements page makes an id for every try: the same note is stored
\* again when its answer was lost.
submit(u, s) ==
    /\ Len(stored) < MaxStored
    /\ Role[u] \in RolesAllowed["checkpointWrite"] /\ s.by = u
    /\ stored' = Append(stored, Row(s))

JourneyNext == \E s \in Samples : Store(s) \/ \E u \in Users : submit(u, s)

-------------------------------------------------------------------------------
(* Properties. *)

Total(drops) == SumFunction([i \in DOMAIN drops |-> drops[i].delta])

RoadAddsUp(p) ==
    LET drops == computeVolumeDrops(p)
        wet == computeQualityChanges(p).water
        packed == getBaton(<< >>, compactTrailForQr(p)).volumeDrops
    IN /\ Total(drops) = p[Len(p)].vol - p[1].vol
       /\ \A i \in 1..(Len(drops) - 1) : /\ drops[i].to <= drops[i + 1].from
                                         /\ drops[i].next = drops[i + 1].previous
       /\ (Len(wet) % 2 = 1) = (p[1].water # p[Len(p)].water)
       /\ Total(packed) = Total(drops) /\ Len(packed) = Len(drops)

Times(rows) == [i \in DOMAIN rows |-> rows[i].at]
NoTies(rows) == \A i, j \in DOMAIN rows : rows[i].at = rows[j].at => i = j

\* The others see rows of their own, not a road.
SeesRoads(u, c) ==
    \/ c # None \/ Role[u] \in {"VERIFIER", "AUDITOR", "ADMIN"}
    \/ Role[u] = "STATION_STAFF" /\ PostOf[u] # None

\* What a page of trip d shows is the end of its road; where no window cuts the road
\* it tells what the sticker tells, and water that comes on the way is an alert of the
\* report.
PageAgrees(d, page) ==
    LET road == orderedPoints(RowsOf(d))
        sticker == getByQr(d)
        baton == getBaton(road, << >>)
    IN /\ Times(page) = Times(SubSeq(road, Len(road) - Len(page) + 1, Len(road)))
       /\ NoTies(road) /\ Len(road) <= Leg /\ Len(road) <= Len(page) =>
            sticker.volumeDrops = computeVolumeDrops(page)
       /\ Len(road) <= Leg => /\ sticker.volumeDrops = baton.volumeDrops
                              /\ sticker.qualityChanges = baton.qualityChanges
       /\ sticker.qualityChanges.water # << >> /\ Len(road) <= Few => listUnlockReport[d].water

\* The pages of u's list show each of its rows once, and agree with the others.
TellersAgree(u, c) ==
    LET rows == listForActor(u, c)
        pages == groupByJourney(rows)
    IN /\ SumFunction([g \in DOMAIN pages |-> Len(pages[g])]) = Len(rows)
       /\ \A d \in Agreed : <<"trip", d>> \in DOMAIN pages /\ SeesRoads(u, c) =>
            PageAgrees(d, pages[<<"trip", d>>])

\* Whatever order the samples were stored in, the drops of a trip run forward in time,
\* each starts at the litres the one before ended at, and together they are what it
\* lost from its first sample to its last; water that came and went shows both
\* times; the QR tells the same road, and so do the pages that show it.
JourneyAddsUp ==
    /\ \A d \in Agreed : RowsOf(d) # << >> => RoadAddsUp(orderedPoints(RowsOf(d)))
    /\ \A u \in Users : Role[u] \in RolesAllowed["checkpointRead"] =>
         \A c \in SessionCisterns(u) : TellersAgree(u, c)
===============================================================================
