-------------------------------- MODULE MCRoad --------------------------------
(* Small instances of Road for TLC. *)
EXTENDS Road, TLC

CONSTANTS d1, c1, s1, s2, b1, staff1, staff2, driver, r1, r2, n1, x1, x2

OneTrip == (d1 :> [batch |-> b1, cistern |-> c1, station |-> s1, loaded |-> 4, loadedAt |-> 1])
Room == [s \in Stations |-> 7]
Empty == [s \in Stations |-> 0]
Crew == (staff1 :> "STATION_STAFF" @@ staff2 :> "STATION_STAFF" @@ driver :> "TRANSPORTER")
Posts == (staff1 :> s1 @@ staff2 :> s2 @@ driver :> None)
Drives == (c1 :> driver)
Loggers == (c1 :> << [id |-> x1, vol |-> 4, at |-> 2], [id |-> x2, vol |-> 2, at |-> 3] >>)
\* The same sample, with and without the delivery it is about.
OneNote == {[id |-> n1, vol |-> 3, at |-> 4, kind |-> "ROUTE_WAYPOINT", batch |-> b1,
             cistern |-> None, trip |-> d] : d \in {None, d1}}
Symmetry == Permutations(Requests)
===============================================================================
