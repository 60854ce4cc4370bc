------------------------------- MODULE MCPortal -------------------------------
(* Two clerks, one user of each role, two trips, and samples of one road. *)
EXTENDS Portal

\* Nothing known, water, a low density; measurements bring a temperature alone.
MCRead(water, density, temperature) ==
    [water |-> water, density |-> density, temperature |-> temperature]
MCGiven ==
    {MCRead(FALSE, "unknown", FALSE), MCRead(TRUE, "unknown", FALSE), MCRead(FALSE, "low", TRUE)}

\* A user is called by the role.  Two of them drive; one of them two cisterns.
MCUsers == AppRoles
MCRole == [u \in MCUsers |-> u]

MCMoves == {[declared |-> 8000, measured |-> 7959], [declared |-> 1000, measured |-> 985]}

MCTripStation == [t1 |-> "s1", t2 |-> "s2"]
MCTripCistern == [t1 |-> "c1", t2 |-> "c2"]
MCPostOf == [u \in MCUsers |-> IF u = "STATION_STAFF" THEN "s1" ELSE None]
MCDrivenBy == [u \in MCUsers |-> CASE u = "TRANSPORTER" -> {"c1", "c2"}
                                   [] u = "DEPOT_OPERATOR" -> {"c2"}
                                   [] OTHER -> {}]

MCUnknown == -1
MCNoted(d, b, c, u, kind, vol, density, water, time) ==
    [trip |-> d, batch |-> b, cistern |-> c, by |-> u, kind |-> kind, vol |-> vol,
     density |-> density, water |-> water, at |-> time]

\* Two trips whose roads overlap in time, and two notes of no trip.
MCSamples ==
    {MCNoted("t1", "b1", "c1", None, "LOAD_DEPARTURE", 10, 5, FALSE, 2),
     MCNoted("t1", "b1", "c1", "TRANSPORTER", "ROUTE_WAYPOINT", 9, MCUnknown, TRUE, 4),
     MCNoted("t1", "b1", "c1", None, "OTHER", 9, 4, FALSE, 5),
     MCNoted("t1", "b1", "c1", None, "ARRIVAL_STATION", 7, 5, TRUE, 5),
     MCNoted("t2", "b2", "c2", "DEPOT_OPERATOR", "ROUTE_WAYPOINT", 6, 5, TRUE, 4),
     MCNoted(None, "b1", "c2", "ADMIN", "ROUTE_WAYPOINT", 6, MCUnknown, FALSE, 7),
     MCNoted(None, "b2", "c2", "ADMIN", "ROUTE_WAYPOINT", 5, MCUnknown, FALSE, 7)}

\* One cistern by two of its names, and a baton.
MCStickerOf == [sticker |-> "sticker", plate |-> "sticker", baton |-> NoSign]
===============================================================================
