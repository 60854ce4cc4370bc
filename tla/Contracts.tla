------------------------------- MODULE Contracts -------------------------------
(***************************************************************************)
(* Every dispatched trip is a contract between the driver and the station, *)
(* which each side acknowledges (stations.service.ts).                     *)
(***************************************************************************)
EXTENDS Roles

CONSTANTS Agreed,     \* the trips
          TripStation, TripCistern,
          PostOf,     \* station of each user, None without one
          DrivenBy    \* the cisterns a user drives

\* Nobody of a station drives: the seed aside, only issue gives a cistern a driver, its
\* caller, and station staff may not issue.
ASSUME ContractsAssumption ==
    /\ DOMAIN TripStation = Agreed /\ DOMAIN TripCistern = Agreed
    /\ DOMAIN PostOf = Users /\ DOMAIN DrivenBy = Users
    /\ \A u \in Users : DrivenBy[u] # {} => Role[u] # "STATION_STAFF"

VARIABLES ack,    \* of each trip and side: who acknowledged, and the answers in hand
          told,   \* acknowledgements that were answered
          asking  \* what each user's request has read

kvars == <<ack, told, asking>>

Sides == {"station", "driver"}

ContractsInit ==
    /\ ack = [d \in Agreed |-> [s \in Sides |-> None]] /\ told = {}
    /\ asking = [u \in Users |-> None]

\* The contracts a user is shown whose session has taken cistern c, one of those the
\* user drives (None without any).
listContractsForActor(u, c) ==
    CASE Role[u] = "STATION_STAFF" /\ PostOf[u] # None ->
           {d \in Agreed : TripStation[d] = PostOf[u]}
      [] ~(Role[u] = "STATION_STAFF" /\ PostOf[u] # None) /\ c # None ->
           {d \in Agreed : TripCistern[d] = c}
      [] OTHER -> IF Role[u] = "ADMIN" THEN Agreed ELSE {}

SessionCisterns(u) == IF DrivenBy[u] = {} THEN {None} ELSE DrivenBy[u]

\* Slip: whoever drives may acknowledge.
MayAckAnyTrip(u, d) == Role[u] = "STATION_STAFF" => PostOf[u] = TripStation[d]

\* Staff for their station, a driver for any of their cisterns, an administrator for all.
MayAck(u, d) ==
    \/ Role[u] = "STATION_STAFF" /\ PostOf[u] = TripStation[d]
    \/ Role[u] \in {"TRANSPORTER", "DEPOT_OPERATOR"} /\ TripCistern[d] \in DrivenBy[u]
    \/ Role[u] = "ADMIN"

SidesOf(u) == CASE Role[u] = "STATION_STAFF" -> {"station"}
                [] Role[u] = "ADMIN" -> Sides
                [] OTHER -> {"driver"}

\* The delivery is read; who has no part in it is refused.
AckStart(u, d) ==
    /\ asking[u] = None /\ MayAck(u, d)
    /\ asking' = [asking EXCEPT ![u] = [trip |-> d, seen |-> ack[d]]]
    /\ UNCHANGED <<ack, told>>

\* A party writes its side anew.  An administrator writes both, each as it was read
\* where it was set: who acknowledged meanwhile is overwritten.
ackContract(u) ==
    /\ asking[u] # None
    /\ LET a == asking[u] IN
       /\ ack' = [ack EXCEPT ![a.trip] =
                    [s \in Sides |->
                       CASE s \notin SidesOf(u) -> @[s]
                         [] s \in SidesOf(u) /\ Role[u] = "ADMIN" /\ a.seen[s] # None -> a.seen[s]
                         [] OTHER -> u]]
       /\ told' = told \cup {<<a.trip, s>> : s \in SidesOf(u)}
    /\ asking' = [asking EXCEPT ![u] = None]

AckDies(u) ==
    /\ asking[u] # None
    /\ asking' = [asking EXCEPT ![u] = None]
    /\ UNCHANGED <<ack, told>>

ContractsNext ==
    \E u \in Users : (\E d \in Agreed : AckStart(u, d)) \/ ackContract(u) \/ AckDies(u)

ContractsSpec == ContractsInit /\ [][ContractsNext]_kvars

-------------------------------------------------------------------------------
(* Properties. *)

\* A contract a user is shown can be acknowledged by that user, and an answered
\* acknowledgement stays, made by a party to the contract or an administrator,
\* whatever an administrator who read the contract earlier writes over it.
ContractsHold ==
    /\ \A u \in Users : \A c \in SessionCisterns(u) : \A d \in listContractsForActor(u, c) :
         Role[u] \in {"ADMIN", "STATION_STAFF", "TRANSPORTER", "DEPOT_OPERATOR"} => MayAck(u, d)
    /\ \A answer \in told : ack[answer[1]][answer[2]] # None
    /\ \A d \in Agreed, s \in Sides :
         LET u == ack[d][s] IN
         u # None => \/ Role[u] = "ADMIN"
                     \/ s = "station" /\ PostOf[u] = TripStation[d]
                     \/ s = "driver" /\ TripCistern[d] \in DrivenBy[u]
===============================================================================
