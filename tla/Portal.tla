-------------------------------- MODULE Portal --------------------------------
(***************************************************************************)
(* Everything around a trip: the office, the two views of a station, the   *)
(* contracts, the road that is told, a session in the browser, the         *)
(* membership page, two screens and the seed.  These parts write no row in *)
(* common, so none can disturb another and a behaviour exercises one of    *)
(* them, focus, while the others stand still.                              *)
(***************************************************************************)
EXTENDS Desk, Stations, Access, Contracts, Journey, Membership, Seeding, Screens

VARIABLE focus

Parts == {"desk", "stations", "access", "contracts", "journey", "membership", "seeding",
          "panel", "scanner"}

pvars == <<focus, dvars, svars, avars, kvars, stored, mvars, evars, nvars>>

PortalInit ==
    /\ focus \in Parts
    /\ DeskInit /\ StationsInit /\ AccessInit /\ ContractsInit /\ JourneyInit
    /\ MembershipInit /\ SeedingInit /\ ScreensInit
    /\ focus # "stations" => station.tank
    /\ focus # "membership" => chosen = NoWallet /\ asked = 0

PortalNext ==
    /\ UNCHANGED focus
    /\ \/ /\ focus = "desk" /\ DeskNext
          /\ UNCHANGED <<svars, avars, kvars, stored, mvars, evars, nvars>>
       \/ /\ focus = "stations" /\ StationsNext
          /\ UNCHANGED <<dvars, avars, kvars, stored, mvars, evars, nvars>>
       \/ /\ focus = "access" /\ AccessNext
          /\ UNCHANGED <<dvars, svars, kvars, stored, mvars, evars, nvars>>
       \/ /\ focus = "contracts" /\ ContractsNext
          /\ UNCHANGED <<dvars, svars, avars, stored, mvars, evars, nvars>>
       \/ /\ focus = "journey" /\ JourneyNext
          /\ UNCHANGED <<dvars, svars, avars, kvars, mvars, evars, nvars>>
       \/ /\ focus = "membership" /\ MembershipNext
          /\ UNCHANGED <<dvars, svars, avars, kvars, stored, evars, nvars>>
       \/ /\ focus = "seeding" /\ SeedingNext
          /\ UNCHANGED <<dvars, svars, avars, kvars, stored, mvars, nvars>>
       \/ /\ focus = "panel" /\ PanelNext
          /\ UNCHANGED <<dvars, svars, avars, kvars, stored, mvars, evars>>
       \/ /\ focus = "scanner" /\ ScannerNext
          /\ UNCHANGED <<dvars, svars, avars, kvars, stored, mvars, evars>>

\* The effects of the page, the provider's and the gate's, run when they are due.
PortalSpec ==
    /\ PortalInit /\ [][PortalNext]_pvars
    /\ WF_avars(focus = "access" /\ Restore) /\ WF_avars(focus = "access" /\ Redirect)

-------------------------------------------------------------------------------
(* Properties. *)

\* A tab always comes to rest on a page its user may see: no role is sent round in
\* circles, whatever was asked for, whoever logs in after whom.
GateSettles == focus = "access" => []<>AtRest
===============================================================================
