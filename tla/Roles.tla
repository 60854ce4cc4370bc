--------------------------------- MODULE Roles ---------------------------------
(***************************************************************************)
(* Who may do what: the API's table of roles (auth/permissions.ts and the  *)
(* controllers' decorators), what some of its services ask of the role     *)
(* besides, and the web client's own tables (lib/role-access.ts).  Nothing *)
(* keeps the three alike.  A path is known by its first segment.           *)
(***************************************************************************)
EXTENDS Integers, FiniteSets

CONSTANTS Users, Role, None

AppRoles == {"ADMIN", "IMPORTER", "TRANSPORTER", "DEPOT_OPERATOR", "LAB", "AUDITOR",
             "STATION_STAFF", "VERIFIER", "CITIZEN"}

ASSUME RolesAssumption == Role \in [Users -> AppRoles] /\ None \notin Users

Carriers == {"ADMIN", "TRANSPORTER", "DEPOT_OPERATOR"}

\* The operations the web client calls, and the roles the API's guard lets call each.
RolesAllowed ==
    [qrIssue |-> Carriers, demoSimulate |-> Carriers, checkpointWrite |-> Carriers,
     qrAccept |-> {"ADMIN", "STATION_STAFF"},
     qrSync |-> Carriers \cup {"STATION_STAFF"}, scan |-> Carriers \cup {"STATION_STAFF"},
     checkpointRead |-> Carriers \cup {"STATION_STAFF", "VERIFIER", "AUDITOR"},
     batchCreate |-> {"ADMIN", "IMPORTER"},
     auditWrite |-> {"ADMIN", "AUDITOR", "VERIFIER"},
     anomalyStatus |-> {"ADMIN", "AUDITOR", "VERIFIER"},
     blockchainAnchor |-> {"ADMIN", "AUDITOR", "IMPORTER"},
     supervision |-> {"ADMIN", "AUDITOR", "VERIFIER", "STATION_STAFF"},
     inbound |-> {"ADMIN", "STATION_STAFF"}]

\* The services that ask for the role once more, behind the guard.
ServiceTakes ==
    [scan |-> {"STATION_STAFF", "ADMIN", "TRANSPORTER"},
     qrAccept |-> {"STATION_STAFF", "ADMIN"},
     inbound |-> {"STATION_STAFF", "ADMIN"}]

ALL_NAV == {"supervision", "acceso", "estacion", "escanear", "mi-qr", "qr-prueba", "verify",
            "tramos", "simular", "mapa", "", "batches", "anomalies", "audits", "blockchain"}

\* The menu of each role.
NAV_BY_ROLE ==
    [ADMIN |-> ALL_NAV,
     STATION_STAFF |-> {"estacion", "escanear", "tramos", "blockchain"},
     TRANSPORTER |-> {"verify", "mi-qr", "tramos", "simular"},
     VERIFIER |-> {"supervision", "tramos", "blockchain"},
     CITIZEN |-> {"mapa"},
     DEPOT_OPERATOR |-> {"verify", "mi-qr", "tramos", "simular"},
     IMPORTER |-> {"batches", "mapa", "blockchain"},
     LAB |-> {"batches"},
     AUDITOR |-> {"supervision", "tramos", "blockchain", "anomalies", "audits"}]

\* Slip: importers start at the movements, which are not theirs.
HomeOfOffice ==
    [ADMIN |-> "supervision", STATION_STAFF |-> "estacion", TRANSPORTER |-> "verify",
     VERIFIER |-> "supervision", CITIZEN |-> "mapa", DEPOT_OPERATOR |-> "verify",
     IMPORTER |-> "supervision", LAB |-> "batches", AUDITOR |-> "supervision"]

HOME_BY_ROLE ==
    [ADMIN |-> "supervision", STATION_STAFF |-> "estacion", TRANSPORTER |-> "verify",
     VERIFIER |-> "supervision", CITIZEN |-> "mapa", DEPOT_OPERATOR |-> "verify",
     IMPORTER |-> "batches", LAB |-> "batches", AUDITOR |-> "supervision"]

ROUTES_BY_ROLE ==
    [STATION_STAFF |-> {"estacion", "escanear", "tramos", "blockchain", "q", "c"},
     TRANSPORTER |-> {"verify", "simular", "tramos", "mi-qr", "q", "c"},
     VERIFIER |-> {"supervision", "tramos", "blockchain", "acceso"},
     CITIZEN |-> {"mapa", "acceso"},
     DEPOT_OPERATOR |-> {"verify", "simular", "tramos", "mi-qr", "q", "c"},
     IMPORTER |-> {"batches", "mapa", "blockchain"},
     LAB |-> {"batches"},
     AUDITOR |-> {"supervision", "tramos", "blockchain", "acceso", "anomalies", "audits",
                  "mapa", "batches"}]

canAccessPath(role, path) == role = "ADMIN" \/ path \in ROUTES_BY_ROLE[role]

\* Slip: whoever brings a load may also confirm it.
AcceptersAndCarriers == Carriers \cup {"STATION_STAFF"}

canAcceptCustody == {"ADMIN", "STATION_STAFF"}

canAnchorEvidence == {"ADMIN", "AUDITOR", "IMPORTER"}

\* What the pages let a user do: page, operation, roles the page offers it to.
\* The two pages behind a QR upload for whoever is logged in.
Offers ==
    {<<"verify", "qrIssue", Carriers>>, <<"verify", "qrSync", Carriers>>,
     <<"simular", "demoSimulate", Carriers>>,
     <<"tramos", "checkpointWrite", Carriers>>,
     <<"tramos", "checkpointRead",
       Carriers \cup {"STATION_STAFF", "VERIFIER", "AUDITOR"}>>,
     <<"q", "qrAccept", canAcceptCustody>>, <<"q", "qrSync", AppRoles>>,
     <<"c", "scan", AppRoles>>, <<"c", "qrAccept", canAcceptCustody>>,
     <<"escanear", "inbound", {"STATION_STAFF"}>>,
     <<"supervision", "supervision", AppRoles>>, <<"estacion", "supervision", AppRoles>>,
     <<"batches", "batchCreate", {"ADMIN", "IMPORTER"}>>,
     <<"audits", "auditWrite", {"ADMIN", "AUDITOR", "VERIFIER"}>>,
     <<"anomalies", "anomalyStatus", {"ADMIN", "AUDITOR", "VERIFIER"}>>,
     <<"batches", "blockchainAnchor", canAnchorEvidence>>,
     <<"blockchain", "blockchainAnchor", canAnchorEvidence>>}
===============================================================================
