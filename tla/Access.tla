-------------------------------- MODULE Access --------------------------------
(***************************************************************************)
(* A session in one browser tab: the token the API signs and checks        *)
(* (auth.service.ts, the two guards), what AuthProvider keeps of it in the *)
(* tab and in localStorage, and where AuthGate lets the tab stay.  Other   *)
(* tabs of the same browser share localStorage and nothing else.           *)
(***************************************************************************)
EXTENDS Sequences, Roles

CONSTANTS MaxLogins, \* bound: tokens ever signed
          MaxMoves   \* bound: pages somebody asks for

ASSUME AccessAssumption == MaxLogins \in Nat /\ MaxMoves \in Nat

VARIABLES token,  \* tokens signed: whose, and whether the API still takes it
          saved, \* the token in localStorage, 0 for none
          ready,  \* the tab has looked there
          held,   \* the tab's own token, 0 without a user
          path, next, \* where the tab is; `next` of /login
          answer, \* a call the API refused: which, to which role, how
          moves

avars == <<token, saved, ready, held, path, next, answer, moves>>

Paths == ALL_NAV \cup {"login", "cochabamba", "q", "c"}
PUBLIC == {"login", "mapa", "cochabamba", "q", "acceso"}
Top == ""  \* the path / itself, which safeInternalPath answers for none

NoAnswer == [call |-> "none", role |-> "none", code |-> 0]

AccessInit ==
    /\ token = << >> /\ saved = 0 /\ ready = FALSE /\ held = 0
    /\ path = "login" /\ next = Top /\ answer = NoAnswer /\ moves = 0

\* The role of the tab's user (only where there is one).
Mine == Role[token[held].user]
HomeOf(role) == HOME_BY_ROLE[role]

-------------------------------------------------------------------------------
(* The gate. *)

roleBlocked == held # 0 /\ path # "login" /\ ~canAccessPath(Mine, path)

\* What the gate's effect would do nothing about.
AtRest == /\ ready
          /\ held = 0 => path \in PUBLIC
          /\ held # 0 => path # "login"
          /\ ~roleBlocked

\* Where a login leads: to the page asked for, or home.
Destination(role) == IF next # Top /\ canAccessPath(role, next) THEN next ELSE HomeOf(role)

Redirect ==
    /\ ready /\ ~AtRest
    /\ IF held = 0 THEN path' = "login" /\ next' = path
       ELSE /\ path' = IF path = "login" THEN Destination(Mine) ELSE HomeOf(Mine)
            /\ next' = Top
    /\ answer' = NoAnswer
    /\ UNCHANGED <<token, saved, ready, held, moves>>

\* The provider's first effect.
Restore ==
    /\ ~ready
    /\ ready' = TRUE /\ held' = saved
    /\ UNCHANGED <<token, saved, path, next, answer, moves>>

-------------------------------------------------------------------------------
(* What the user does. *)

\* The page is loaded anew: an address, a scanned code, a reload.
OpenPage(p) ==
    /\ moves < MaxMoves /\ moves' = moves + 1
    /\ ready' = FALSE /\ held' = 0 /\ path' = p /\ next' = Top /\ answer' = NoAnswer
    /\ UNCHANGED <<token, saved>>

Links == IF held = 0 THEN {"login", "mapa", "acceso", "q"}
         ELSE NAV_BY_ROLE[Mine] \cup {HomeOf(Mine), "c", "q"}

\* A link, or the scanner's, within the application.
Follow(p) ==
    /\ moves < MaxMoves /\ moves' = moves + 1
    /\ ready /\ p \in Links /\ p # path
    /\ path' = p /\ next' = Top /\ answer' = NoAnswer
    /\ UNCHANGED <<token, saved, ready, held>>

\* The form of /login: the token is signed, saved, kept, and the tab moves on.
login(u) ==
    /\ AtRest /\ held = 0 /\ path = "login" /\ Len(token) < MaxLogins
    /\ token' = Append(token, [user |-> u, taken |-> TRUE])
    /\ saved' = Len(token') /\ held' = Len(token')
    /\ path' = Destination(Role[u]) /\ next' = Top
    /\ UNCHANGED <<ready, answer, moves>>

\* The shell and the gate both send the tab to /login, the gate with a way back:
\* whichever comes last stays.
logout ==
    /\ AtRest /\ held # 0
    /\ saved' = 0 /\ held' = 0 /\ answer' = NoAnswer
    /\ path' = "login" /\ next' \in {Top, path}
    /\ UNCHANGED <<token, ready, moves>>

\* Another tab of the browser logs in or out.
Elsewhere ==
    \/ /\ saved # 0 /\ saved' = 0 /\ UNCHANGED token
    \/ /\ Len(token) < MaxLogins
       /\ \E u \in Users : token' = Append(token, [user |-> u, taken |-> TRUE])
       /\ saved' = Len(token')

\* Twelve hours pass, or the seed has replaced the users.
Lapse(n) == n \in DOMAIN token /\ token[n].taken /\ token' = [token EXCEPT ![n].taken = FALSE]

\* AuthGuard asks for a user behind the token, RolesGuard for the role, and then a
\* service may do so again.
requireRole(taken, role, op) ==
    CASE ~taken -> 401
      [] taken /\ role \notin RolesAllowed[op] -> 403
      [] OTHER -> IF op \in DOMAIN ServiceTakes /\ role \notin ServiceTakes[op]
                  THEN 400 ELSE 200

\* The user does something the page shows.
Call(op) ==
    /\ AtRest /\ held # 0
    /\ \E offer \in Offers : offer[1] = path /\ offer[2] = op /\ Mine \in offer[3]
    /\ LET code == requireRole(token[held].taken, Mine, op) IN
       answer' = IF code = 200 THEN NoAnswer ELSE [call |-> op, role |-> Mine, code |-> code]
    /\ UNCHANGED <<token, saved, ready, held, path, next, moves>>

AccessNext ==
    \/ Restore \/ Redirect
    \/ \E p \in Paths : OpenPage(p) \/ Follow(p)
    \/ \E u \in Users : login(u)
    \/ logout
    \/ \E op \in DOMAIN RolesAllowed : Call(op)
    \/ (Elsewhere \/ \E n \in 1..MaxLogins : Lapse(n) /\ UNCHANGED saved)
         /\ UNCHANGED <<ready, held, path, next, answer, moves>>

-------------------------------------------------------------------------------
(* Properties. *)

\* No page offers its user a call the API refuses for the role: the tables of roles,
\* kept by hand in two programs, agree wherever a tab can come to rest.  One exception:
\* depot operators are offered the upload behind a cistern's QR ("podes ver/sincronizar",
\* c/[token]/page.tsx), which the guard lets them ask for and the service refuses.
OfferedIsAllowed ==
    answer.code \in {400, 403} => answer.call = "scan" /\ answer.role = "DEPOT_OPERATOR"
===============================================================================
