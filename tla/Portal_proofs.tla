----------------------------- MODULE Portal_proofs -----------------------------
(***************************************************************************)
(* A behaviour of everything around a trip is a behaviour of each part: so *)
(* what is proved of the parts' specifications holds of the whole one that *)
(* is model-checked.                                                       *)
(***************************************************************************)
EXTENDS Portal, Screens_proofs, SumTheorems, SequenceTheorems

\* The office in the whole does what the office does by itself, or nothing.
THEOREM PortalIsDesk == PortalSpec => DeskSpec
<1>1. PortalInit => DeskInit
  BY DEF PortalInit
<1>2. [PortalNext]_pvars => [DeskNext]_dvars
  BY DEF PortalNext, pvars
<1>3. QED BY <1>1, <1>2, PTL DEF PortalSpec, DeskSpec

\* So do the contracts.
THEOREM PortalIsContracts == PortalSpec => ContractsSpec
<1>1. PortalInit => ContractsInit
  BY DEF PortalInit
<1>2. [PortalNext]_pvars => [ContractsNext]_kvars
  BY DEF PortalNext, pvars
<1>3. QED BY <1>1, <1>2, PTL DEF PortalSpec, ContractsSpec

\* So does the membership page.
THEOREM PortalIsMembership == PortalSpec => MembershipSpec
<1>1. PortalInit => MembershipInit
  BY DEF PortalInit
<1>2. [PortalNext]_pvars => [MembershipNext]_mvars
  BY DEF PortalNext, pvars
<1>3. QED BY <1>1, <1>2, PTL DEF PortalSpec, MembershipSpec

-------------------------------------------------------------------------------
(* A session. *)

\* The guard's table admits a role to an operation where the page that offers it is
\* open to that role.
LEMMA GuardAgrees ==
    ASSUME NEW role \in AppRoles, NEW offer \in Offers,
           role \in offer[3], canAccessPath(role, offer[1])
    PROVE  offer[2] \in DOMAIN RolesAllowed /\ role \in RolesAllowed[offer[2]]
<1>1. CASE offer[1] \in {"verify", "simular", "tramos"}
  BY <1>1 DEF Offers, RolesAllowed, Carriers, AppRoles, canAcceptCustody
<1>2. CASE offer[1] \in {"q", "c", "escanear"}
  BY <1>2 DEF Offers, RolesAllowed, Carriers, AppRoles, canAcceptCustody, canAccessPath,
              ROUTES_BY_ROLE
<1>3. CASE offer[1] \in {"supervision", "estacion"}
  BY <1>3 DEF Offers, RolesAllowed, Carriers, AppRoles, canAcceptCustody, canAccessPath,
              ROUTES_BY_ROLE
<1>4. CASE offer[1] \in {"batches", "audits", "anomalies", "blockchain"}
  BY <1>4 DEF Offers, RolesAllowed, Carriers, AppRoles, canAcceptCustody, canAnchorEvidence
<1>5. offer[1] \in {"verify", "simular", "tramos", "q", "c", "escanear", "supervision", "estacion",
                    "batches", "audits", "anomalies", "blockchain"}
  BY DEF Offers
<1>6. QED BY <1>1, <1>2, <1>3, <1>4, <1>5

\* So do the services' own, but for one role and one operation.
LEMMA ServicesAgree ==
    ASSUME NEW role \in AppRoles, NEW offer \in Offers,
           role \in offer[3], canAccessPath(role, offer[1]),
           offer[2] \in DOMAIN ServiceTakes, role \notin ServiceTakes[offer[2]]
    PROVE  offer[2] = "scan" /\ role = "DEPOT_OPERATOR"
<1>1. offer[2] \in {"scan", "qrAccept", "inbound"}
  BY DEF ServiceTakes
<1>2. CASE offer[2] = "scan"
  <2>1. offer[1] = "c"
    BY <1>2 DEF Offers
  <2>2. role \in {"ADMIN", "STATION_STAFF", "TRANSPORTER", "DEPOT_OPERATOR"}
    BY <2>1 DEF canAccessPath, ROUTES_BY_ROLE, AppRoles
  <2>3. QED BY <1>2, <2>2 DEF ServiceTakes
<1>3. CASE offer[2] = "qrAccept"
  <2>1. role \in canAcceptCustody
    BY <1>3 DEF Offers
  <2>2. QED BY <1>3, <2>1 DEF ServiceTakes, canAcceptCustody
<1>4. CASE offer[2] = "inbound"
  <2>1. role = "STATION_STAFF"
    BY <1>4 DEF Offers
  <2>2. QED BY <1>4, <2>1 DEF ServiceTakes
<1>5. QED BY <1>1, <1>2, <1>3, <1>4

Tokens == [user : Users, taken : BOOLEAN]

\* The tab and the browser keep tokens that were signed.
SessionInv ==
    /\ token \in Seq(Tokens)
    /\ saved \in 0..Len(token) /\ held \in 0..Len(token)
    /\ OfferedIsAllowed

\* No click offers what the role may not have.
LEMMA SessionStep == SessionInv /\ [AccessNext]_avars => SessionInv'
<1> SUFFICES ASSUME SessionInv, [AccessNext]_avars PROVE SessionInv'
  OBVIOUS
<1>1. CASE UNCHANGED avars
  BY <1>1 DEF avars, SessionInv, OfferedIsAllowed
<1>2. CASE Restore \/ Redirect \/ logout \/ \E p \in Paths : OpenPage(p) \/ Follow(p)
  BY <1>2 DEF SessionInv, OfferedIsAllowed, NoAnswer, Restore, Redirect, logout, OpenPage,
             Follow
<1>3. ASSUME NEW u \in Users
      PROVE  LET more == Append(token, [user |-> u, taken |-> TRUE])
             IN more \in Seq(Tokens) /\ Len(more) = Len(token) + 1 /\ Len(more) \in Nat
  BY DEF SessionInv, Tokens
<1>4. CASE \E u \in Users : login(u)
  BY <1>3, <1>4 DEF SessionInv, OfferedIsAllowed, login
<1>5. CASE /\ Elsewhere \/ \E n \in 1..MaxLogins : Lapse(n) /\ UNCHANGED saved
           /\ UNCHANGED <<ready, held, path, next, answer, moves>>
  <2>1. CASE Elsewhere
    <3>1. CASE saved' = 0 /\ UNCHANGED token
      BY <1>5, <3>1 DEF SessionInv, OfferedIsAllowed
    <3>2. ASSUME NEW u \in Users, token' = Append(token, [user |-> u, taken |-> TRUE]),
                 saved' = Len(token')
          PROVE  SessionInv'
      BY <1>3, <1>5, <3>2 DEF SessionInv, OfferedIsAllowed
    <3>3. QED BY <2>1, <3>1, <3>2 DEF Elsewhere
  <2>2. ASSUME NEW n, Lapse(n), UNCHANGED saved PROVE SessionInv'
    <3>1. token' \in Seq(Tokens) /\ Len(token') = Len(token)
      <4>1. n \in DOMAIN token /\ token' = [token EXCEPT ![n].taken = FALSE]
        BY <2>2 DEF Lapse
      <4>2. token \in Seq(Tokens) /\ token[n] \in Tokens
        BY <4>1 DEF SessionInv
      <4> DEFINE x == [token[n] EXCEPT !.taken = FALSE]
      <4>3. x \in Tokens
        BY <4>2 DEF Tokens
      <4>4. token' = [token EXCEPT ![n] = x]
        BY <4>1, Zenon
      <4> HIDE DEF x
      <4>5. Len(token) \in Nat /\ DOMAIN token = 1..Len(token) /\ token \in [1..Len(token) -> Tokens]
        BY <4>2
      <4>6. token' \in [1..Len(token) -> Tokens]
        BY <4>3, <4>4, <4>5
      <4>7. QED BY <4>5, <4>6
    <3>2. QED BY <1>5, <2>2, <3>1 DEF SessionInv, OfferedIsAllowed
  <2>3. QED BY <1>5, <2>1, <2>2
<1>6. ASSUME NEW op \in DOMAIN RolesAllowed, Call(op) PROVE SessionInv'
  <2>1. PICK offer \in Offers : offer[1] = path /\ offer[2] = op /\ Mine \in offer[3]
    BY <1>6 DEF Call
  <2>2. Mine \in AppRoles /\ canAccessPath(Mine, path)
    <3>1. held # 0 /\ AtRest
      BY <1>6 DEF Call
    <3>2. held \in DOMAIN token
      BY <3>1 DEF SessionInv
    <3>3. token[held] \in Tokens
      BY <3>2 DEF SessionInv
    <3>4. Mine \in AppRoles
      BY <3>3, RolesAssumption DEF Mine, Tokens
    <3>5. canAccessPath(Mine, path)
      BY <3>1, Zenon DEF AtRest, roleBlocked
    <3>6. QED BY <3>4, <3>5
  <2>3. Mine \in RolesAllowed[op]
    BY <2>1, <2>2, GuardAgrees
  <2>4. op \in DOMAIN ServiceTakes /\ Mine \notin ServiceTakes[op]
          => op = "scan" /\ Mine = "DEPOT_OPERATOR"
    BY <2>1, <2>2, ServicesAgree
  <2> DEFINE code == requireRole(token[held].taken, Mine, op)
  <2>5. code \in {400, 403} => op = "scan" /\ Mine = "DEPOT_OPERATOR"
    BY <2>3, <2>4 DEF requireRole
  <2>6. \/ answer' = NoAnswer
        \/ answer' = [call |-> op, role |-> Mine, code |-> code]
    BY <1>6 DEF Call
  <2> HIDE DEF code
  <2>7. OfferedIsAllowed'
    BY <2>5, <2>6 DEF OfferedIsAllowed, NoAnswer
  <2>8. QED BY <1>6, <2>7 DEF Call, SessionInv
<1>7. QED BY <1>1, <1>2, <1>4, <1>5, <1>6 DEF AccessNext

\* Whoever logs in after whom, in whichever tab, and whatever page is asked for, no
\* page offers a call that the API, guard or service, refuses for the user's role,
\* but for the upload of a road by a depot operator.
THEOREM RefusedOnlyTheDepotsUpload == PortalSpec => []OfferedIsAllowed
<1>1. PortalInit => SessionInv
  BY DEF PortalInit, AccessInit, SessionInv, OfferedIsAllowed, NoAnswer
<1>2. [PortalNext]_pvars => [AccessNext]_avars
  BY DEF PortalNext, pvars
<1>3. SessionInv => OfferedIsAllowed
  BY DEF SessionInv
<1>4. QED BY <1>1, <1>2, <1>3, SessionStep, PTL DEF PortalSpec

-------------------------------------------------------------------------------
(* The membership page unlocks only for the wallet that is connected, as long *)
(* as no check is overtaken.                                                  *)

\* A wallet that is connected is the one the wallet program offers.
SameWallet == address # NoWallet => address = chosen

\* Nothing is out, and what is known of a key is about the connected wallet.
Quiet == flights = << >> /\ checking = FALSE /\ (hasKey => address \in Holders)

\* One check is out, and it is about the connected wallet.
Waiting == Len(flights) = 1 /\ flights[1] = address /\ address \in Wallets /\ checking = TRUE

MembershipInv ==
    /\ chosen \in Wallets \cup {NoWallet} /\ address \in Wallets \cup {NoWallet}
    /\ hasKey \in BOOLEAN /\ checking \in BOOLEAN /\ overtaken \in BOOLEAN
    /\ flights \in Seq(Wallets)
    /\ SameWallet
    /\ ~overtaken => Quiet \/ Waiting

\* A page that was just opened knows of no key.
LEMMA MembershipInitially == MembershipInit => MembershipInv
<1> SUFFICES ASSUME MembershipInit PROVE MembershipInv
  OBVIOUS
<1>1. flights \in Seq(Wallets)
  BY DEF MembershipInit
<1>2. QED BY <1>1 DEF MembershipInit, MembershipInv, SameWallet, Quiet

\* Whatever overtakes no check finds none under way; a new check then is the only one.
LEMMA NotOvertaken ==
  ASSUME MembershipInv, Overtakes, ~overtaken'
  PROVE  Quiet
BY DEF MembershipInv, Overtakes, Waiting

\* A check that begins is on its way for the wallet that is shown.
LEMMA CheckStarts ==
  ASSUME MembershipInv, Overtakes, NEW w \in Wallets, checkKey(w), address' = w, UNCHANGED hasKey,
         chosen' = w
  PROVE  MembershipInv'
<1>1. flights' = Append(flights, w) /\ flights' \in Seq(Wallets) /\ checking' = TRUE
  BY DEF MembershipInv, checkKey
<1>2. overtaken' \in BOOLEAN
  BY DEF MembershipInv, Overtakes
<1>3. ASSUME ~overtaken' PROVE Waiting'
  <2>1. flights = << >>
    BY <1>3, NotOvertaken DEF Quiet
  <2>2. flights' = <<w>>
    BY <1>1, <2>1
  <2>3. QED BY <1>1, <2>2 DEF Waiting
<1>4. QED BY <1>1, <1>2, <1>3 DEF MembershipInv, SameWallet

\* Removing the only element of a sequence leaves none.
LEMMA AnswerStep ==
  ASSUME MembershipInv, NEW i \in DOMAIN flights, Answer(i)
  PROVE  MembershipInv'
<1>1. flights' = Seqs!RemoveAt(flights, i)
  BY DEF Answer
<1>2. flights' \in Seq(Wallets) /\ (Len(flights) = 1 => flights' = << >>)
  BY <1>1 DEF Seqs!RemoveAt, MembershipInv
<1>3. ASSUME ~overtaken' PROVE Quiet'
  <2>1. Waiting
    BY <1>3 DEF Answer, MembershipInv, Quiet
  <2>2. i = 1
    BY <2>1 DEF Waiting, MembershipInv
  <2>3. QED BY <1>2, <2>1, <2>2 DEF Waiting, Quiet, Answer, Failed
<1>4. hasKey' \in BOOLEAN /\ checking' \in BOOLEAN
  <2>1. hasKey' = (flights[i] \in Holders) \/ hasKey' = FALSE
    BY Zenon DEF Answer, Failed
  <2>2. (flights[i] \in Holders) \in BOOLEAN
    OBVIOUS
  <2>3. hasKey' \in BOOLEAN
    BY <2>1, <2>2, Zenon
  <2>4. QED BY <2>3 DEF Answer
<1>5. QED BY <1>2, <1>3, <1>4 DEF MembershipInv, Answer, SameWallet

\* Whatever answer comes next, the page shows the membership of its own wallet.
LEMMA MembershipStep ==
  ASSUME MembershipInv, [MembershipNext]_mvars PROVE MembershipInv'
<1> USE MembershipAssumption
<1>1. CASE connect
  BY <1>1 DEF connect, MembershipInv, SameWallet, Quiet, Waiting
<1>2. CASE Accounts
  <2>1. CASE chosen # NoWallet /\ address' = chosen /\ checkKey(chosen) /\ Overtakes
    BY <1>2, <2>1, CheckStarts DEF Accounts, MembershipInv
  <2>2. CASE /\ chosen = NoWallet /\ address' \in {NoWallet, address}
             /\ Overtakes /\ UNCHANGED <<checking, flights, started>>
    <3>1. UNCHANGED <<chosen, hasKey, checking, flights>> /\ address = NoWallet
      BY <1>2, <2>2 DEF Accounts, MembershipInv, SameWallet
    <3>2. overtaken' \in BOOLEAN
      BY <2>2 DEF MembershipInv, Overtakes
    <3>3. ASSUME ~overtaken' PROVE Quiet'
      BY <2>2, <3>1, <3>3, NotOvertaken DEF Quiet
    <3>4. QED BY <2>2, <3>1, <3>2, <3>3 DEF MembershipInv, SameWallet
  <2>3. QED BY <1>2, <2>1, <2>2 DEF Accounts
<1>3. CASE disconnect
  <2>1. overtaken' \in BOOLEAN
    BY <1>3 DEF disconnect, MembershipInv, Overtakes
  <2>2. ASSUME ~overtaken' PROVE Quiet'
    BY <1>3, <2>2, NotOvertaken DEF disconnect, Quiet
  <2>3. QED BY <1>3, <2>1, <2>2 DEF disconnect, MembershipInv, SameWallet
<1>4. CASE refresh
  <2>1. address \in Wallets /\ chosen = address
    BY <1>4 DEF refresh, MembershipInv, SameWallet
  <2>2. QED BY <1>4, <2>1, CheckStarts DEF refresh
<1>5. ASSUME NEW w \in Wallets \cup {NoWallet}, accountsChanged(w) PROVE MembershipInv'
  <2>1. CASE w = NoWallet
    <3>1. /\ chosen' = NoWallet /\ address' = NoWallet /\ hasKey' = FALSE
          /\ Overtakes /\ UNCHANGED <<checking, flights>>
      BY <1>5, <2>1 DEF accountsChanged
    <3>2. overtaken' \in BOOLEAN
      BY <3>1 DEF MembershipInv, Overtakes
    <3>3. ASSUME ~overtaken' PROVE Quiet'
      BY <3>1, <3>3, NotOvertaken DEF Quiet
    <3>4. QED BY <3>1, <3>2, <3>3 DEF MembershipInv, SameWallet
  <2>2. CASE w # NoWallet
    BY <1>5, <2>2, CheckStarts DEF accountsChanged
  <2>3. QED BY <2>1, <2>2
<1>6. ASSUME NEW i \in 1..MaxChecks, Answer(i) PROVE MembershipInv'
  BY <1>6, AnswerStep DEF Answer
<1>7. CASE UNCHANGED mvars
  BY <1>7 DEF mvars, MembershipInv, SameWallet, Quiet, Waiting
<1>8. QED BY <1>1, <1>2, <1>3, <1>4, <1>5, <1>6, <1>7 DEF MembershipNext

\* Unless a check was overtaken, the page unlocks only for a connected wallet that
\* holds a key, and it shows that it is checking exactly while it is
\* (lib/use-unlock-membership.ts).
THEOREM MembershipAlwaysOwn == MembershipSpec => []MembershipIsOwn
<1>1. MembershipInv => MembershipIsOwn
  BY DEF MembershipInv, MembershipIsOwn, Quiet, Waiting
<1>2. QED BY <1>1, MembershipInitially, MembershipStep, PTL DEF MembershipSpec

-------------------------------------------------------------------------------
(* What a contract promises its parties, for any users, trips and stations. *)

\* u has a part in side s of the contract of trip d.
Party(u, d, s) ==
    \/ Role[u] = "ADMIN"
    \/ s = "station" /\ PostOf[u] = TripStation[d]
    \/ s = "driver" /\ TripCistern[d] \in DrivenBy[u]

\* The first conjunct of ContractsHold speaks of the constants only.
Shown ==
    \A u \in Users : \A c \in SessionCisterns(u) : \A d \in listContractsForActor(u, c) :
      Role[u] \in {"ADMIN", "STATION_STAFF", "TRANSPORTER", "DEPOT_OPERATOR"} => MayAck(u, d)

\* What a request has read of a trip was acknowledged by a party, and the user of a
\* request passed the check.
AskingOK(u) ==
    asking[u] # None =>
      /\ asking[u].trip \in Agreed /\ MayAck(u, asking[u].trip)
      /\ asking[u].seen \in [Sides -> Users \cup {None}]
      /\ \A s \in Sides : asking[u].seen[s] # None => Party(asking[u].seen[s], asking[u].trip, s)

ContractsInv ==
    /\ ack \in [Agreed -> [Sides -> Users \cup {None}]]
    /\ told \subseteq Agreed \X Sides
    /\ DOMAIN asking = Users /\ \A u \in Users : AskingOK(u)
    /\ \A given \in told : ack[given[1]][given[2]] # None
    /\ \A d \in Agreed, s \in Sides : ack[d][s] # None => Party(ack[d][s], d, s)

\* Whoever is shown a contract may acknowledge it.
LEMMA ShownHolds == Shown
<1> SUFFICES ASSUME NEW u \in Users, NEW c \in SessionCisterns(u),
                    NEW d \in listContractsForActor(u, c),
                    Role[u] \in {"ADMIN", "STATION_STAFF", "TRANSPORTER", "DEPOT_OPERATOR"}
             PROVE  MayAck(u, d)
  BY DEF Shown
<1>1. CASE Role[u] = "STATION_STAFF" /\ PostOf[u] # None
  BY <1>1 DEF listContractsForActor, MayAck
<1>2. CASE ~(Role[u] = "STATION_STAFF" /\ PostOf[u] # None) /\ c # None
  <2>1. TripCistern[d] = c /\ c \in DrivenBy[u]
    BY <1>2 DEF listContractsForActor, SessionCisterns
  <2>2. Role[u] # "STATION_STAFF"
    BY <2>1, ContractsAssumption
  <2>3. QED BY <2>1, <2>2 DEF MayAck
<1>3. CASE ~(Role[u] = "STATION_STAFF" /\ PostOf[u] # None) /\ c = None
  BY <1>3 DEF listContractsForActor, MayAck
<1>4. QED BY <1>1, <1>2, <1>3

\* Nothing is acknowledged at first.
LEMMA ContractsInitially == ContractsInit => ContractsInv
BY DEF ContractsInit, ContractsInv, AskingOK

\* Who may acknowledge a trip is a party on each side that is written for them.
LEMMA MayAckIsParty ==
  ASSUME NEW u \in Users, NEW d \in Agreed, MayAck(u, d), NEW s \in SidesOf(u)
  PROVE  Party(u, d, s)
<1>1. CASE Role[u] = "STATION_STAFF"
  BY <1>1 DEF MayAck, SidesOf, Party
<1>2. CASE Role[u] = "ADMIN"
  BY <1>2 DEF Party
<1>3. CASE Role[u] \in {"TRANSPORTER", "DEPOT_OPERATOR"}
  BY <1>3 DEF MayAck, SidesOf, Party
<1>4. QED BY <1>1, <1>2, <1>3 DEF MayAck

\* A step keeps the invariant: what is written over a side was a party's too.
LEMMA ContractsStep ==
  ASSUME ContractsInv, [ContractsNext]_kvars PROVE ContractsInv'
<1>1. ASSUME NEW u \in Users, NEW d \in Agreed, AckStart(u, d) PROVE ContractsInv'
  <2>1. \A q \in Users : asking'[q] = IF q = u THEN [trip |-> d, seen |-> ack[d]] ELSE asking[q]
    BY <1>1 DEF AckStart, ContractsInv
  <2>2. \A q \in Users : AskingOK(q)'
    BY <1>1, <2>1 DEF AckStart, ContractsInv, AskingOK, Party, MayAck
  <2>3. QED BY <1>1, <2>2 DEF AckStart, ContractsInv, Party
<1>2. ASSUME NEW u \in Users, ackContract(u) PROVE ContractsInv'
  <2> DEFINE d == asking[u].trip
             seen == asking[u].seen
             side(s) == CASE s \notin SidesOf(u) -> ack[d][s]
                          [] s \in SidesOf(u) /\ Role[u] = "ADMIN" /\ seen[s] # None -> seen[s]
                          [] OTHER -> u
  <2>1. /\ d \in Agreed /\ MayAck(u, d) /\ seen \in [Sides -> Users \cup {None}]
        /\ \A s \in Sides : seen[s] # None => Party(seen[s], d, s)
    BY <1>2 DEF ackContract, ContractsInv, AskingOK
  <2>2. SidesOf(u) \subseteq Sides
    BY DEF SidesOf, Sides
  <2>3. ack' = [ack EXCEPT ![d] = [s \in Sides |-> side(s)]]
    BY <1>2 DEF ackContract
  <2>4. /\ told' = told \cup {<<d, s>> : s \in SidesOf(u)}
        /\ asking' = [asking EXCEPT ![u] = None]
    BY <1>2 DEF ackContract
  <2>5. \A s \in Sides : /\ side(s) \in Users \cup {None}
                         /\ s \in SidesOf(u) \/ ack[d][s] # None => side(s) # None
                         /\ side(s) # None => Party(side(s), d, s)
    <3> SUFFICES ASSUME NEW s \in Sides
                 PROVE  /\ side(s) \in Users \cup {None}
                        /\ s \in SidesOf(u) \/ ack[d][s] # None => side(s) # None
                        /\ side(s) # None => Party(side(s), d, s)
      OBVIOUS
    <3>1. CASE s \notin SidesOf(u)
      BY <2>1, <3>1 DEF ContractsInv
    <3>2. CASE s \in SidesOf(u) /\ Role[u] = "ADMIN" /\ seen[s] # None
      BY <2>1, <3>2
    <3>3. CASE s \in SidesOf(u) /\ ~(Role[u] = "ADMIN" /\ seen[s] # None)
      BY <2>1, <3>3, MayAckIsParty, RolesAssumption
    <3>4. QED BY <3>1, <3>2, <3>3
  <2> HIDE DEF side
  <2>6. \A e \in Agreed, s \in Sides : ack'[e][s] = IF e = d THEN side(s) ELSE ack[e][s]
    BY <2>1, <2>3 DEF ContractsInv
  <2>7. ack' \in [Agreed -> [Sides -> Users \cup {None}]]
    <3>1. [s \in Sides |-> side(s)] \in [Sides -> Users \cup {None}]
      BY <2>5
    <3>2. QED BY <2>3, <3>1 DEF ContractsInv
  <2>8. \A given \in told' : given \in Agreed \X Sides /\ ack'[given[1]][given[2]] # None
    <3> SUFFICES ASSUME NEW given \in told'
                 PROVE  given \in Agreed \X Sides /\ ack'[given[1]][given[2]] # None
      OBVIOUS
    <3>1. CASE given \in told
      <4>1. given \in Agreed \X Sides /\ ack[given[1]][given[2]] # None
        BY <3>1 DEF ContractsInv
      <4>2. QED BY <2>5, <2>6, <4>1
    <3>2. ASSUME NEW s \in SidesOf(u), given = <<d, s>>
          PROVE  given \in Agreed \X Sides /\ ack'[given[1]][given[2]] # None
      BY <2>1, <2>2, <2>5, <2>6, <3>2
    <3>3. QED BY <2>4, <3>1, <3>2
  <2>9. \A e \in Agreed, s \in Sides : ack'[e][s] # None => Party(ack'[e][s], e, s)
    BY <2>5, <2>6 DEF ContractsInv
  <2>10. DOMAIN asking' = Users /\ \A q \in Users : AskingOK(q)'
    BY <2>4 DEF ContractsInv, AskingOK, Party, MayAck
  <2>11. QED BY <2>7, <2>8, <2>9, <2>10 DEF ContractsInv, Party
<1>3. ASSUME NEW u \in Users, AckDies(u) PROVE ContractsInv'
  <2>1. /\ asking' = [asking EXCEPT ![u] = None] /\ UNCHANGED <<ack, told>>
    BY <1>3 DEF AckDies
  <2>2. DOMAIN asking' = Users /\ \A q \in Users : AskingOK(q)'
    BY <2>1 DEF ContractsInv, AskingOK, Party, MayAck
  <2>3. QED BY <2>1, <2>2 DEF ContractsInv, Party
<1>4. CASE UNCHANGED kvars
  BY <1>4 DEF kvars, ContractsInv, AskingOK, Party, MayAck
<1>5. QED BY <1>1, <1>2, <1>3, <1>4 DEF ContractsNext

\* The contracts hold: whoever is shown one may acknowledge it, and an answered
\* acknowledgement is never lost to another request, not to one of an administrator
\* that read the contract before (stations.service.ts, ackContract).
THEOREM ContractsAlwaysHold == ContractsSpec => []ContractsHold
<1>1. ContractsInv => ContractsHold
  BY ShownHolds DEF ContractsInv, ContractsHold, Shown, Party
<1>2. QED BY <1>1, ContractsInitially, ContractsStep, PTL DEF ContractsSpec

-------------------------------------------------------------------------------
(* What the screens show. *)

\* Citizens and supervisors see the same quality of a station that has received a trip,
\* in whatever order trips are sent, received and graded, as long as the panel looks at
\* more trips than are on their way; and the same level, if the station has a tank.
THEOREM ViewsAgree == PortalSpec => []MapAndPanelAgree
<1>1. PortalInit => StationsInv
  <2>1. PortalInit => trip = << >> /\ Delivered = {}
    BY DEF PortalInit, StationsInit, Delivered
  <2>2. QED BY <2>1 DEF StationsInv
<1>2. [PortalNext]_pvars => [StationsNext]_svars
  BY DEF PortalNext, pvars
<1>3. QED BY <1>1, <1>2, ViewsMeet, StationsStep, PTL DEF PortalSpec

\* However late answers, cameras and detectors are, for any departments and codes and
\* whatever the history may hold: the panel comes to show what was chosen, a camera is
\* on only for the page that shows it, a scanner takes one code, and the history has the
\* codes told last, each once, the newest first.
THEOREM ScreensKeepUpHolds == PortalSpec => []ScreensKeepUp
<1>1. PortalInit => PanelInv /\ CameraInv /\ HistInv
  BY ScreensInitially DEF PortalInit
<1>2. [PortalNext]_pvars => [PanelNext]_panelVars /\ [ScannerNext]_scanVars
  <2>1. PanelNext => UNCHANGED scanVars
    BY DEF PanelNext
  <2>2. ScannerNext => UNCHANGED panelVars
    BY DEF ScannerNext
  <2>3. UNCHANGED nvars <=> UNCHANGED panelVars /\ UNCHANGED scanVars
    BY DEF nvars
  <2>4. QED BY <2>1, <2>2, <2>3 DEF PortalNext, pvars
<1>3. QED BY <1>1, <1>2, PanelStep, CameraStep, HistStep, ScreensKeep, PTL DEF PortalSpec

-------------------------------------------------------------------------------
(* The road that is told. *)

\* Points that have a time.
Timed(p) == \A i \in DOMAIN p : p[i].at \in Int
InTime(p) == \A i, j \in DOMAIN p : i < j => p[i].at <= p[j].at

\* By time, and by place where times are equal, is an order.
LEMMA CapturedOrders ==
    ASSUME NEW C, NEW p \in Seq(C), Timed(p)
    PROVE  Orders(Captured(p), DOMAIN p)
<1> DEFINE S == DOMAIN p
<1>1. \A i \in S : i \in Int /\ p[i].at \in Int
  BY DEF Timed
<1>2. \A i, j \in S : <<i, j>> \in Captured(p) <=> p[i].at < p[j].at \/ (p[i].at = p[j].at /\ i < j)
  BY DEF Captured
<1> HIDE DEF S
<1>3. \A x \in S : <<x, x>> \notin Captured(p)
  BY <1>1, <1>2
<1>4. ASSUME NEW x \in S, NEW y \in S, NEW z \in S,
             <<x, y>> \in Captured(p), <<y, z>> \in Captured(p)
      PROVE  <<x, z>> \in Captured(p)
  <2>1. /\ x \in Int /\ y \in Int /\ z \in Int
        /\ p[x].at \in Int /\ p[y].at \in Int /\ p[z].at \in Int
    BY <1>1
  <2>2. /\ p[x].at < p[y].at \/ (p[x].at = p[y].at /\ x < y)
        /\ p[y].at < p[z].at \/ (p[y].at = p[z].at /\ y < z)
    BY <1>2, <1>4
  <2>3. p[x].at < p[z].at \/ (p[x].at = p[z].at /\ x < z)
    BY <2>1, <2>2
  <2>4. QED BY <1>2, <2>3
<1>5. \A x, y \in S : x # y => <<x, y>> \in Captured(p) \/ <<y, x>> \in Captured(p)
  BY <1>1, <1>2
<1>6. QED BY <1>3, <1>4, <1>5 DEF Orders, S

\* The points in order are the same points, one after another in time.
LEMMA OrderedIs ==
    ASSUME NEW C, NEW p \in Seq(C), Timed(p)
    PROVE  LET q == orderedPoints(p)
               o == Sorted(DOMAIN p, Captured(p))
           IN /\ q \in Seq(C) /\ Len(q) = Len(p) /\ DOMAIN q = DOMAIN p
              /\ \A n \in DOMAIN p : o[n] \in DOMAIN p /\ q[n] = p[o[n]]
              /\ \A i \in DOMAIN p : \E n \in DOMAIN p : o[n] = i
              /\ \A m, n \in DOMAIN p : m < n => <<o[m], o[n]>> \in Captured(p)
              /\ \A m, n \in DOMAIN p : o[m] = o[n] => m = n
              /\ Timed(q) /\ InTime(q)
<1> DEFINE q == orderedPoints(p)
           o == Sorted(DOMAIN p, Captured(p))
           N == Len(p)
<1>1. N \in Nat /\ DOMAIN p = 1..N /\ Cardinality(DOMAIN p) = N
  <2>1. N \in Nat /\ DOMAIN p = 1..N
    OBVIOUS
  <2>2. QED BY <2>1, FS_Interval
<1>2. q = Taken(p, o)
  BY DEF orderedPoints
<1>3. Orders(Captured(p), DOMAIN p) /\ DOMAIN p \in SUBSET DOMAIN p
  BY CapturedOrders
<1>4. /\ q \in Seq(C) /\ Len(q) = N
      /\ \A n \in 1..N : o[n] \in DOMAIN p /\ q[n] = p[o[n]]
      /\ \A i \in DOMAIN p : \E n \in 1..N : o[n] = i
      /\ \A m, n \in 1..N : m < n => <<o[m], o[n]>> \in Captured(p)
      /\ \A m, n \in 1..N : o[m] = o[n] => m = n
  <2> DEFINE K == DOMAIN p
             c == Cardinality(K)
  <2>1. K \in SUBSET DOMAIN p /\ Orders(Captured(p), K)
    BY <1>3
  <2>2. c = N /\ o = Sorted(K, Captured(p)) /\ K = DOMAIN p
    BY <1>1
  <2> HIDE DEF K, o, q
  <2>3. q \in Seq(C) /\ Takes(q, o, p, K, Captured(p))
    BY <1>2, <2>1, <2>2, TakenIs
  <2>4. QED BY <2>2, <2>3 DEF Takes
<1> HIDE DEF q, o, N
<1>5. DOMAIN q = DOMAIN p
  BY <1>1, <1>4
<1>6. Timed(q)
  BY <1>1, <1>4, <1>5 DEF Timed
<1>7. InTime(q)
  <2>1. ASSUME NEW i \in DOMAIN q, NEW j \in DOMAIN q, i < j PROVE q[i].at <= q[j].at
    <3>1. <<o[i], o[j]>> \in Captured(p) /\ q[i] = p[o[i]] /\ q[j] = p[o[j]]
      BY <1>1, <1>4, <1>5, <2>1
    <3>2. q[i].at < q[j].at \/ q[i].at = q[j].at
      BY <3>1 DEF Captured
    <3>3. q[i].at \in Int /\ q[j].at \in Int
      BY <1>6 DEF Timed
    <3>4. QED BY <3>2, <3>3
  <2>2. QED BY <2>1 DEF InTime
<1>8. QED BY <1>1, <1>4, <1>5, <1>6, <1>7 DEF q, o, N

\* Points already in order stay as they are.
LEMMA OrderedStays ==
    ASSUME NEW C, NEW p \in Seq(C), Timed(p), InTime(p)
    PROVE  orderedPoints(p) = p
<1> DEFINE q == orderedPoints(p)
           o == Sorted(DOMAIN p, Captured(p))
           N == Len(p)
<1>1. N \in Nat /\ DOMAIN p = 1..N
  OBVIOUS
<1>2. Orders(Captured(p), DOMAIN p) /\ IsFiniteSet(DOMAIN p)
  BY <1>1, CapturedOrders, FS_Interval
<1>3. \A i, j \in 1..N : <<j, i>> \in Captured(p) <=> j < i
  <2>1. ASSUME NEW i \in 1..N, NEW j \in 1..N PROVE <<j, i>> \in Captured(p) <=> j < i
    <3>1. p[i].at \in Int /\ p[j].at \in Int
      BY <1>1 DEF Timed
    <3>2. <<j, i>> \in Captured(p) <=> p[j].at < p[i].at \/ (p[j].at = p[i].at /\ j < i)
      BY <1>1 DEF Captured
    <3>3. (j < i => p[j].at <= p[i].at) /\ (i < j => p[i].at <= p[j].at)
      BY <1>1 DEF InTime
    <3>4. QED BY <1>1, <3>1, <3>2, <3>3
  <2>2. QED BY <2>1
<1>4. \A i \in 1..N : Below(DOMAIN p, Captured(p), i) = i - 1
  <2>1. ASSUME NEW i \in 1..N PROVE Below(DOMAIN p, Captured(p), i) = i - 1
    <3>1. {j \in DOMAIN p : <<j, i>> \in Captured(p)} = 1..(i - 1)
      BY <1>1, <1>3
    <3>2. Cardinality(1..(i - 1)) = i - 1
      BY <1>1, FS_Interval
    <3>3. Below(DOMAIN p, Captured(p), i) = Cardinality({j \in DOMAIN p : <<j, i>> \in Captured(p)})
      BY DEF Below
    <3>4. QED BY <3>1, <3>2, <3>3, Zenon
  <2>2. QED BY <2>1
<1>5. \A i \in 1..N : o[Below(DOMAIN p, Captured(p), i) + 1] = i
  BY <1>1, <1>2, SortedIs
<1>6. /\ q \in Seq(C) /\ DOMAIN q = DOMAIN p /\ Len(q) = N
      /\ \A n \in DOMAIN p : q[n] = p[o[n]]
  BY OrderedIs
<1> HIDE DEF q, o, N
<1>7. \A i \in 1..N : o[i] = i
  <2>1. ASSUME NEW i \in 1..N PROVE o[i] = i
    <3>1. (i - 1) + 1 = i
      BY <1>1
    <3>2. QED BY <1>4, <1>5, <3>1
  <2>2. QED BY <2>1
<1>8. q = p
  BY <1>1, <1>6, <1>7
<1>9. QED BY <1>8 DEF q

\* The positions in ascending order.
LEMMA AscendingIs ==
    ASSUME NEW n \in Nat, NEW K \in SUBSET (1..n)
    PROVE  LET k == Sorted(K, Ascending(K))
               N == Cardinality(K)
           IN /\ IsFiniteSet(K) /\ N \in Nat /\ DOMAIN k = 1..N
              /\ \A j \in 1..N : k[j] \in K
              /\ \A i, j \in 1..N : i < j => k[i] < k[j]
              /\ \A i \in K : \E j \in 1..N : k[j] = i
<1> DEFINE k == Sorted(K, Ascending(K))
           N == Cardinality(K)
<1>1. IsFiniteSet(1..n)
  BY FS_Interval
<1>2. IsFiniteSet(K)
  BY <1>1, FS_Subset
<1>3. Orders(Ascending(K), K)
  BY AscendingOrders
<1>4. /\ N \in Nat /\ DOMAIN k = 1..N /\ \A j \in 1..N : k[j] \in K
      /\ \A i \in K : k[Below(K, Ascending(K), i) + 1] = i
  BY <1>2, <1>3, SortedIs
<1>5. \A i \in K : Below(K, Ascending(K), i) + 1 \in 1..N
  BY <1>2, <1>3, BelowIsPlace
<1>6. \A i, j \in 1..N : i < j => <<k[i], k[j]>> \in Ascending(K)
  BY <1>2, <1>3, SortedFollows
<1> HIDE DEF k, N
<1>7. \A i, j \in 1..N : i < j => k[i] < k[j]
  BY <1>6 DEF Ascending
<1>8. QED BY <1>2, <1>4, <1>5, <1>7 DEF k, N

\* What does not change from one place to the next is the same at both ends.
LEMMA Steady ==
    ASSUME NEW v, NEW a \in Nat, NEW b \in Nat, a <= b, \A i \in a..(b - 1) : v[i + 1] = v[i]
    PROVE  v[b] = v[a]
<1> DEFINE B == {i \in a..b : v[i] # v[a]}
<1> SUFFICES ASSUME B # {} PROVE FALSE
  OBVIOUS
<1>1. B \in SUBSET Nat
  OBVIOUS
<1> HIDE DEF B
<1>2. PICK m \in B : \A i \in B : m <= i
  BY <1>1, LeastNumber
<1>3. m \in a..b /\ v[m] # v[a]
  BY <1>2 DEF B
<1>4. m - 1 \in a..(b - 1) /\ m - 1 \in a..b
  BY <1>3
<1>5. v[m - 1] = v[a]
  BY <1>2, <1>3, <1>4 DEF B
<1>6. (m - 1) + 1 = m
  BY <1>3
<1>7. QED BY <1>3, <1>4, <1>5, <1>6

\* The places where a value changes before the next.
ChangesAt(v, n, K) ==
    K \in SUBSET (1..(n - 1)) /\ \A i \in 1..(n - 1) : i \in K <=> v[i + 1] # v[i]

\* A value along the road, and where it changes: between one change and the next it
\* stays as the first left it.
LEMMA BetweenChanges ==
    ASSUME NEW n \in Nat \ {0}, NEW v, NEW K, ChangesAt(v, n, K),
           NEW N, N = Cardinality(K), NEW k, k = Sorted(K, Ascending(K))
    PROVE  /\ N = 0 => v[n] = v[1]
           /\ N # 0 => v[k[1]] = v[1] /\ v[n] = v[k[N] + 1]
           /\ \A j \in 1..(N - 1) : v[k[j + 1]] = v[k[j] + 1]
<1>1. /\ K \in SUBSET (1..n) /\ \A i \in K : i \in 1..(n - 1)
      /\ \A i \in 1..(n - 1) : i \in K <=> v[i + 1] # v[i]
  BY DEF ChangesAt
<1>2. /\ N \in Nat /\ \A j \in 1..N : k[j] \in K
      /\ \A i, j \in 1..N : i < j => k[i] < k[j]
      /\ \A i \in K : \E j \in 1..N : k[j] = i
  BY <1>1, AscendingIs
<1>3. ASSUME NEW a \in 1..n, NEW b \in 1..n, a <= b, \A i \in a..(b - 1) : i \notin K
      PROVE  v[b] = v[a]
  <2>1. \A i \in a..(b - 1) : v[i + 1] = v[i]
    BY <1>1, <1>3
  <2>2. a \in Nat /\ b \in Nat
    OBVIOUS
  <2>3. QED BY <1>3, <2>1, <2>2, Steady
<1>4. \A j \in 1..N : k[j] \in 1..(n - 1) /\ k[j] \in 1..n /\ k[j] + 1 \in 1..n
  <2>1. \A i \in K : i \in 1..(n - 1) /\ i \in 1..n /\ i + 1 \in 1..n
    BY <1>1
  <2>2. QED BY <1>2, <2>1
<1>5. ASSUME N = 0 PROVE v[n] = v[1]
  <2>1. \A i \in 1..(n - 1) : i \notin K
    BY <1>2, <1>5
  <2>2. QED BY <1>3, <2>1
<1>6. ASSUME N # 0 PROVE v[k[1]] = v[1] /\ v[n] = v[k[N] + 1]
  <2>1. 1 \in 1..N /\ N \in 1..N
    BY <1>2, <1>6
  <2>2. \A i \in K : k[1] <= i /\ i <= k[N]
    <3>1. ASSUME NEW i \in K PROVE k[1] <= i /\ i <= k[N]
      <4>1. PICK j \in 1..N : k[j] = i
        BY <1>2
      <4>2. (1 < j => k[1] < k[j]) /\ (j < N => k[j] < k[N])
        BY <1>2, <2>1
      <4>3. QED BY <1>2, <1>4, <2>1, <4>1, <4>2
    <3>2. QED BY <3>1
  <2>3. \A i \in 1..(k[1] - 1) : i \notin K
    BY <1>4, <2>1, <2>2
  <2>4. \A i \in (k[N] + 1)..(n - 1) : i \notin K
    BY <1>4, <2>1, <2>2
  <2>5. v[k[1]] = v[1]
    BY <1>3, <1>4, <2>1, <2>3
  <2>6. v[n] = v[k[N] + 1]
    BY <1>3, <1>4, <2>1, <2>4
  <2>7. QED BY <2>5, <2>6
<1>7. ASSUME NEW j \in 1..(N - 1) PROVE v[k[j + 1]] = v[k[j] + 1]
  <2>1. j \in 1..N /\ j + 1 \in 1..N /\ j < j + 1
    BY <1>2
  <2>2. k[j] + 1 <= k[j + 1]
    BY <1>2, <1>4, <2>1
  <2>3. ASSUME NEW i \in (k[j] + 1)..(k[j + 1] - 1), i \in K PROVE FALSE
    <3>1. PICK m \in 1..N : k[m] = i
      BY <1>2, <2>3
    <3>2. (m < j => k[m] < k[j]) /\ (j + 1 < m => k[j + 1] < k[m])
      BY <1>2, <2>1
    <3>3. m = j \/ m = j + 1 \/ m < j \/ j + 1 < m
      BY <1>2
    <3>4. QED BY <1>4, <2>1, <3>1, <3>2, <3>3
  <2>4. QED BY <1>3, <1>4, <2>1, <2>2, <2>3
<1>8. QED BY <1>5, <1>6, <1>7

\* What changes at every step is another after an odd number of them.
LEMMA OddChanges ==
    ASSUME NEW N \in Nat, NEW F, \A j \in 0..N : F[j] \in BOOLEAN,
           \A j \in 1..N : F[j] # F[j - 1]
    PROVE  N % 2 = 1 <=> F[N] # F[0]
<1> DEFINE Right(j) == j % 2 = 1 <=> F[j] # F[0]
           B == {j \in 0..N : ~Right(j)}
<1> SUFFICES ASSUME B # {} PROVE FALSE
  OBVIOUS
<1>1. B \in SUBSET Nat
  OBVIOUS
<1> HIDE DEF B
<1>2. PICK m \in B : \A i \in B : m <= i
  BY <1>1, LeastNumber
<1>3. m \in 0..N /\ ~Right(m)
  BY <1>2 DEF B
<1>4. m # 0
  <2>1. Right(0)
    OBVIOUS
  <2>2. QED BY <1>3, <2>1
<1>5. m - 1 \in 0..N /\ m \in 1..N /\ m - 1 < m
  BY <1>3, <1>4
<1>6. Right(m - 1)
  BY <1>2, <1>5 DEF B
<1>7. (m - 1) % 2 = 1 <=> ~(m % 2 = 1)
  BY <1>5
<1>8. /\ F[m] # F[m - 1] /\ F[m] \in BOOLEAN /\ F[m - 1] \in BOOLEAN /\ F[0] \in BOOLEAN
  BY <1>5
<1>9. F[m] # F[0] <=> ~(F[m - 1] # F[0])
  BY <1>8, Zenon
<1>10. QED BY <1>3, <1>6, <1>7, <1>9

\* The changes of water, as they are told of points in order.
LEMMA WetIs ==
    ASSUME NEW C, NEW p \in Seq(C), Timed(p), InTime(p)
    PROVE  computeQualityChanges(p).water =
             LET all == [i \in 1..(Len(p) - 1) |->
                           [metric |-> "water", to |-> p[i + 1].at,
                            changed |-> p[i].water # p[i + 1].water]]
             IN KeptAt(all, {i \in DOMAIN all : all[i].changed})
<1>1. orderedPoints(p) = p
  BY OrderedStays
<1>2. QED BY <1>1 DEF computeQualityChanges

\* Between points in a row there is one gap less, and none where there is no point.
LEMMA GapsAre ==
    ASSUME NEW n \in Nat
    PROVE  \E m \in Nat : 1..(n - 1) = 1..m
<1>1. CASE n = 0
  <2>1. 1..(n - 1) = 1..0
    BY <1>1
  <2>2. QED BY <2>1
<1>2. CASE n # 0
  <2>1. n - 1 \in Nat
    BY <1>2
  <2>2. QED BY <2>1
<1>3. QED BY <1>1, <1>2

\* Places of a road where its litres change, and where it becomes wet or dry.
Changing(p) == {i \in 1..(Len(p) - 1) : p[i + 1].vol # p[i].vol}
Wetting(p) == {i \in 1..(Len(p) - 1) : p[i + 1].water # p[i].water}
Place(K, j) == Sorted(K, Ascending(K))[j]

\* The drops told of points in order are one for each change of litres.
LEMMA DropsAre ==
    ASSUME NEW C, NEW p \in Seq(C), Timed(p), InTime(p), \A i \in DOMAIN p : p[i].vol \in Int
    PROVE  LET drops == computeVolumeDrops(p)
               K == Changing(p)
           IN /\ Cardinality(K) \in Nat
              /\ Len(drops) = Cardinality(K) /\ DOMAIN drops = 1..Cardinality(K)
              /\ \A j \in 1..Cardinality(K) :
                   drops[j] = [from |-> p[Place(K, j)].at, to |-> p[Place(K, j) + 1].at,
                               previous |-> p[Place(K, j)].vol, next |-> p[Place(K, j) + 1].vol,
                               delta |-> p[Place(K, j) + 1].vol - p[Place(K, j)].vol]
<1> DEFINE all == [i \in 1..(Len(p) - 1) |->
                     [from |-> p[i].at, to |-> p[i + 1].at, previous |-> p[i].vol,
                      next |-> p[i + 1].vol, delta |-> p[i + 1].vol - p[i].vol]]
           K == Changing(p)
           drops == computeVolumeDrops(p)
           X == {all[i] : i \in 1..(Len(p) - 1)}
<1>1. Len(p) \in Nat /\ DOMAIN p = 1..Len(p)
  OBVIOUS
<1>2. orderedPoints(p) = p
  BY OrderedStays
<1>3. drops = KeptAt(all, {i \in DOMAIN all : all[i].delta # 0})
  BY <1>2 DEF computeVolumeDrops
<1>4. {i \in DOMAIN all : all[i].delta # 0} = K
  <2>1. \A i \in 1..(Len(p) - 1) : p[i].vol \in Int /\ p[i + 1].vol \in Int
    BY <1>1
  <2>2. \A i \in 1..(Len(p) - 1) : all[i].delta # 0 <=> p[i + 1].vol # p[i].vol
    BY <2>1
  <2>3. DOMAIN all = 1..(Len(p) - 1)
    OBVIOUS
  <2> HIDE DEF all
  <2>4. QED BY <2>2, <2>3 DEF Changing
<1>5. /\ all \in Seq(X) /\ DOMAIN all = 1..(Len(p) - 1)
      /\ \A i \in 1..(Len(p) - 1) : all[i] = [from |-> p[i].at, to |-> p[i + 1].at,
           previous |-> p[i].vol, next |-> p[i + 1].vol, delta |-> p[i + 1].vol - p[i].vol]
  <2>1. /\ DOMAIN all = 1..(Len(p) - 1) /\ \A i \in 1..(Len(p) - 1) : all[i] \in X
        /\ all = [i \in 1..(Len(p) - 1) |-> all[i]]
    OBVIOUS
  <2>2. \A i \in 1..(Len(p) - 1) : all[i] = [from |-> p[i].at, to |-> p[i + 1].at,
           previous |-> p[i].vol, next |-> p[i + 1].vol, delta |-> p[i + 1].vol - p[i].vol]
    OBVIOUS
  <2> HIDE DEF all, X
  <2>3. all \in [1..(Len(p) - 1) -> X]
    BY <2>1
  <2>4. \E n \in Nat : 1..(Len(p) - 1) = 1..n
    BY <1>1, GapsAre
  <2>5. all \in Seq(X)
    BY <2>3, <2>4
  <2>6. QED BY <2>1, <2>2, <2>5
<1>6. K \in SUBSET (1..Len(p)) /\ K \in SUBSET DOMAIN all /\ \A i \in K : i \in 1..(Len(p) - 1)
  BY <1>1, <1>5 DEF Changing
<1>7. Orders(Ascending(K), K)
  BY <1>1, <1>6, AscendingOrders
<1>8. drops = Taken(all, Sorted(K, Ascending(K)))
  BY <1>3, <1>4 DEF KeptAt
<1> HIDE DEF K, all, X, drops
<1>9. drops \in Seq(X) /\ Takes(drops, Sorted(K, Ascending(K)), all, K, Ascending(K))
  BY <1>5, <1>6, <1>7, <1>8, TakenIs
<1>10. /\ Cardinality(K) \in Nat /\ drops \in Seq(X) /\ Len(drops) = Cardinality(K)
       /\ \A j \in 1..Cardinality(K) : Place(K, j) \in K /\ drops[j] = all[Place(K, j)]
  BY <1>9 DEF Takes, Place
<1>11. DOMAIN drops = 1..Cardinality(K)
  BY <1>10
<1>12. \A j \in 1..Cardinality(K) : drops[j] =
         [from |-> p[Place(K, j)].at, to |-> p[Place(K, j) + 1].at,
          previous |-> p[Place(K, j)].vol, next |-> p[Place(K, j) + 1].vol,
          delta |-> p[Place(K, j) + 1].vol - p[Place(K, j)].vol]
  BY <1>5, <1>6, <1>10
<1>13. QED BY <1>10, <1>11, <1>12 DEF K, drops

\* There are as many changes of water.
LEMMA WetAre ==
    ASSUME NEW C, NEW p \in Seq(C), Timed(p), InTime(p)
    PROVE  Len(computeQualityChanges(p).water) = Cardinality(Wetting(p))
<1> DEFINE all == [i \in 1..(Len(p) - 1) |-> [metric |-> "water", to |-> p[i + 1].at,
                                              changed |-> p[i].water # p[i + 1].water]]
           K == Wetting(p)
           X == {all[i] : i \in 1..(Len(p) - 1)}
<1>1. Len(p) \in Nat /\ DOMAIN p = 1..Len(p)
  OBVIOUS
<1>2. computeQualityChanges(p).water = KeptAt(all, {i \in DOMAIN all : all[i].changed})
  BY WetIs
<1>3. {i \in DOMAIN all : all[i].changed} = K
  BY DEF Wetting
<1>4. all \in Seq(X) /\ DOMAIN all = 1..(Len(p) - 1)
  <2>1. /\ DOMAIN all = 1..(Len(p) - 1) /\ \A i \in 1..(Len(p) - 1) : all[i] \in X
        /\ all = [i \in 1..(Len(p) - 1) |-> all[i]]
    OBVIOUS
  <2> HIDE DEF all, X
  <2>2. all \in [1..(Len(p) - 1) -> X]
    BY <2>1
  <2>3. \E n \in Nat : 1..(Len(p) - 1) = 1..n
    BY <1>1, GapsAre
  <2>4. QED BY <2>1, <2>2, <2>3
<1>5. K \in SUBSET (1..Len(p)) /\ K \in SUBSET DOMAIN all
  BY <1>1, <1>4 DEF Wetting
<1>6. Orders(Ascending(K), K)
  BY <1>1, <1>5, AscendingOrders
<1>7. computeQualityChanges(p).water = Taken(all, Sorted(K, Ascending(K)))
  BY <1>2, <1>3 DEF KeptAt
<1> HIDE DEF K, all, X
<1>8. Len(Taken(all, Sorted(K, Ascending(K)))) = Cardinality(K)
  BY <1>4, <1>5, <1>6, TakenIs DEF Takes
<1>9. QED BY <1>7, <1>8 DEF K

\* What points in order tell adds up: the drops to what was lost between the first and
\* the last, one starting where the one before ended, and the changes of water, if
\* they are odd, to another answer.
LEMMA ToldAddsUp ==
    ASSUME NEW C, NEW p \in Seq(C), p # << >>, Timed(p), InTime(p),
           \A i \in DOMAIN p : p[i].vol \in Int
    PROVE  LET drops == computeVolumeDrops(p) IN
           /\ Total(drops) = p[Len(p)].vol - p[1].vol
           /\ \A i \in 1..(Len(drops) - 1) : /\ drops[i].to <= drops[i + 1].from
                                             /\ drops[i].next = drops[i + 1].previous
<1> DEFINE n == Len(p)
           K == Changing(p)
           N == Cardinality(K)
           k == Sorted(K, Ascending(K))
           v == [i \in 1..n |-> p[i].vol]
           drops == computeVolumeDrops(p)
<1>1. n \in Nat \ {0} /\ DOMAIN p = 1..n
  OBVIOUS
<1>2. ChangesAt(v, n, K)
  <2>1. \A i \in 1..(n - 1) : v[i + 1] = p[i + 1].vol /\ v[i] = p[i].vol
    BY <1>1
  <2> HIDE DEF v
  <2>2. QED BY <2>1 DEF Changing, ChangesAt
<1>3. /\ N \in Nat /\ Len(drops) = N /\ DOMAIN drops = 1..N
      /\ \A j \in 1..N : drops[j] = [from |-> p[k[j]].at, to |-> p[k[j] + 1].at,
           previous |-> p[k[j]].vol, next |-> p[k[j] + 1].vol,
           delta |-> p[k[j] + 1].vol - p[k[j]].vol]
  BY DropsAre DEF Place
<1>4. K \in SUBSET (1..n) /\ \A i \in K : i \in 1..(n - 1)
  BY <1>1, <1>2 DEF ChangesAt
<1>5. /\ \A j \in 1..N : k[j] \in K
      /\ \A i, j \in 1..N : i < j => k[i] < k[j]
  <2> HIDE DEF K, n
  <2>1. QED BY <1>1, <1>4, AscendingIs
<1>6. /\ N = 0 => v[n] = v[1]
      /\ N # 0 => v[k[1]] = v[1] /\ v[n] = v[k[N] + 1]
      /\ \A j \in 1..(N - 1) : v[k[j + 1]] = v[k[j] + 1]
  <2>1. N = Cardinality(K) /\ k = Sorted(K, Ascending(K))
    OBVIOUS
  <2> HIDE DEF K, n, v, N, k
  <2>2. QED BY <1>1, <1>2, <2>1, BetweenChanges
<1>7. \A i \in 1..n : v[i] = p[i].vol /\ v[i] \in Int /\ p[i].at \in Int
  BY <1>1 DEF Timed
<1> HIDE DEF K, n, N, k, v, drops
<1>8. \A j \in 1..N : k[j] \in 1..n /\ k[j] + 1 \in 1..n
  BY <1>1, <1>4, <1>5
<1>9. Total(drops) = p[n].vol - p[1].vol
  <2> DEFINE F == [j \in 0..N |-> IF j = 0 THEN v[1] ELSE v[k[j] + 1]]
             f == [j \in DOMAIN drops |-> drops[j].delta]
  <2>1. \A j \in 0..N : F[j] \in Int
    BY <1>1, <1>7, <1>8
  <2>2. \A j \in 1..N : f[j] = F[j] - F[j - 1]
    <3>1. ASSUME NEW j \in 1..N PROVE f[j] = F[j] - F[j - 1]
      <4>1. f[j] = v[k[j] + 1] - v[k[j]]
        <5>1. f[j] = drops[j].delta
          BY <1>3
        <5>2. drops[j].delta = p[k[j] + 1].vol - p[k[j]].vol
          BY <1>3
        <5>3. v[k[j] + 1] = p[k[j] + 1].vol /\ v[k[j]] = p[k[j]].vol
          BY <1>7, <1>8
        <5>4. QED BY <5>1, <5>2, <5>3
      <4>2. F[j] = v[k[j] + 1]
        BY <1>3
      <4>3. F[j - 1] = v[k[j]]
        <5>1. CASE j = 1
          <6>1. F[j - 1] = v[1] /\ N # 0
            BY <1>3, <5>1
          <6>2. QED BY <1>6, <5>1, <6>1
        <5>2. CASE j # 1
          <6>1. j - 1 \in 1..(N - 1) /\ (j - 1) + 1 = j /\ j - 1 # 0 /\ j - 1 \in 0..N
            BY <1>3, <5>2
          <6>2. F[j - 1] = v[k[j - 1] + 1]
            BY <6>1
          <6>3. v[k[(j - 1) + 1]] = v[k[j - 1] + 1]
            BY <1>6, <6>1
          <6>4. QED BY <6>1, <6>2, <6>3
        <5>3. QED BY <5>1, <5>2
      <4>4. QED BY <4>1, <4>2, <4>3
    <3>2. QED BY <3>1
  <2>3. F[N] = v[n] /\ F[0] = v[1]
    BY <1>3, <1>6
  <2>4. Total(drops) = SumFunctionOnSet(f, 1..N)
    BY <1>3 DEF Total, SumFunction
  <2> HIDE DEF F, f
  <2>5. SumFunctionOnSet(f, 1..N) = F[N] - F[0]
    BY <1>3, <2>1, <2>2, StepsAddUp
  <2>6. QED BY <1>1, <1>7, <2>3, <2>4, <2>5
<1>10. ASSUME NEW i \in 1..(N - 1)
       PROVE  drops[i].to <= drops[i + 1].from /\ drops[i].next = drops[i + 1].previous
  <2>1. i \in 1..N /\ i + 1 \in 1..N /\ i < i + 1
    BY <1>3
  <2>2. /\ drops[i].to = p[k[i] + 1].at /\ drops[i + 1].from = p[k[i + 1]].at
        /\ drops[i].next = p[k[i] + 1].vol /\ drops[i + 1].previous = p[k[i + 1]].vol
    BY <1>3, <2>1
  <2>3. v[k[i + 1]] = v[k[i] + 1]
    BY <1>6
  <2>4. p[k[i] + 1].at <= p[k[i + 1]].at
    <3>1. k[i] + 1 <= k[i + 1] /\ k[i] + 1 \in 1..n /\ k[i + 1] \in 1..n
      BY <1>5, <1>8, <2>1
    <3>2. k[i] + 1 = k[i + 1] \/ k[i] + 1 < k[i + 1]
      BY <3>1
    <3>3. QED BY <1>1, <1>7, <3>1, <3>2 DEF InTime
  <2>5. QED BY <1>7, <1>8, <2>1, <2>2, <2>3, <2>4
<1>11. QED BY <1>3, <1>9, <1>10 DEF n, drops

\* The changes of water of points in order are odd if they end otherwise than they began.
LEMMA WaterAddsUp ==
    ASSUME NEW C, NEW p \in Seq(C), p # << >>, Timed(p), InTime(p),
           \A i \in DOMAIN p : p[i].water \in BOOLEAN
    PROVE  Len(computeQualityChanges(p).water) % 2 = 1 <=> p[1].water # p[Len(p)].water
<1> DEFINE n == Len(p)
           K == Wetting(p)
           N == Cardinality(K)
           k == Sorted(K, Ascending(K))
           v == [i \in 1..n |-> p[i].water]
           F == [j \in 0..N |-> IF j = 0 THEN v[1] ELSE v[k[j] + 1]]
<1>1. n \in Nat \ {0} /\ DOMAIN p = 1..n
  OBVIOUS
<1>2. ChangesAt(v, n, K)
  <2>1. \A i \in 1..(n - 1) : v[i + 1] = p[i + 1].water /\ v[i] = p[i].water
    BY <1>1
  <2> HIDE DEF v
  <2>2. QED BY <2>1 DEF Wetting, ChangesAt
<1>3. Len(computeQualityChanges(p).water) = N
  BY WetAre
<1>4. K \in SUBSET (1..n) /\ \A i \in K : i \in 1..(n - 1) /\ v[i + 1] # v[i]
  <2> HIDE DEF K, v, n
  <2>1. QED BY <1>1, <1>2 DEF ChangesAt
<1>5. N \in Nat /\ \A j \in 1..N : k[j] \in K
  <2> HIDE DEF K, n
  <2>1. QED BY <1>1, <1>4, AscendingIs
<1>6. /\ N = 0 => v[n] = v[1]
      /\ N # 0 => v[k[1]] = v[1] /\ v[n] = v[k[N] + 1]
      /\ \A j \in 1..(N - 1) : v[k[j + 1]] = v[k[j] + 1]
  <2>1. N = Cardinality(K) /\ k = Sorted(K, Ascending(K))
    OBVIOUS
  <2> HIDE DEF K, n, v, N, k
  <2>2. QED BY <1>1, <1>2, <2>1, BetweenChanges
<1>7. \A i \in 1..n : v[i] = p[i].water /\ v[i] \in BOOLEAN
  BY <1>1
<1> HIDE DEF K, n, N, k, v
<1>8. \A j \in 1..N : k[j] \in 1..n /\ k[j] + 1 \in 1..n /\ v[k[j] + 1] # v[k[j]]
  <2>1. \A i \in K : i \in 1..n /\ i + 1 \in 1..n
    BY <1>1, <1>4
  <2>2. QED BY <1>4, <1>5, <2>1
<1>9. \A j \in 0..N : F[j] \in BOOLEAN
  <2>1. \A j \in 0..N : j # 0 => v[k[j] + 1] \in BOOLEAN
    BY <1>5, <1>7, <1>8
  <2>2. 1 \in 1..n
    BY <1>1
  <2>3. v[1] \in BOOLEAN
    BY <1>7, <2>2
  <2>4. QED BY <2>1, <2>3
<1>10. \A j \in 1..N : F[j] # F[j - 1]
  <2>1. ASSUME NEW j \in 1..N PROVE F[j] # F[j - 1]
    <3>1. F[j] = v[k[j] + 1]
      BY <1>5
    <3>2. F[j - 1] = v[k[j]]
      <4>1. CASE j = 1
        <5>1. F[j - 1] = v[1] /\ N # 0
          BY <1>5, <4>1
        <5>2. QED BY <1>6, <4>1, <5>1
      <4>2. CASE j # 1
        <5>1. j - 1 \in 1..(N - 1) /\ (j - 1) + 1 = j /\ j - 1 # 0 /\ j - 1 \in 0..N
          BY <1>5, <4>2
        <5>2. F[j - 1] = v[k[j - 1] + 1]
          BY <5>1
        <5>3. v[k[(j - 1) + 1]] = v[k[j - 1] + 1]
          BY <1>6, <5>1
        <5>4. QED BY <5>1, <5>2, <5>3
      <4>3. QED BY <4>1, <4>2
    <3>3. QED BY <1>8, <3>1, <3>2
  <2>2. QED BY <2>1
<1>11. F[N] = v[n] /\ F[0] = v[1]
  BY <1>5, <1>6
<1> HIDE DEF F
<1>12. N % 2 = 1 <=> F[N] # F[0]
  BY <1>5, <1>9, <1>10, OddChanges
<1>13. v[n] = p[Len(p)].water /\ v[1] = p[1].water
  BY <1>1, <1>7 DEF n
<1>14. QED BY <1>3, <1>11, <1>12, <1>13

\* Points packed into the QR and read again: as many, in order, with the same litres.
LEMMA PackedIs ==
    ASSUME NEW C, NEW p \in Seq(C), Timed(p), InTime(p), \A i \in DOMAIN p : p[i].vol \in Int
    PROVE  LET q == parseJourneyTrail(compactTrailForQr(p)) IN
           /\ \E D : q \in Seq(D)
           /\ Len(q) = Len(p) /\ DOMAIN q = DOMAIN p
           /\ \A i \in DOMAIN p : q[i].vol = p[i].vol
           /\ Timed(q) /\ InTime(q)
<1> DEFINE q == parseJourneyTrail(compactTrailForQr(p))
           D == {q[i] : i \in DOMAIN p}
<1>1. Len(p) \in Nat /\ DOMAIN p = 1..Len(p)
  OBVIOUS
<1>2. /\ q = [i \in DOMAIN p |-> q[i]]
      /\ \A i \in DOMAIN p : q[i].vol = p[i].vol /\ q[i].at = 2 * (p[i].at \div 2)
  BY DEF parseJourneyTrail, compactTrailForQr
<1> HIDE DEF q
<1>3. \A i \in DOMAIN p : p[i].at \in Int
  BY DEF Timed
<1>4. DOMAIN q = DOMAIN p
  BY <1>2
<1>5. q \in Seq(D) /\ Len(q) = Len(p)
  <2>1. \A i \in DOMAIN p : q[i] \in D
    OBVIOUS
  <2> HIDE DEF D
  <2>2. q \in [1..Len(p) -> D]
    BY <1>1, <1>2, <2>1
  <2>3. QED BY <1>1, <2>2
<1>6. Timed(q)
  BY <1>2, <1>3, <1>4 DEF Timed
<1>7. InTime(q)
  <2>1. ASSUME NEW i \in DOMAIN q, NEW j \in DOMAIN q, i < j PROVE q[i].at <= q[j].at
    <3>1. p[i].at <= p[j].at /\ p[i].at \in Int /\ p[j].at \in Int
      BY <1>3, <1>4, <2>1 DEF InTime
    <3>2. 2 * (p[i].at \div 2) <= 2 * (p[j].at \div 2)
      BY <3>1
    <3>3. QED BY <1>2, <1>4, <3>2
  <2>2. QED BY <2>1 DEF InTime
<1>8. QED BY <1>2, <1>4, <1>5, <1>6, <1>7 DEF q

-------------------------------------------------------------------------------
(* The rows that are told. *)

StoredRows == {Row(s) : s \in Samples}

JourneyInv == stored \in Seq(StoredRows)

\* What every stored sample says.
LEMMA RowsSay ==
    \A r \in StoredRows : /\ r.at \in Int /\ r.vol \in Int /\ r.water \in BOOLEAN
                          /\ r.trip # None => r.trip \in Agreed /\ r.cistern = TripCistern[r.trip]
<1> SUFFICES ASSUME NEW s \in Samples
             PROVE  /\ Row(s).at \in Int /\ Row(s).vol \in Int /\ Row(s).water \in BOOLEAN
                    /\ Row(s).trip # None => Row(s).trip \in Agreed
                                             /\ Row(s).cistern = TripCistern[Row(s).trip]
  BY DEF StoredRows
<1>1. /\ DOMAIN s = {"trip", "batch", "cistern", "by", "kind", "vol", "density", "water", "at"}
      /\ s.vol \in Int /\ s.at \in Nat /\ s.water \in BOOLEAN
      /\ s.trip # None => s.trip \in Agreed /\ s.cistern = TripCistern[s.trip]
  BY JourneyAssumption
<1>2. /\ Row(s).at = s.at /\ Row(s).vol = s.vol /\ Row(s).water = s.water
      /\ Row(s).trip = s.trip /\ Row(s).cistern = s.cistern
  BY <1>1 DEF Row
<1>3. QED BY <1>1, <1>2

\* Samples are only added.
LEMMA JourneyStep == JourneyInv /\ [JourneyNext]_stored => JourneyInv'
<1> SUFFICES ASSUME JourneyInv, [JourneyNext]_stored PROVE JourneyInv'
  OBVIOUS
<1>1. CASE UNCHANGED stored
  BY <1>1 DEF JourneyInv
<1>2. CASE JourneyNext
  <2>1. PICK s \in Samples : stored' = Append(stored, Row(s))
    BY <1>2 DEF JourneyNext, Store, submit
  <2>2. Row(s) \in StoredRows
    BY DEF StoredRows
  <2>3. QED BY <2>1, <2>2 DEF JourneyInv
<1>3. QED BY <1>1, <1>2

\* x lists the elements of K, each once.
Lists(x, K) ==
    /\ IsFiniteSet(K) /\ Cardinality(K) \in Nat
    /\ x \in [1..Cardinality(K) -> K]
    /\ \A i \in K : \E n \in 1..Cardinality(K) : x[n] = i
    /\ \A m, n \in 1..Cardinality(K) : x[m] = x[n] => m = n

\* q has the rows of a list at the places K, in time and, at one time, as they stood.
InOrder(q, list, K) ==
    /\ Len(q) = Cardinality(K) /\ DOMAIN q = 1..Cardinality(K)
    /\ Timed(q) /\ InTime(q)
    /\ \E x : /\ Lists(x, K)
              /\ \A n \in 1..Cardinality(K) : q[n] = list[x[n]]
              /\ \A m, n \in 1..Cardinality(K) : m < n => <<x[m], x[n]>> \in Captured(list)

\* Rows that are kept and put in order: those of the positions kept, in time and, at
\* one time, as they stood.
LEMMA RowsInOrder ==
    ASSUME NEW C, NEW list \in Seq(C), Timed(list), NEW K \in SUBSET DOMAIN list
    PROVE  /\ KeptAt(list, K) \in Seq(C) /\ orderedPoints(KeptAt(list, K)) \in Seq(C)
           /\ InOrder(orderedPoints(KeptAt(list, K)), list, K)
<1> DEFINE t == KeptAt(list, K)
           q == orderedPoints(t)
           k == Sorted(K, Ascending(K))
           o == Sorted(DOMAIN t, Captured(t))
           N == Cardinality(K)
           x == [n \in 1..N |-> k[o[n]]]
<1>1. Len(list) \in Nat /\ DOMAIN list = 1..Len(list) /\ K \in SUBSET (1..Len(list))
  OBVIOUS
<1>2. Orders(Ascending(K), K)
  BY <1>1, AscendingOrders
<1>3. t = Taken(list, k)
  BY DEF KeptAt
<1> HIDE DEF t
<1>4. t \in Seq(C) /\ Takes(t, k, list, K, Ascending(K))
  BY <1>2, <1>3, TakenIs
<1> HIDE DEF k
<1>5. /\ IsFiniteSet(K) /\ N \in Nat
      /\ t \in Seq(C) /\ Len(t) = N /\ \A n \in 1..N : k[n] \in K /\ t[n] = list[k[n]]
      /\ \A i \in K : \E n \in 1..N : k[n] = i
      /\ \A m, n \in 1..N : m < n => <<k[m], k[n]>> \in Ascending(K)
      /\ \A m, n \in 1..N : k[m] = k[n] => m = n
  BY <1>4 DEF Takes
<1> HIDE DEF N
<1>6. DOMAIN t = 1..N
  BY <1>5
<1>7. Timed(t)
  BY <1>5, <1>6 DEF Timed
<1>8. /\ q \in Seq(C) /\ Len(q) = Len(t) /\ DOMAIN q = DOMAIN t
      /\ \A n \in DOMAIN t : o[n] \in DOMAIN t /\ q[n] = t[o[n]]
      /\ \A i \in DOMAIN t : \E n \in DOMAIN t : o[n] = i
      /\ \A m, n \in DOMAIN t : m < n => <<o[m], o[n]>> \in Captured(t)
      /\ \A m, n \in DOMAIN t : o[m] = o[n] => m = n
      /\ Timed(q) /\ InTime(q)
  BY <1>5, <1>7, OrderedIs
<1> HIDE DEF q, o
<1>9. \A n \in 1..N : x[n] = k[o[n]] /\ x[n] \in K
  BY <1>5, <1>6, <1>8
<1>10. x \in [1..N -> K]
  BY <1>9
<1> HIDE DEF x
<1>11. \A i \in K : \E n \in 1..N : x[n] = i
  <2>1. ASSUME NEW i \in K PROVE \E n \in 1..N : x[n] = i
    <3>1. PICK m \in 1..N : k[m] = i
      BY <1>5
    <3>2. PICK n \in 1..N : o[n] = m
      BY <1>6, <1>8
    <3>3. QED BY <1>9, <3>1, <3>2
  <2>2. QED BY <2>1
<1>12. ASSUME NEW m \in 1..N, NEW n \in 1..N, x[m] = x[n] PROVE m = n
  <2>1. o[m] \in 1..N /\ o[n] \in 1..N /\ k[o[m]] = k[o[n]]
    BY <1>6, <1>8, <1>9, <1>12
  <2>2. o[m] = o[n]
    BY <1>5, <2>1
  <2>3. QED BY <1>6, <1>8, <2>2
<1>13. ASSUME NEW n \in 1..N PROVE q[n] = list[x[n]] /\ t[o[n]] = list[x[n]]
  <2>1. o[n] \in 1..N /\ q[n] = t[o[n]]
    BY <1>6, <1>8
  <2>2. t[o[n]] = list[k[o[n]]]
    BY <1>5, <2>1
  <2>3. QED BY <1>9, <2>1, <2>2
<1>14. ASSUME NEW m \in 1..N, NEW n \in 1..N, m < n PROVE <<x[m], x[n]>> \in Captured(list)
  <2>1. <<o[m], o[n]>> \in Captured(t) /\ o[m] \in 1..N /\ o[n] \in 1..N
    BY <1>6, <1>8, <1>14
  <2>2. t[o[m]].at < t[o[n]].at \/ (t[o[m]].at = t[o[n]].at /\ o[m] < o[n])
    <3>1. \A i, j : <<i, j>> \in Captured(t) => t[i].at < t[j].at \/ (t[i].at = t[j].at /\ i < j)
      BY DEF Captured
    <3>2. QED BY <2>1, <3>1
  <2>3. t[o[m]] = list[x[m]] /\ t[o[n]] = list[x[n]]
    BY <1>13
  <2>4. o[m] < o[n] => x[m] < x[n]
    <3>1. o[m] < o[n] => <<k[o[m]], k[o[n]]>> \in Ascending(K)
      BY <1>5, <2>1
    <3>2. QED BY <1>9, <3>1 DEF Ascending
  <2>5. x[m] \in DOMAIN list /\ x[n] \in DOMAIN list
    BY <1>9
  <2>6. list[x[m]].at < list[x[n]].at \/ (list[x[m]].at = list[x[n]].at /\ x[m] < x[n])
    BY <2>2, <2>3, <2>4
  <2>7. QED BY <2>5, <2>6 DEF Captured
<1>15. Lists(x, K)
  BY <1>5, <1>10, <1>11, <1>12 DEF N, Lists
<1>16. InOrder(q, list, K)
  BY <1>5, <1>6, <1>8, <1>13, <1>14, <1>15 DEF InOrder, N
<1>17. QED BY <1>5, <1>8, <1>16 DEF q, t

\* The road of a trip tells what adds up, in the QR as well.
LEMMA RoadTold ==
    ASSUME JourneyInv, NEW d \in Agreed, RowsOf(d) # << >>
    PROVE  RoadAddsUp(orderedPoints(RowsOf(d)))
<1> DEFINE D == {i \in DOMAIN stored : stored[i].trip = d}
           p == orderedPoints(RowsOf(d))
           q == parseJourneyTrail(compactTrailForQr(p))
           drops == computeVolumeDrops(p)
           packed == computeVolumeDrops(q)
           wet == computeQualityChanges(p).water
<1>1. \A r \in StoredRows : r.at \in Int /\ r.vol \in Int /\ r.water \in BOOLEAN
  BY RowsSay
<1>2. stored \in Seq(StoredRows) /\ Timed(stored)
  BY <1>1 DEF JourneyInv, Timed
<1>3. RowsOf(d) \in Seq(StoredRows) /\ p \in Seq(StoredRows) /\ Timed(p) /\ InTime(p)
  <2>1. D \in SUBSET DOMAIN stored /\ RowsOf(d) = KeptAt(stored, D)
    BY DEF RowsOf
  <2> HIDE DEF D
  <2>2. QED BY <1>2, <2>1, RowsInOrder DEF InOrder
<1>4. p # << >>
  <2>1. Timed(RowsOf(d))
    BY <1>1, <1>3 DEF Timed
  <2>2. Len(p) = Len(RowsOf(d))
    BY <1>3, <2>1, OrderedIs
  <2>3. QED BY <1>3, <2>2
<1> HIDE DEF p
<1>5. Len(p) \in Nat \ {0} /\ DOMAIN p = 1..Len(p)
  BY <1>3, <1>4
<1>6. \A i \in DOMAIN p : p[i].vol \in Int /\ p[i].water \in BOOLEAN
  BY <1>1, <1>3
<1>7. /\ Total(drops) = p[Len(p)].vol - p[1].vol
      /\ \A i \in 1..(Len(drops) - 1) : /\ drops[i].to <= drops[i + 1].from
                                        /\ drops[i].next = drops[i + 1].previous
  BY <1>3, <1>4, <1>6, ToldAddsUp
<1>8. Len(wet) % 2 = 1 <=> p[1].water # p[Len(p)].water
  BY <1>3, <1>4, <1>6, WaterAddsUp
<1>9. /\ \E E : q \in Seq(E)
      /\ Len(q) = Len(p) /\ DOMAIN q = DOMAIN p
      /\ \A i \in DOMAIN p : q[i].vol = p[i].vol
      /\ Timed(q) /\ InTime(q)
  BY <1>3, <1>6, PackedIs
<1> HIDE DEF q
<1>10. Changing(q) = Changing(p)
  <2>1. \A i \in 1..(Len(p) - 1) : i \in DOMAIN p /\ i + 1 \in DOMAIN p
    BY <1>5
  <2>2. \A i \in 1..(Len(p) - 1) : q[i].vol = p[i].vol /\ q[i + 1].vol = p[i + 1].vol
    BY <1>9, <2>1
  <2>3. QED BY <1>9, <2>2 DEF Changing
<1>11. Total(packed) = q[Len(q)].vol - q[1].vol /\ Len(packed) = Cardinality(Changing(q))
  <2>1. PICK E : q \in Seq(E)
    BY <1>9
  <2>2. q # << >> /\ \A i \in DOMAIN q : q[i].vol \in Int
    BY <1>5, <1>6, <1>9
  <2>3. QED BY <1>9, <2>1, <2>2, ToldAddsUp, DropsAre
<1>12. Len(drops) = Cardinality(Changing(p))
  BY <1>3, <1>6, DropsAre
<1>13. Total(packed) = Total(drops) /\ Len(packed) = Len(drops)
  <2>1. 1 \in DOMAIN p /\ Len(p) \in DOMAIN p
    BY <1>5
  <2>2. QED BY <1>7, <1>9, <1>10, <1>11, <1>12, <2>1
<1>14. getBaton(<< >>, compactTrailForQr(p)).volumeDrops = packed
  BY DEF getBaton, q
<1>15. QED BY <1>7, <1>8, <1>13, <1>14 DEF RoadAddsUp, p

-------------------------------------------------------------------------------
(* The ends of lists. *)

\* A list that never falls, in numbers.
Rises(x, a, N) ==
    /\ \A n \in 1..N : a[x[n]] \in Int
    /\ \A m, n \in 1..N : m < n => a[x[m]] <= a[x[n]]

\* Two lists of the same things that never fall: at each place one is not above the other.
LEMMA NotAbove ==
    ASSUME NEW T, NEW a, NEW y, Lists(y, T), Rises(y, a, Cardinality(T)),
           NEW z, Lists(z, T), Rises(z, a, Cardinality(T)),
           NEW n \in 1..Cardinality(T)
    PROVE  a[z[n]] <= a[y[n]]
<1> SUFFICES ASSUME ~(a[z[n]] <= a[y[n]]) PROVE FALSE
  OBVIOUS
<1> DEFINE P == Cardinality(T)
           Where(i) == CHOOSE m \in 1..P : z[m] = y[i]
           f == [i \in 1..n |-> Where(i)]
<1>0. P \in Nat /\ n \in 1..P
  BY DEF Lists
<1>1. \A i \in 1..P : y[i] \in T /\ z[i] \in T /\ a[y[i]] \in Int /\ a[z[i]] \in Int
  BY DEF Lists, Rises
<1>2. \A i \in 1..P : Where(i) \in 1..P /\ z[Where(i)] = y[i]
  <2>1. \A i \in 1..P : \E m \in 1..P : z[m] = y[i]
    BY <1>1 DEF Lists
  <2>2. QED BY <2>1
<1>3. \A i, j \in 1..P : y[i] = y[j] => i = j
  BY DEF Lists
<1> HIDE DEF Where, P
<1>4. \A i \in 1..n : i \in 1..P /\ a[y[i]] <= a[y[n]]
  <2>1. ASSUME NEW i \in 1..n PROVE i \in 1..P /\ a[y[i]] <= a[y[n]]
    <3>1. i \in 1..P /\ (i = n \/ i < n)
      BY <1>0
    <3>2. i < n => a[y[i]] <= a[y[n]]
      BY <1>0, <3>1 DEF Rises, P
    <3>3. a[y[n]] <= a[y[n]]
      BY <1>0, <1>1
    <3>4. QED BY <3>1, <3>2, <3>3
  <2>2. QED BY <2>1
<1>5. \A i \in 1..n : Where(i) \in 1..(n - 1)
  <2>1. ASSUME NEW i \in 1..n PROVE Where(i) \in 1..(n - 1)
    <3>1. Where(i) \in 1..P /\ z[Where(i)] = y[i] /\ a[y[i]] <= a[y[n]] /\ i \in 1..P
      BY <1>2, <1>4
    <3>2. PICK w : w = Where(i)
      OBVIOUS
    <3>3. w \in 1..P /\ a[z[w]] = a[y[i]]
      BY <3>1, <3>2
    <3>4. a[z[w]] \in Int /\ a[z[n]] \in Int /\ a[y[n]] \in Int /\ a[z[w]] <= a[y[n]]
      BY <1>0, <1>1, <3>1, <3>3
    <3>5. ~(a[z[n]] <= a[z[w]])
      BY <3>4
    <3>6. n < w => a[z[n]] <= a[z[w]]
      BY <1>0, <3>3 DEF Rises, P
    <3>7. ~(n < w) /\ n # w
      BY <3>4, <3>5, <3>6
    <3>8. QED BY <1>0, <3>2, <3>3, <3>7
  <2>2. QED BY <2>1
<1>6. PICK i \in 1..n, j \in 1..n : i # j /\ f[i] = f[j]
  <2> DEFINE S == 1..n
             R == 1..(n - 1)
  <2>1. f \in [S -> R]
    BY <1>5
  <2>2. IsFiniteSet(S) /\ Cardinality(S) = n
    BY <1>0, FS_Interval
  <2>3. IsFiniteSet(R) /\ Cardinality(R) = n - 1
    BY <1>0, FS_Interval
  <2>4. Cardinality(R) < Cardinality(S)
    BY <1>0, <2>2, <2>3
  <2> HIDE DEF f, S, R
  <2>5. \E i, j \in S : i # j /\ f[i] = f[j]
    BY <2>1, <2>2, <2>3, <2>4, FS_PigeonHole
  <2>6. QED BY <2>5 DEF S
<1>7. i \in 1..P /\ j \in 1..P /\ Where(i) = Where(j)
  BY <1>4, <1>6
<1>8. y[i] = y[j]
  BY <1>2, <1>7
<1>9. QED BY <1>3, <1>6, <1>7, <1>8

\* So they are of one height at each place.
LEMMA SameHeights ==
    ASSUME NEW T, NEW a, NEW y, Lists(y, T), Rises(y, a, Cardinality(T)),
           NEW z, Lists(z, T), Rises(z, a, Cardinality(T)),
           NEW n \in 1..Cardinality(T)
    PROVE  a[z[n]] = a[y[n]]
<1>1. a[z[n]] <= a[y[n]] /\ a[y[n]] <= a[z[n]]
  BY NotAbove
<1>2. a[z[n]] \in Int /\ a[y[n]] \in Int
  BY DEF Rises
<1>3. QED BY <1>1, <1>2

\* What is closed upward in a list is its end.
LEMMA UpperEnd ==
    ASSUME NEW L \in Nat, NEW U \in SUBSET (1..L),
           \A i, j \in 1..L : i \in U /\ i < j => j \in U
    PROVE  /\ IsFiniteSet(U) /\ Cardinality(U) \in 0..L
           /\ U = (L - Cardinality(U) + 1)..L
<1>1. CASE U = {}
  <2>1. IsFiniteSet(U) /\ Cardinality(U) = 0
    BY <1>1, FS_EmptySet
  <2>2. (L - 0 + 1)..L = {}
    OBVIOUS
  <2>3. QED BY <1>1, <2>1, <2>2
<1>2. CASE U # {}
  <2>1. U \in SUBSET Nat
    OBVIOUS
  <2>2. PICK k \in U : \A i \in U : k <= i
    BY <1>2, <2>1, LeastNumber
  <2>3. U = k..L
    <3>1. ASSUME NEW i \in k..L PROVE i \in U
      <4>1. i \in 1..L /\ (i = k \/ k < i)
        OBVIOUS
      <4>2. QED BY <2>2, <4>1
    <3>2. ASSUME NEW i \in U PROVE i \in k..L
      <4>1. i \in 1..L /\ k \in 1..L /\ k <= i
        BY <2>2
      <4>2. QED BY <4>1
    <3>3. QED BY <3>1, <3>2
  <2>4. k \in 1..L /\ k \in Int /\ L \in Int
    BY <2>2
  <2>5. IsFiniteSet(k..L) /\ Cardinality(k..L) = L - k + 1
    BY <2>4, FS_Interval
  <2>6. QED BY <2>3, <2>4, <2>5
<1>3. QED BY <1>1, <1>2

\* The first of a list.
LEMMA FirstOfIs ==
    ASSUME NEW C, NEW list \in Seq(C), NEW n \in Nat
    PROVE  LET q == FirstOf(n, list) IN
           /\ q \in Seq(C) /\ Len(q) = (IF Len(list) < n THEN Len(list) ELSE n)
           /\ DOMAIN q = 1..Len(q) /\ Len(q) <= Len(list)
           /\ \A i \in DOMAIN q : q[i] = list[i] /\ i \in DOMAIN list
           /\ Len(list) <= n => q = list
  BY DEF FirstOf

-------------------------------------------------------------------------------
(* A page of the list. *)

\* w tells where the rows of a list stand in another: each at a place of its own, of
\* those in A, and no later row of A is left out.
Newest(listed, w, list, A) ==
    /\ \A n \in DOMAIN listed : w[n] \in A /\ listed[n] = list[w[n]]
    /\ \A m, n \in DOMAIN listed : w[m] = w[n] => m = n
    /\ \A n \in DOMAIN listed, i \in A :
         <<w[n], i>> \in Captured(list) => \E m \in DOMAIN listed : w[m] = i

\* The list of a user has the newest of the rows that the user may see.
LEMMA ListedAre ==
    ASSUME JourneyInv, NEW u, NEW c
    PROVE  LET A == {i \in DOMAIN stored : Visible(u, c, stored[i])}
               listed == listForActor(u, c)
           IN listed \in Seq(StoredRows) /\ \E w : Newest(listed, w, stored, A)
<1> DEFINE A == {i \in DOMAIN stored : Visible(u, c, stored[i])}
           listed == listForActor(u, c)
           seen == orderedPoints(KeptAt(stored, A))
           N == Cardinality(A)
           back == [n \in DOMAIN seen |-> seen[Len(seen) + 1 - n]]
<1>1. stored \in Seq(StoredRows) /\ Timed(stored) /\ A \in SUBSET DOMAIN stored
  BY RowsSay DEF JourneyInv, Timed
<1>2. listed = FirstOf(Recent, back)
  BY DEF listForActor
<1>3. Orders(Captured(stored), DOMAIN stored)
  BY <1>1, CapturedOrders
<1> HIDE DEF A, listed
<1>4. seen \in Seq(StoredRows) /\ InOrder(seen, stored, A)
  BY <1>1, RowsInOrder
<1> HIDE DEF seen
<1>5. /\ seen \in Seq(StoredRows) /\ Len(seen) = N /\ DOMAIN seen = 1..N
      /\ \E x : /\ Lists(x, A)
                /\ \A n \in 1..N : seen[n] = stored[x[n]]
                /\ \A m, n \in 1..N : m < n => <<x[m], x[n]>> \in Captured(stored)
  BY <1>4 DEF InOrder
<1>6. PICK x : /\ Lists(x, A)
               /\ \A n \in 1..N : seen[n] = stored[x[n]]
               /\ \A m, n \in 1..N : m < n => <<x[m], x[n]>> \in Captured(stored)
  BY <1>5
<1>7. N \in Nat /\ \A n \in 1..N : x[n] \in A
  BY <1>6 DEF Lists
<1> HIDE DEF N
<1>8. back \in Seq(StoredRows) /\ Len(back) = N /\ \A n \in 1..N : back[n] = seen[N + 1 - n]
  <2>1. \A n \in 1..N : N + 1 - n \in 1..N
    BY <1>7
  <2>2. \A n \in 1..N : seen[N + 1 - n] \in StoredRows
    BY <1>5, <2>1
  <2>3. back \in [1..N -> StoredRows]
    BY <1>5, <2>2
  <2>4. QED BY <1>5, <1>7, <2>3
<1> HIDE DEF back
<1>9. /\ listed \in Seq(StoredRows) /\ DOMAIN listed \in SUBSET (1..N)
      /\ \A n \in DOMAIN listed : listed[n] = back[n]
      /\ \A m, n \in 1..N : n \in DOMAIN listed /\ m <= n => m \in DOMAIN listed
  <2>1. Recent \in Nat
    BY JourneyAssumption
  <2>2. /\ listed \in Seq(StoredRows) /\ DOMAIN listed = 1..Len(listed) /\ Len(listed) <= Len(back)
        /\ \A i \in DOMAIN listed : listed[i] = back[i]
    BY <1>2, <1>8, <2>1, FirstOfIs
  <2>3. Len(listed) \in Nat
    BY <2>2
  <2>4. QED BY <1>7, <1>8, <2>2, <2>3
<1> DEFINE w == [n \in DOMAIN listed |-> x[N + 1 - n]]
<1>10. \A n \in DOMAIN listed : n \in 1..N /\ N + 1 - n \in 1..N /\ w[n] = x[N + 1 - n]
  BY <1>7, <1>9
<1> HIDE DEF w
<1>11. ASSUME NEW n \in DOMAIN listed PROVE w[n] \in A /\ listed[n] = stored[w[n]]
  <2>1. n \in 1..N /\ N + 1 - n \in 1..N /\ w[n] = x[N + 1 - n]
    BY <1>10
  <2>2. listed[n] = seen[N + 1 - n]
    BY <1>8, <1>9, <2>1
  <2>3. seen[N + 1 - n] = stored[x[N + 1 - n]] /\ x[N + 1 - n] \in A
    BY <1>6, <1>7, <2>1
  <2>4. QED BY <2>1, <2>2, <2>3
<1>12. ASSUME NEW m \in DOMAIN listed, NEW n \in DOMAIN listed, w[m] = w[n] PROVE m = n
  <2>1. N + 1 - m \in 1..N /\ N + 1 - n \in 1..N /\ x[N + 1 - m] = x[N + 1 - n]
    BY <1>10, <1>12
  <2>2. N + 1 - m = N + 1 - n
    BY <1>6, <2>1 DEF Lists, N
  <2>3. m \in Int /\ n \in Int /\ N \in Int
    BY <1>7, <1>10
  <2>4. QED BY <2>2, <2>3
<1>13. ASSUME NEW n \in DOMAIN listed, NEW i \in A, <<w[n], i>> \in Captured(stored)
       PROVE  \E m \in DOMAIN listed : w[m] = i
  <2>1. PICK k \in 1..N : x[k] = i
    BY <1>6 DEF Lists, N
  <2>2. PICK j : j = N + 1 - n
    OBVIOUS
  <2>3. n \in 1..N /\ j \in 1..N /\ w[n] = x[j]
    BY <1>10, <2>2
  <2>4. <<x[j], x[k]>> \in Captured(stored) /\ x[j] \in DOMAIN stored /\ x[k] \in DOMAIN stored
    BY <1>1, <1>7, <1>13, <2>1, <2>3
  <2>5. k # j
    BY <1>3, <2>4 DEF Orders
  <2>6. ~(k < j)
    <3>1. k < j => <<x[k], x[j]>> \in Captured(stored)
      BY <1>6, <2>3
    <3>2. QED BY <1>3, <2>4, <3>1 DEF Orders
  <2>7. j < k
    BY <2>3, <2>5, <2>6
  <2>8. N + 1 - k \in 1..N /\ N + 1 - k <= n /\ N + 1 - (N + 1 - k) = k
    BY <1>7, <2>2, <2>3, <2>7
  <2>9. N + 1 - k \in DOMAIN listed
    BY <1>9, <2>3, <2>8
  <2>10. w[N + 1 - k] = x[k]
    BY <1>10, <2>8, <2>9
  <2>11. QED BY <2>1, <2>9, <2>10
<1>14. Newest(listed, w, stored, A)
  BY <1>11, <1>12, <1>13 DEF Newest
<1>15. QED BY <1>9, <1>14 DEF A, listed

\* The places of the rows that stand in D.
Among(listed, w, D) == {n \in DOMAIN listed : w[n] \in D}

\* A page has the times of the end of a road, and shows rows of it.
EndsAs(page, road) ==
    /\ Timed(road) /\ InTime(road) /\ Len(page) \in 0..Len(road)
    /\ \A n \in DOMAIN page : /\ page[n].at = road[Len(road) - Len(page) + n].at
                              /\ \E m \in DOMAIN road : page[n] = road[m]

\* A page that shows of the newest rows those of D, and the road of all of D: the page is
\* as the end of the road in its times, and shows rows of the road.
LEMMA PageEnds ==
    ASSUME NEW C, NEW list \in Seq(C), Timed(list), NEW A \in SUBSET DOMAIN list,
           NEW listed \in Seq(C), NEW w, Newest(listed, w, list, A),
           NEW D \in SUBSET A, NEW G, G = Among(listed, w, D),
           NEW page, page = orderedPoints(KeptAt(listed, G)),
           NEW road, road = orderedPoints(KeptAt(list, D))
    PROVE  page \in Seq(C) /\ road \in Seq(C) /\ EndsAs(page, road)
<1> DEFINE P == Cardinality(G)
           L == Cardinality(D)
<1>1. G = {n \in DOMAIN listed : w[n] \in D}
  BY DEF Among
<1>2. D \in SUBSET DOMAIN list /\ G \in SUBSET DOMAIN listed /\ Orders(Captured(list), DOMAIN list)
  BY <1>1, CapturedOrders
<1>3. \A n \in DOMAIN listed : w[n] \in A /\ listed[n] = list[w[n]]
  BY DEF Newest
<1>4. Timed(listed)
  <2>1. \A n \in DOMAIN listed : listed[n].at = list[w[n]].at /\ w[n] \in DOMAIN list
    BY <1>3
  <2>2. QED BY <2>1 DEF Timed
<1>5. page \in Seq(C) /\ InOrder(page, listed, G)
  BY <1>2, <1>4, RowsInOrder
<1>6. road \in Seq(C) /\ InOrder(road, list, D)
  BY <1>2, RowsInOrder
<1>7. /\ page \in Seq(C) /\ Len(page) = P /\ DOMAIN page = 1..P /\ Timed(page) /\ InTime(page)
      /\ \E y : Lists(y, G) /\ \A n \in 1..P : page[n] = listed[y[n]]
  <2>1. /\ page \in Seq(C) /\ Len(page) = P /\ DOMAIN page = 1..P /\ Timed(page) /\ InTime(page)
        /\ \E y : /\ Lists(y, G)
                  /\ \A n \in 1..P : page[n] = listed[y[n]]
                  /\ \A m, n \in 1..P : m < n => <<y[m], y[n]>> \in Captured(listed)
    BY <1>5 DEF InOrder
  <2>2. QED BY <2>1
<1>8. /\ road \in Seq(C) /\ Len(road) = L /\ DOMAIN road = 1..L /\ Timed(road) /\ InTime(road)
      /\ \E z : /\ Lists(z, D)
                /\ \A n \in 1..L : road[n] = list[z[n]]
                /\ \A m, n \in 1..L : m < n => <<z[m], z[n]>> \in Captured(list)
  BY <1>6 DEF InOrder
<1>9. PICK y : Lists(y, G) /\ \A n \in 1..P : page[n] = listed[y[n]]
  BY <1>7
<1>10. PICK z : /\ Lists(z, D)
                /\ \A n \in 1..L : road[n] = list[z[n]]
                /\ \A m, n \in 1..L : m < n => <<z[m], z[n]>> \in Captured(list)
  BY <1>8
<1>11. /\ P \in Nat /\ \A n \in 1..P : y[n] \in G
       /\ \A i \in G : \E n \in 1..P : y[n] = i
       /\ \A m, n \in 1..P : y[m] = y[n] => m = n
  BY <1>9 DEF Lists
<1>12. /\ L \in Nat /\ \A n \in 1..L : z[n] \in D
       /\ \A i \in D : \E n \in 1..L : z[n] = i
       /\ \A m, n \in 1..L : z[m] = z[n] => m = n
  BY <1>10 DEF Lists
<1> HIDE DEF P, L
<1> DEFINE U == {n \in 1..L : \E i \in G : z[n] = w[i]}
           Where(n) == CHOOSE m \in 1..L : z[m] = w[y[n]]
           h == [n \in 1..P |-> Where(n)]
           a == [n \in 1..L |-> road[n].at]
<1>13. ASSUME NEW i \in 1..L, NEW j \in 1..L, i \in U, i < j PROVE j \in U
  <2>1. PICK n \in G : z[i] = w[n]
    BY <1>13
  <2>2. <<w[n], z[j]>> \in Captured(list) /\ z[j] \in D /\ n \in DOMAIN listed
    BY <1>2, <1>10, <1>12, <1>13, <2>1
  <2>3. PICK m \in DOMAIN listed : w[m] = z[j]
    BY <2>2 DEF Newest
  <2>4. m \in G
    BY <1>1, <2>2, <2>3
  <2>5. QED BY <2>3, <2>4
<1>14. /\ IsFiniteSet(U) /\ Cardinality(U) \in 0..L
       /\ U = (L - Cardinality(U) + 1)..L
  <2>1. U \in SUBSET (1..L) /\ \A i, j \in 1..L : i \in U /\ i < j => j \in U
    BY <1>13
  <2> HIDE DEF U
  <2>2. QED BY <1>12, <2>1, UpperEnd
<1>15. \A n \in 1..P : Where(n) \in 1..L /\ z[Where(n)] = w[y[n]] /\ Where(n) \in U
  <2>1. ASSUME NEW n \in 1..P
        PROVE  Where(n) \in 1..L /\ z[Where(n)] = w[y[n]] /\ Where(n) \in U
    <3>1. y[n] \in G /\ w[y[n]] \in D
      BY <1>1, <1>11
    <3>2. \E m \in 1..L : z[m] = w[y[n]]
      BY <1>12, <3>1
    <3>3. Where(n) \in 1..L /\ z[Where(n)] = w[y[n]]
      BY <3>2
    <3> HIDE DEF Where
    <3>4. QED BY <3>1, <3>3
  <2>2. QED BY <2>1
<1> HIDE DEF Where
<1>16. \A n \in 1..P : h[n] \in U /\ h[n] \in 1..L /\ z[h[n]] = w[y[n]]
  BY <1>15
<1>17. h \in [1..P -> U]
  BY <1>15
<1> HIDE DEF h
<1>18. ASSUME NEW m \in 1..P, NEW n \in 1..P, h[m] = h[n] PROVE m = n
  <2>1. y[m] \in DOMAIN listed /\ y[n] \in DOMAIN listed /\ w[y[m]] = w[y[n]]
    <3>1. y[m] \in G /\ y[n] \in G
      BY <1>11
    <3>2. z[h[m]] = w[y[m]] /\ z[h[n]] = w[y[n]]
      BY <1>16
    <3>3. QED BY <1>2, <1>18, <3>1, <3>2
  <2>2. y[m] = y[n]
    BY <2>1 DEF Newest
  <2>3. QED BY <1>11, <2>2
<1>19. ASSUME NEW m \in U PROVE \E n \in 1..P : h[n] = m
  <2>1. PICK i \in G : z[m] = w[i]
    OBVIOUS
  <2>2. PICK n \in 1..P : y[n] = i
    BY <1>11
  <2>3. z[h[n]] = z[m] /\ h[n] \in 1..L /\ m \in 1..L
    BY <1>16, <2>1, <2>2
  <2>4. QED BY <1>12, <2>3
<1> HIDE DEF U
<1>20. Cardinality(U) = P
  <2>1. h \in Bijection(1..P, U)
    BY <1>17, <1>18, <1>19 DEF Bijection, Injection, IsInjective, Surjection
  <2>2. ExistsBijection(1..P, U)
    BY <2>1 DEF ExistsBijection
  <2>3. QED BY <1>11, <2>2, FS_CountingElements
<1>21. P \in 0..L /\ U = (L - P + 1)..L
  BY <1>14, <1>20
<1> DEFINE e == [n \in 1..P |-> L - P + n]
<1>22. Lists(h, U)
  BY <1>11, <1>14, <1>17, <1>18, <1>19, <1>20 DEF Lists
<1>23. Lists(e, U)
  <2>1. \A n \in 1..P : e[n] \in U /\ e[n] = L - P + n
    BY <1>11, <1>12, <1>21
  <2>2. e \in [1..P -> U]
    BY <2>1
  <2>3. \A m \in U : m - (L - P) \in 1..P /\ e[m - (L - P)] = m
    BY <1>11, <1>12, <1>21
  <2>4. \A m, n \in 1..P : e[m] = e[n] => m = n
    BY <1>11, <1>12
  <2> HIDE DEF e
  <2>5. QED BY <1>11, <1>14, <1>20, <2>2, <2>3, <2>4 DEF Lists
<1>24. \A n \in 1..P : a[h[n]] = page[n].at /\ page[n] = road[h[n]] /\ h[n] \in DOMAIN road
  <2>1. ASSUME NEW n \in 1..P
        PROVE  a[h[n]] = page[n].at /\ page[n] = road[h[n]] /\ h[n] \in DOMAIN road
    <3>1. page[n] = listed[y[n]] /\ y[n] \in G
      BY <1>9, <1>11
    <3>2. listed[y[n]] = list[w[y[n]]]
      BY <1>2, <1>3, <3>1
    <3>3. road[h[n]] = list[z[h[n]]] /\ h[n] \in 1..L /\ z[h[n]] = w[y[n]]
      BY <1>10, <1>16
    <3>4. QED BY <1>8, <3>1, <3>2, <3>3
  <2>2. QED BY <2>1
<1>25. Rises(h, a, P)
  <2>1. \A n \in 1..P : page[n].at \in Int
    BY <1>7 DEF Timed
  <2>2. \A m, n \in 1..P : m < n => page[m].at <= page[n].at
    BY <1>7 DEF InTime
  <2> HIDE DEF a
  <2>3. QED BY <1>24, <2>1, <2>2 DEF Rises
<1>26. Rises(e, a, P)
  <2>1. \A n \in 1..P : e[n] \in 1..L /\ e[n] = L - P + n
    BY <1>11, <1>12, <1>21
  <2>2. \A n \in 1..P : a[e[n]] = road[e[n]].at
    BY <2>1
  <2>3. \A n \in 1..P : road[e[n]].at \in Int
    BY <1>8, <2>1 DEF Timed
  <2>4. ASSUME NEW m \in 1..P, NEW n \in 1..P, m < n PROVE road[e[m]].at <= road[e[n]].at
    <3>0. e[m] \in 1..L /\ e[n] \in 1..L /\ e[m] = L - P + m /\ e[n] = L - P + n
      BY <2>1
    <3> HIDE DEF e
    <3>1. e[m] \in DOMAIN road /\ e[n] \in DOMAIN road /\ e[m] < e[n]
      BY <1>8, <1>11, <1>12, <2>4, <3>0
    <3>2. QED BY <1>8, <3>1 DEF InTime
  <2> HIDE DEF a, e
  <2>5. QED BY <2>2, <2>3, <2>4 DEF Rises
<1>27. ASSUME NEW n \in 1..P
       PROVE  page[n].at = road[L - P + n].at /\ \E m \in DOMAIN road : page[n] = road[m]
  <2>1. e[n] = L - P + n /\ e[n] \in 1..L
    BY <1>11, <1>12, <1>21
  <2>2. a[e[n]] = road[L - P + n].at
    BY <2>1
  <2> HIDE DEF a, e
  <2>3. a[e[n]] = a[h[n]]
    BY <1>20, <1>22, <1>23, <1>25, <1>26, SameHeights
  <2>4. QED BY <1>24, <2>2, <2>3
<1>28. EndsAs(page, road)
  BY <1>7, <1>8, <1>21, <1>27 DEF EndsAs
<1>29. QED BY <1>7, <1>8, <1>28

-------------------------------------------------------------------------------
(* The tellers. *)

\* Where a change of water is told, there was water.
LEMMA WaterShows ==
    ASSUME NEW C, NEW p \in Seq(C), Timed(p), InTime(p),
           \A i \in DOMAIN p : p[i].water \in BOOLEAN,
           computeQualityChanges(p).water # << >>
    PROVE  \E i \in DOMAIN p : p[i].water
<1> DEFINE all == [i \in 1..(Len(p) - 1) |-> [metric |-> "water", to |-> p[i + 1].at,
                                              changed |-> p[i].water # p[i + 1].water]]
           K == {i \in DOMAIN all : all[i].changed}
           X == {all[i] : i \in 1..(Len(p) - 1)}
<1>1. Len(p) \in Nat /\ DOMAIN p = 1..Len(p)
  OBVIOUS
<1>2. computeQualityChanges(p).water = KeptAt(all, K)
  BY WetIs
<1>3. K # {}
  <2>1. SUFFICES ASSUME K = {} PROVE KeptAt(all, K) = << >>
    BY <1>2
  <2>2. Cardinality(DOMAIN Sorted({}, Ascending({}))) = 0
    <3>1. DOMAIN Sorted({}, Ascending({})) = 1..Cardinality({})
      BY DEF Sorted
    <3>2. 1..0 = {}
      OBVIOUS
    <3>3. QED BY <3>1, <3>2, FS_EmptySet
  <2>3. KeptAt(all, {}) = << >>
    BY <2>2 DEF KeptAt, Taken
  <2>4. QED BY <2>1, <2>3
<1>4. K = {i \in 1..(Len(p) - 1) : p[i].water # p[i + 1].water}
  OBVIOUS
<1> HIDE DEF K
<1>5. PICK i \in 1..(Len(p) - 1) : p[i].water # p[i + 1].water
  BY <1>3, <1>4
<1>6. i \in DOMAIN p /\ i + 1 \in DOMAIN p
  BY <1>1
<1>7. QED BY <1>5, <1>6

\* Who sees a row of a trip, and is one who sees roads, sees all rows of it.
LEMMA RoadsSeen ==
    ASSUME JourneyInv, NEW u, NEW c, SeesRoads(u, c),
           NEW i \in DOMAIN stored, Visible(u, c, stored[i]), stored[i].trip # None,
           NEW j \in DOMAIN stored, stored[j].trip = stored[i].trip
    PROVE  Visible(u, c, stored[j])
<1>1. stored[i] \in StoredRows /\ stored[j] \in StoredRows
  BY DEF JourneyInv
<1>2. stored[j].cistern = stored[i].cistern
  BY <1>1, RowsSay
<1>3. CASE Role[u] = "STATION_STAFF" /\ PostOf[u] # None
  BY <1>3 DEF Visible
<1>4. CASE Role[u] \in {"VERIFIER", "AUDITOR", "ADMIN"}
  BY <1>4 DEF Visible
<1>5. CASE /\ ~(Role[u] = "STATION_STAFF" /\ PostOf[u] # None)
           /\ Role[u] \notin {"VERIFIER", "AUDITOR", "ADMIN"}
  <2>1. c # None
    BY <1>5 DEF SeesRoads
  <2>2. \A s : Visible(u, c, s) <=> s.cistern = c
    BY <1>5, <2>1 DEF Visible
  <2>3. QED BY <1>2, <2>2
<1>6. QED BY <1>3, <1>4, <1>5

\* A page of a user who sees roads agrees with the road.
LEMMA PagesAgree ==
    ASSUME JourneyInv, NEW u, NEW c, SeesRoads(u, c), NEW d \in Agreed,
           <<"trip", d>> \in DOMAIN groupByJourney(listForActor(u, c))
    PROVE  PageAgrees(d, groupByJourney(listForActor(u, c))[<<"trip", d>>])
<1> DEFINE A == {i \in DOMAIN stored : Visible(u, c, stored[i])}
           listed == listForActor(u, c)
           D == {i \in DOMAIN stored : stored[i].trip = d}
           G == {i \in DOMAIN listed : GroupOf(listed[i]) = <<"trip", d>>}
           page == orderedPoints(KeptAt(listed, G))
           road == orderedPoints(KeptAt(stored, D))
           L == Len(road)
           P == Len(page)
<1>1. stored \in Seq(StoredRows) /\ Timed(stored) /\ A \in SUBSET DOMAIN stored
  BY RowsSay DEF JourneyInv, Timed
<1>2. listed \in Seq(StoredRows) /\ \E w : Newest(listed, w, stored, A)
  BY ListedAre
<1>3. groupByJourney(listed)[<<"trip", d>>] = page /\ RowsOf(d) = KeptAt(stored, D)
  BY DEF groupByJourney, RowsOf
<1>4. \A s : GroupOf(s) = <<"trip", d>> <=> s.trip # None /\ s.trip = d
  <2>1. "cistern" # "trip"
    OBVIOUS
  <2>2. QED BY <2>1 DEF GroupOf
<1>5. G # {} /\ G \in SUBSET DOMAIN listed
  BY DEF groupByJourney
<1> HIDE DEF listed
<1>6. PICK w : Newest(listed, w, stored, A)
  BY <1>2
<1>7. \A n \in DOMAIN listed : w[n] \in A /\ listed[n] = stored[w[n]]
  BY <1>6 DEF Newest
<1>8. PICK g \in G : TRUE
  BY <1>5
<1>9. d # None /\ w[g] \in D /\ w[g] \in A
  <2>1. g \in DOMAIN listed /\ listed[g].trip # None /\ listed[g].trip = d
    BY <1>4, <1>8
  <2>2. QED BY <1>1, <1>7, <2>1
<1>10. D \in SUBSET A
  BY <1>9, RoadsSeen
<1>11. G = Among(listed, w, D)
  <2>1. ASSUME NEW n \in DOMAIN listed PROVE n \in G <=> w[n] \in D
    BY <1>1, <1>4, <1>7, <1>9
  <2>2. QED BY <1>5, <2>1 DEF Among
<1> HIDE DEF A, D, G, page, road
<1>12. page \in Seq(StoredRows) /\ road \in Seq(StoredRows) /\ EndsAs(page, road)
  BY <1>1, <1>2, <1>5, <1>6, <1>10, <1>11, PageEnds DEF page, road
<1>13. /\ page \in Seq(StoredRows) /\ road \in Seq(StoredRows) /\ Timed(road) /\ InTime(road)
       /\ P \in 0..L
       /\ \A n \in DOMAIN page : /\ page[n].at = road[L - P + n].at
                                 /\ \E m \in DOMAIN road : page[n] = road[m]
  BY <1>12 DEF EndsAs
<1>14. road # << >>
  <2>1. D \in SUBSET DOMAIN stored
    BY <1>1, <1>10
  <2>2. L = Cardinality(D) /\ IsFiniteSet(D)
    <3>1. InOrder(road, stored, D)
      BY <1>1, <2>1, RowsInOrder DEF road
    <3>2. QED BY <3>1 DEF InOrder, Lists
  <2>3. L # 0
    BY <1>9, <2>2, FS_EmptySet
  <2> HIDE DEF road
  <2>4. QED BY <2>3
<1>15. /\ L \in Nat /\ P \in Nat /\ P <= L /\ DOMAIN page = 1..P /\ DOMAIN road = 1..L
  BY <1>13
<1> HIDE DEF P, L
<1>16. Times(page) = Times(SubSeq(road, L - P + 1, L))
  <2> DEFINE end == SubSeq(road, L - P + 1, L)
  <2>1. /\ DOMAIN end = 1..P
        /\ \A n \in 1..P : end[n] = road[L - P + n]
    BY <1>13, <1>15 DEF L
  <2> HIDE DEF end
  <2>2. \A n \in 1..P : page[n].at = end[n].at
    BY <1>13, <1>15, <2>1
  <2>3. QED BY <1>15, <2>1, <2>2 DEF Times, end
<1>17. ASSUME NoTies(road), L <= P PROVE page = road
  <2>1. P = L
    BY <1>15, <1>17
  <2>2. ASSUME NEW n \in 1..L PROVE page[n] = road[n]
    <3>1. L - P + n = n /\ n \in DOMAIN page /\ n \in DOMAIN road
      BY <1>15, <2>1
    <3>2. PICK m \in DOMAIN road : page[n] = road[m]
      BY <1>13, <3>1
    <3>3. road[m].at = road[n].at
      BY <1>13, <3>1, <3>2
    <3>4. m = n
      BY <1>17, <3>1, <3>3 DEF NoTies
    <3>5. QED BY <3>2, <3>4
  <2>3. QED BY <1>13, <1>15, <2>1, <2>2
<1>18. FirstOf(Leg, road) \in Seq(StoredRows) /\ (L <= Leg => FirstOf(Leg, road) = road)
       /\ \A i \in DOMAIN FirstOf(Leg, road) : /\ FirstOf(Leg, road)[i] = road[i]
                                               /\ i \in DOMAIN road
  BY <1>13, JourneyAssumption, FirstOfIs DEF L
<1>19. L <= Few => FirstOf(Few, road) = road
  BY <1>13, JourneyAssumption, FirstOfIs DEF L
<1>20. journeyFor(d) = FirstOf(Leg, road)
  BY <1>3 DEF journeyFor, road
<1>21. getBaton(road, << >>) = [volumeDrops |-> computeVolumeDrops(road),
                                qualityChanges |-> computeQualityChanges(road)]
  BY <1>14 DEF getBaton
<1>22. ASSUME NoTies(road), L <= Leg, L <= P
       PROVE  getByQr(d).volumeDrops = computeVolumeDrops(page)
  BY <1>17, <1>18, <1>20, <1>22 DEF getByQr
<1>23. ASSUME L <= Leg
       PROVE  /\ getByQr(d).volumeDrops = getBaton(road, << >>).volumeDrops
              /\ getByQr(d).qualityChanges = getBaton(road, << >>).qualityChanges
  BY <1>18, <1>20, <1>21, <1>23 DEF getByQr
<1>24. ASSUME getByQr(d).qualityChanges.water # << >>, L <= Few
       PROVE  listUnlockReport[d].water
  <2>1. PICK q : q = FirstOf(Leg, road)
    OBVIOUS
  <2>2. q \in Seq(StoredRows) /\ \A i \in DOMAIN q : q[i] = road[i] /\ i \in DOMAIN road
    BY <1>18, <2>1
  <2>3. Timed(q) /\ InTime(q)
    BY <1>13, <2>2 DEF Timed, InTime
  <2>4. \A i \in DOMAIN q : q[i].water \in BOOLEAN
    BY <2>2, RowsSay
  <2>5. computeQualityChanges(q).water # << >>
    BY <1>20, <1>24, <2>1 DEF getByQr
  <2>6. PICK i \in DOMAIN q : q[i].water
    BY <2>2, <2>3, <2>4, <2>5, WaterShows
  <2>7. i \in DOMAIN road /\ road[i].water
    BY <2>2, <2>6
  <2>8. FirstOf(Few, orderedPoints(RowsOf(d))) = road
    BY <1>3, <1>19, <1>24 DEF road
  <2>9. QED BY <2>7, <2>8 DEF listUnlockReport
<1>25. PageAgrees(d, page)
  <2>1. orderedPoints(RowsOf(d)) = road
    BY <1>3 DEF road
  <2>2. QED BY <1>16, <1>22, <1>23, <1>24, <2>1 DEF PageAgrees, L, P
<1>26. QED BY <1>3, <1>25 DEF listed

\* The pages of a list have its rows, each once, and agree with the others.
LEMMA TellersDo ==
    ASSUME JourneyInv, NEW u, NEW c
    PROVE  TellersAgree(u, c)
<1> DEFINE listed == listForActor(u, c)
           pages == groupByJourney(listed)
           h == [i \in DOMAIN listed |-> GroupOf(listed[i])]
           H == {h[i] : i \in DOMAIN listed}
           f == [g \in DOMAIN pages |-> Len(pages[g])]
<1>1. listed \in Seq(StoredRows)
  BY ListedAre
<1>2. Len(listed) \in Nat /\ DOMAIN listed = 1..Len(listed)
  BY <1>1
<1>3. /\ DOMAIN pages = H
      /\ \A g \in H : pages[g] =
           orderedPoints(KeptAt(listed, {i \in DOMAIN listed : GroupOf(listed[i]) = g}))
  BY DEF groupByJourney
<1> HIDE DEF listed, pages
<1>4. Timed(listed)
  BY <1>1, <1>2, RowsSay DEF Timed
<1>5. ASSUME NEW g \in H
      PROVE  f[g] = Cardinality({i \in DOMAIN listed : h[i] = g})
  <2> DEFINE K == {i \in DOMAIN listed : GroupOf(listed[i]) = g}
  <2>1. K \in SUBSET DOMAIN listed /\ {i \in DOMAIN listed : h[i] = g} = K
    OBVIOUS
  <2>2. f[g] = Len(orderedPoints(KeptAt(listed, K)))
    BY <1>3
  <2> HIDE DEF K, f, h, H
  <2>3. Len(orderedPoints(KeptAt(listed, K))) = Cardinality(K)
    BY <1>1, <1>4, <2>1, RowsInOrder DEF InOrder
  <2>4. QED BY <2>1, <2>2, <2>3
<1>6. IsFiniteSet(DOMAIN listed) /\ Cardinality(DOMAIN listed) = Len(listed)
  <2>1. PICK N : N = Len(listed)
    OBVIOUS
  <2>2. N \in Nat /\ DOMAIN listed = 1..N
    BY <1>2, <2>1
  <2>3. IsFiniteSet(1..N) /\ Cardinality(1..N) = N
    BY <2>2, FS_Interval
  <2>4. QED BY <2>1, <2>2, <2>3
<1>7. SumFunction(f) = SumFunctionOnSet(f, H)
  BY <1>3 DEF SumFunction
<1>8. SumFunctionOnSet(f, H) = Len(listed)
  <2>1. H = PartsBy(h, DOMAIN listed) /\ f = PartSizes(h, DOMAIN listed)
    <3>0. H = PartsBy(h, DOMAIN listed)
      BY DEF PartsBy
    <3>1. f = [g \in H |-> f[g]]
      BY <1>3
    <3> HIDE DEF f, h
    <3>2. QED BY <1>5, <3>0, <3>1 DEF PartSizes
  <2> HIDE DEF H, f, h
  <2>2. SumFunctionOnSet(f, H) = Cardinality(DOMAIN listed)
    BY <1>6, <2>1, SumOfParts
  <2>3. QED BY <1>6, <2>2
<1>9. QED BY <1>7, <1>8, PagesAgree DEF TellersAgree, listed, pages

\* Whatever is sent, in whatever order and from wherever, the road that is told adds up
\* and its tellers agree (common/journey-trail.ts, checkpoints.service.ts,
\* tramos/page.tsx): for any samples, trips and windows.
THEOREM JourneyAddsUpHolds == PortalSpec => []JourneyAddsUp
<1>1. PortalInit => JourneyInv
  BY DEF PortalInit, JourneyInit, JourneyInv
<1>2. [PortalNext]_pvars => [JourneyNext]_stored
  BY DEF PortalNext, pvars
<1>3. JourneyInv => JourneyAddsUp
  BY RoadTold, TellersDo DEF JourneyAddsUp
<1>4. QED BY <1>1, <1>2, <1>3, JourneyStep, PTL DEF PortalSpec

-------------------------------------------------------------------------------
(* The seed. *)

\* The seed's list: a reset, the rows of the world, the trips, and what closes it.
LEMMA TheList ==
    /\ Len(main) = 59
    /\ \A i \in 1..23 : main[i] = Clear(resetDemo[i])
    /\ \A i \in 24..47 : main[i] = SeedRows[i - 23]
    /\ \A i \in 48..56 : main[i] = SeedTrip(i - 47)
    /\ main[57] = deliveredByBatch /\ main[58] = Sampled /\ main[59] = FleetTrips
<1> DEFINE A == [i \in DOMAIN resetDemo |-> Clear(resetDemo[i])]
           C == [n \in DOMAIN trips |-> SeedTrip(n)]
           D == <<deliveredByBatch, Sampled, FleetTrips>>
           S == {A[i] : i \in 1..23} \cup {SeedRows[i] : i \in 1..24}
                  \cup {C[i] : i \in 1..9} \cup {D[i] : i \in 1..3}
<1>1. DOMAIN resetDemo = 1..23
  BY DEF resetDemo
<1>2. DOMAIN trips = 1..9
  BY DEF trips
<1>3. SeedRows = [i \in 1..24 |-> SeedRows[i]]
  BY DEF SeedRows
<1>4. D = [i \in 1..3 |-> D[i]] /\ D[1] = deliveredByBatch /\ D[2] = Sampled /\ D[3] = FleetTrips
  OBVIOUS
<1>5. main = ((A \o SeedRows) \o C) \o D
  BY DEF main
<1>6. A \in Seq(S) /\ C \in Seq(S) /\ SeedRows \in Seq(S) /\ D \in Seq(S)
  <2>1. A \in Seq(S)
    BY <1>1
  <2>2. C \in Seq(S)
    BY <1>2
  <2>3. SeedRows \in Seq(S)
    BY <1>3
  <2>4. D \in Seq(S)
    BY <1>4
  <2>5. QED BY <2>1, <2>2, <2>3, <2>4
<1>7. Len(A) = 23 /\ Len(C) = 9 /\ Len(SeedRows) = 24 /\ Len(D) = 3
  BY <1>1, <1>2, <1>3, <1>4
<1>8. /\ \A i \in 1..23 : A[i] = Clear(resetDemo[i])
      /\ \A i \in 1..9 : C[i] = SeedTrip(i)
  BY <1>1, <1>2
<1> HIDE DEF A, C, D, S
<1>9. PICK e : e = A \o SeedRows
  OBVIOUS
<1>10. PICK f : f = e \o C
  OBVIOUS
<1>11. main = f \o D
  BY <1>5, <1>9, <1>10
<1>12. /\ e \in Seq(S) /\ Len(e) = Len(A) + Len(SeedRows)
       /\ \A i \in 1..(Len(A) + Len(SeedRows)) :
            e[i] = IF i <= Len(A) THEN A[i] ELSE SeedRows[i - Len(A)]
  BY <1>6, <1>9, ConcatProperties, Zenon
<1>13. e \in Seq(S)
  BY <1>12
<1>14. /\ f \in Seq(S) /\ Len(f) = Len(e) + Len(C)
       /\ \A i \in 1..(Len(e) + Len(C)) : f[i] = IF i <= Len(e) THEN e[i] ELSE C[i - Len(e)]
  BY <1>6, <1>10, <1>13, ConcatProperties, Zenon
<1>15. f \in Seq(S)
  BY <1>14
<1>16. /\ Len(main) = Len(f) + Len(D)
       /\ \A i \in 1..(Len(f) + Len(D)) : main[i] = IF i <= Len(f) THEN f[i] ELSE D[i - Len(f)]
  BY <1>6, <1>11, <1>15, ConcatProperties, Zenon
<1>17. Len(e) = 47 /\ \A i \in 1..47 : e[i] = IF i <= 23 THEN A[i] ELSE SeedRows[i - 23]
  <2>1. Len(e) = Len(A) + Len(SeedRows)
    BY <1>12
  <2>2. QED BY <1>7, <1>12, <2>1
<1>18. Len(f) = 56 /\ \A i \in 1..56 : f[i] = IF i <= 47 THEN e[i] ELSE C[i - 47]
  BY <1>7, <1>14, <1>17
<1>19. Len(main) = 59 /\ \A i \in 1..59 : main[i] = IF i <= 56 THEN f[i] ELSE D[i - 56]
  BY <1>7, <1>16, <1>18
<1>20. ASSUME NEW i \in 1..23 PROVE main[i] = Clear(resetDemo[i])
  BY <1>8, <1>17, <1>18, <1>19
<1>21. ASSUME NEW i \in 24..47 PROVE main[i] = SeedRows[i - 23]
  <2>1. i \in 1..59 /\ i <= 56 /\ i \in 1..56 /\ i <= 47 /\ i \in 1..47 /\ ~(i <= 23)
    OBVIOUS
  <2>2. QED BY <1>17, <1>18, <1>19, <2>1
<1>22. ASSUME NEW i \in 48..56 PROVE main[i] = SeedTrip(i - 47)
  <2>1. i \in 1..59 /\ i <= 56 /\ i \in 1..56 /\ ~(i <= 47) /\ i - 47 \in 1..9
    OBVIOUS
  <2>2. main[i] = C[i - 47]
    BY <1>18, <1>19, <2>1
  <2>3. QED BY <1>8, <2>1, <2>2
<1>23. main[57] = deliveredByBatch /\ main[58] = Sampled /\ main[59] = FleetTrips
  <2>1. main[57] = D[57 - 56] /\ main[58] = D[58 - 56] /\ main[59] = D[59 - 56]
    BY <1>19
  <2>2. QED BY <1>4, <2>1
<1>24. QED BY <1>19, <1>20, <1>21, <1>22, <1>23

\* The tables that the first n statements of the reset have emptied.
Gone(n) == {resetDemo[j] : j \in 1..n} \cup UNION {Cascade(resetDemo[j]) : j \in 1..n}

\* No table is emptied while another's rows hold its own.
LEMMA ResetInOrder ==
    ASSUME NEW i \in 1..23, NEW link \in Forbids, link[2] = resetDemo[i]
    PROVE  link[1] \in Gone(i - 1)
<1>1. /\ resetDemo[13] = "checkpoint" /\ resetDemo[14] = "delivery"
      /\ resetDemo[15] = "cistern" /\ resetDemo[22] = "station"
      /\ \A j \in 1..14 : resetDemo[j] \notin {"cistern", "station"}
      /\ resetDemo[16] # "station"
  <2>1. \A j \in 1..14 : resetDemo[j] \notin {"cistern", "station"}
    BY DEF resetDemo
  <2>2. QED BY <2>1 DEF resetDemo
<1>2. "settlement" \in Cascade("delivery")
  BY DEF Cascade
<1>3. link[1] \in {"delivery", "checkpoint", "settlement"} /\ link[2] \in {"cistern", "station"}
  BY DEF Forbids
<1>4. 13 \in 1..(i - 1) /\ 14 \in 1..(i - 1)
  <2>1. ~(i \in 1..14)
    BY <1>1, <1>3
  <2>2. QED BY <2>1
<1>5. QED BY <1>1, <1>2, <1>3, <1>4 DEF Gone

\* The reset empties every table.
LEMMA AllGone == Tables \subseteq Gone(23)
<1>1. ASSUME NEW t \in Tables PROVE t \in Gone(23)
  <2>1. CASE t = "settlement"
    BY <2>1 DEF Gone, resetDemo, Cascade
  <2>2. CASE t # "settlement"
    <3>1. \E j \in 1..23 : resetDemo[j] = t
      BY <2>2 DEF Tables, OfBatch, resetDemo
    <3>2. QED BY <3>1 DEF Gone
  <2>3. QED BY <2>1, <2>2
<1>2. QED BY <1>1

\* A table on which no row of another depends can be emptied.
LEMMA Clears ==
    ASSUME NEW w, NEW t, \A link \in Forbids : link[2] = t => w[link[1]] = {}
    PROVE  Results(w, Clear(t)) =
             {[u \in Tables |-> IF u \in {t} \cup Cascade(t) THEN {} ELSE w[u]]}
<1>1. DOMAIN Clear(t) = {"clear"} /\ Clear(t).clear = t
  BY DEF Clear
<1>2. QED BY <1>1 DEF Results

\* Rows with keys of their own can be written.
LEMMA Inserts ==
    ASSUME NEW w, NEW lot, \A t \in DOMAIN lot : Keys(lot[t]) \cap Keys(w[t]) = {}
    PROVE  Results(w, Insert(lot)) = {Plus(w, lot)}
<1>1. DOMAIN Insert(lot) = {"insert"} /\ Insert(lot).insert = lot
  BY DEF Insert
<1>2. QED BY <1>1 DEF Results

\* Whatever changes rows is not refused.
LEMMA Changes ==
    ASSUME NEW w
    PROVE  /\ Results(w, Posted) = {Manned(w, "CBB-01")}
           /\ Results(w, deliveredByBatch) = {Booked(w, deliveredByBatch.totals)}
           /\ Results(w, Sampled) = {Watched(w)} /\ Results(w, FleetTrips) = {SentOut(w)}
<1>1. Results(w, Posted) = {Manned(w, "CBB-01")}
  <2>1. DOMAIN Posted = {"post"} /\ Posted.post = "CBB-01"
    BY DEF Posted
  <2>2. QED BY <2>1 DEF Results
<1>2. Results(w, deliveredByBatch) = {Booked(w, deliveredByBatch.totals)}
  <2>1. DOMAIN deliveredByBatch = {"totals"}
    BY DEF deliveredByBatch
  <2>2. QED BY <2>1 DEF Results
<1>3. Results(w, Sampled) = {Watched(w)}
  <2>1. DOMAIN Sampled = {"samples"}
    BY DEF Sampled
  <2>2. QED BY <2>1 DEF Results
<1>4. Results(w, FleetTrips) = {SentOut(w)}
  <2>1. DOMAIN FleetTrips = {"fleet"}
    BY DEF FleetTrips
  <2>2. QED BY <2>1 DEF Results
<1>5. QED BY <1>1, <1>2, <1>3, <1>4

\* A statement of the reset is not refused, and leaves its tables empty.
LEMMA ResetStep ==
    ASSUME NEW i \in 1..23, NEW w, \A t \in Gone(i - 1) : w[t] = {}
    PROVE  \E v : /\ Results(w, main[i]) = {v}
                  /\ v = [t \in Tables |-> v[t]]
                  /\ \A t \in Gone(i) \cap Tables : v[t] = {}
<1> DEFINE s == resetDemo[i]
<1>1. main[i] = Clear(s)
  BY TheList
<1>2. \A link \in Forbids : link[2] = s => w[link[1]] = {}
  BY ResetInOrder
<1>3. PICK v : v = [t \in Tables |-> IF t \in {s} \cup Cascade(s) THEN {} ELSE w[t]]
  OBVIOUS
<1>4. Results(w, main[i]) = {v}
  <2> HIDE DEF s
  <2>1. Results(w, Clear(s)) = {[t \in Tables |-> IF t \in {s} \cup Cascade(s) THEN {} ELSE w[t]]}
    BY <1>2, Clears
  <2>2. QED BY <1>1, <1>3, <2>1
<1>5. Gone(i) = Gone(i - 1) \cup {s} \cup Cascade(s)
  <2>1. 1..i = 1..(i - 1) \cup {i}
    OBVIOUS
  <2>2. QED BY <2>1 DEF Gone
<1>6. v = [t \in Tables |-> v[t]]
  BY <1>3
<1>7. \A t \in Gone(i) \cap Tables : v[t] = {}
  BY <1>3, <1>5
<1>8. QED BY <1>4, <1>6, <1>7

\* The statement that writes a row of a table, by the row's key.
Writer(t, k) ==
    CASE t = "user" -> 24
      [] t = "vehicle" -> 25
      [] t = "tank" -> IF k[1] = "depot" THEN 25 ELSE 26
      [] t = "station" -> 26
      [] t = "measurement" -> IF k[1] = "tank" THEN 26 ELSE IF k[3] = 181 THEN 33 ELSE 44
      [] t = "batch" -> IF k = 181 THEN 28 ELSE IF k = 182 THEN 35 ELSE 39
      [] t = "document" -> IF k[1] = 181 THEN 29 ELSE IF k[1] = 182 THEN 36 ELSE 40
      [] t \in {"authorization", "transport"} ->
           IF k[1] = 181 THEN 30 ELSE IF k[1] = 182 THEN 37 ELSE 41
      [] t \in {"customs", "sampling", "lab", "certificate"} -> IF k[1] = 181 THEN 32 ELSE 43
      [] t = "custody" -> IF k[1] = "trip" THEN 47 + k[2]
                          ELSE IF k[2] = 181 THEN 31 ELSE IF k[2] = 182 THEN 38 ELSE 42
      [] t = "anchor" -> IF k[1] = 181 THEN 34 ELSE 46
      [] t \in {"anomaly", "case", "note"} -> 45
      [] t = "cistern" -> 47
      [] OTHER -> 47 + k

\* The tables a statement writes.
Fills(n) ==
    CASE n = 24 -> {"user"}
      [] n = 25 -> {"vehicle", "tank"}
      [] n = 26 -> {"station", "tank", "measurement"}
      [] n \in {28, 35, 39} -> {"batch"}
      [] n \in {29, 36, 40} -> {"document"}
      [] n \in {30, 37, 41} -> {"authorization", "transport"}
      [] n \in {31, 38, 42} -> {"custody"}
      [] n \in {32, 43} -> {"customs", "sampling", "lab", "certificate"}
      [] n \in {33, 44} -> {"measurement"}
      [] n \in {34, 46} -> {"anchor"}
      [] n = 45 -> {"anomaly", "case", "note"}
      [] n = 47 -> {"cistern"}
      [] OTHER -> {"delivery", "baton", "custody"}

\* A statement that writes rows, and no other writes them.
Writes(n, s) ==
    /\ s = Insert(s.insert) /\ DOMAIN s.insert = Fills(n)
    /\ \A t \in DOMAIN s.insert : \A r \in s.insert[t] : Writer(t, r.key) = n

\* The rows of the seed are written by one statement each.
LEMMA RowsAreWrittenOnce ==
    /\ \A i \in 24..47 : i # 27 => Writes(i, SeedRows[i - 23])
    /\ \A n \in 1..9 : Writes(47 + n, SeedTrip(n))
<1>1. Writes(24, SeedUsers) /\ Writes(25, SeedDepot) /\ Writes(47, mkCistern)
  BY DEF Writes, Insert, SeedUsers, SeedDepot, mkCistern, Fills, Writer
<1>2. Writes(26, seedBoliviaStations)
  <2> DEFINE defs == StationsToTheNorth \cup StationsOfTheAxis \cup StationsElsewhere
  <2>1. \A d \in defs : d[1] # "depot"
    BY DEF StationsToTheNorth, StationsOfTheAxis, StationsElsewhere
  <2> HIDE DEF defs
  <2> DEFINE tanks == UNION {{[key |-> <<d[1], i>>, capacity |-> d[2][i][1], fill |-> d[2][i][2]] :
                               i \in DOMAIN d[2]} : d \in defs}
             lot == seedBoliviaStations.insert
  <2>2. \A t \in tanks : t.key[1] # "depot"
    BY <2>1
  <2> HIDE DEF tanks
  <2>3. lot = [station |-> {[key |-> d[1]] : d \in defs},
                tank |-> {[key |-> t.key, capacity |-> t.capacity,
                           stock |-> IF t.fill = NoLitres THEN 0 ELSE t.fill] : t \in tanks},
                measurement |-> {[key |-> <<"tank", t.key[1], t.key[2]>>, tank |-> t.key, litres |-> t.fill] :
                                   t \in {x \in tanks : x.fill # NoLitres}}]
    BY DEF Insert, seedBoliviaStations, defs, tanks
  <2>4. seedBoliviaStations = Insert(lot)
    BY DEF Insert, seedBoliviaStations
  <2> HIDE DEF lot
  <2>5. QED BY <2>2, <2>3, <2>4 DEF Writes, Insert, Fills, Writer
<1>3. Writes(28, Batch181) /\ Writes(35, Batch182) /\ Writes(39, Batch184)
  BY DEF Writes, Insert, Batch181, Batch182, Batch184, Fills, Writer
<1>4. /\ Writes(29, createCoreDocs(181)) /\ Writes(36, createCoreDocs(182))
      /\ Writes(40, createCoreDocs(184))
  BY DEF Writes, Insert, createCoreDocs, Sheet, Fills, Writer
<1>5. Writes(30, Permits(181)) /\ Writes(37, Permits(182)) /\ Writes(41, Permits(184))
  BY DEF Writes, Insert, Permits, Sheet, Fills, Writer
<1>6. Writes(31, HappyCustody) /\ Writes(38, seedInTransit) /\ Writes(42, AuditCustody)
  BY DEF Writes, Insert, HappyCustody, seedInTransit, AuditCustody, Custody, Fills, Writer
<1>7. Writes(32, Tested(181)) /\ Writes(43, Tested(184))
  BY DEF Writes, Insert, Tested, Sheet, Fills, Writer
<1>8. Writes(33, Sensor(181, 99940)) /\ Writes(44, Sensor(184, 98650))
  BY DEF Writes, Insert, Sensor, Fills, Writer
<1>9. Writes(34, Anchors(181, 1)) /\ Writes(46, Anchors(184, 3)) /\ Writes(45, HeldForAudit)
  BY DEF Writes, Insert, Anchors, HeldForAudit, Sheet, Fills, Writer
<1>10. ASSUME NEW n \in 1..9 PROVE Writes(47 + n, SeedTrip(n))
  BY DEF Writes, Insert, SeedTrip, Trip, Fills, Writer
<1>11. ASSUME NEW i \in 24..47, i # 27 PROVE Writes(i, SeedRows[i - 23])
  <2>1. /\ SeedRows[1] = SeedUsers /\ SeedRows[2] = SeedDepot /\ SeedRows[3] = seedBoliviaStations
        /\ SeedRows[5] = Batch181 /\ SeedRows[6] = createCoreDocs(181) /\ SeedRows[7] = Permits(181)
        /\ SeedRows[8] = HappyCustody /\ SeedRows[9] = Tested(181)
        /\ SeedRows[10] = Sensor(181, 99940) /\ SeedRows[11] = Anchors(181, 1)
        /\ SeedRows[12] = Batch182 /\ SeedRows[13] = createCoreDocs(182)
        /\ SeedRows[14] = Permits(182) /\ SeedRows[15] = seedInTransit
        /\ SeedRows[16] = Batch184 /\ SeedRows[17] = createCoreDocs(184)
        /\ SeedRows[18] = Permits(184) /\ SeedRows[19] = AuditCustody
        /\ SeedRows[20] = Tested(184) /\ SeedRows[21] = Sensor(184, 98650)
        /\ SeedRows[22] = HeldForAudit /\ SeedRows[23] = Anchors(184, 3)
        /\ SeedRows[24] = mkCistern
    BY DEF SeedRows
  <2>2. CASE i \in 24..35
    BY <1>1, <1>2, <1>3, <1>4, <1>5, <1>6, <1>7, <1>8, <1>9, <1>11, <2>1, <2>2
  <2>3. CASE i \in 36..47
    BY <1>1, <1>3, <1>4, <1>5, <1>6, <1>7, <1>8, <1>9, <2>1, <2>3
  <2>4. QED BY <2>2, <2>3
<1>12. QED BY <1>10, <1>11

\* The rows of a table that statements up to the n-th have written.
Writers(t, n) == {k \in (24..n) \ {27} : t \in DOMAIN main[k].insert}
WrittenTo(t, n) == UNION {main[k].insert[t] : k \in Writers(t, n)}

\* The world after n statements, while it is being filled, and at the end.
Filled(n) == [t \in Tables |-> WrittenTo(t, n)]
Peopled(n) == IF n < 27 THEN Filled(n) ELSE Manned(Filled(n), "CBB-01")
Seeded == SentOut(Watched(Booked(Peopled(56), deliveredByBatch.totals)))

\* Each statement between the reset and the closing ones writes its rows.
LEMMA Written == \A n \in (24..56) \ {27} : Writes(n, main[n])
<1>1. ASSUME NEW n \in 24..47, n # 27 PROVE Writes(n, main[n])
  <2>1. main[n] = SeedRows[n - 23]
    BY TheList
  <2>2. QED BY <1>1, <2>1, RowsAreWrittenOnce
<1>2. ASSUME NEW n \in 48..56 PROVE Writes(n, main[n])
  <2>1. main[n] = SeedTrip(n - 47) /\ n - 47 \in 1..9 /\ 47 + (n - 47) = n
    BY TheList
  <2>2. Writes(47 + (n - 47), SeedTrip(n - 47))
    BY <2>1, RowsAreWrittenOnce
  <2>3. QED BY <2>1, <2>2
<1>3. QED BY <1>1, <1>2

\* No row has a key another has taken.
LEMMA RowStep ==
    ASSUME NEW n \in 24..56, n # 27, NEW t \in Tables
    PROVE  /\ t \in DOMAIN main[n].insert =>
                 Keys(main[n].insert[t]) \cap Keys(WrittenTo(t, n - 1)) = {}
           /\ WrittenTo(t, n) = WrittenTo(t, n - 1)
                 \cup (IF t \in DOMAIN main[n].insert THEN main[n].insert[t] ELSE {})
<1>1. (24..n) \ {27} = ((24..(n - 1)) \ {27}) \cup {n}
  OBVIOUS
<1>2. \A k \in (24..n) \ {27} : k \in (24..56) \ {27}
  OBVIOUS
<1>3. ASSUME t \in DOMAIN main[n].insert, NEW r \in main[n].insert[t], NEW q \in WrittenTo(t, n - 1)
      PROVE  r.key # q.key
  <2>1. PICK k \in Writers(t, n - 1) : q \in main[k].insert[t]
    BY DEF WrittenTo
  <2>2. k \in (24..56) \ {27} /\ k # n /\ t \in DOMAIN main[k].insert
    BY <1>2 DEF Writers
  <2>3. Writer(t, q.key) = k
    BY <2>1, <2>2, Written DEF Writes
  <2>4. Writer(t, r.key) = n
    BY <1>2, <1>3, Written DEF Writes
  <2>5. QED BY <2>2, <2>3, <2>4
<1>4. WrittenTo(t, n) = WrittenTo(t, n - 1)
        \cup (IF t \in DOMAIN main[n].insert THEN main[n].insert[t] ELSE {})
  <2>1. Writers(t, n) = Writers(t, n - 1) \cup (IF t \in DOMAIN main[n].insert THEN {n} ELSE {})
    BY <1>1 DEF Writers
  <2>2. QED BY <2>1 DEF WrittenTo
<1>5. QED BY <1>3, <1>4 DEF Keys

\* The world is filled as it should.
LEMMA FillStep ==
    ASSUME NEW n \in 24..56
    PROVE  Results(Peopled(n - 1), main[n]) = {Peopled(n)}
<1>1. CASE n = 27
  <2>1. main[27] = Posted
    <3>1. main[27] = SeedRows[27 - 23]
      BY TheList
    <3>2. QED BY <3>1 DEF SeedRows
  <2>2. Filled(26) = Filled(27)
    <3>1. (24..26) \ {27} = (24..27) \ {27}
      OBVIOUS
    <3>2. QED BY <3>1 DEF Filled, WrittenTo, Writers
  <2>3. Peopled(26) = Filled(26) /\ Peopled(27) = Manned(Filled(27), "CBB-01")
    BY DEF Peopled
  <2>4. Results(Peopled(26), Posted) = {Manned(Peopled(26), "CBB-01")}
    BY Changes
  <2>5. QED BY <1>1, <2>1, <2>2, <2>3, <2>4
<1>2. CASE n # 27
  <2> DEFINE lot == main[n].insert
             w == Peopled(n - 1)
  <2>1. main[n] = Insert(lot) /\ DOMAIN lot \subseteq Tables /\ (n # 24 => "user" \notin DOMAIN lot)
    BY <1>2, Written DEF Writes, Fills, Tables, OfBatch
  <2>2. \A t \in Tables : t # "user" \/ n < 28 => w[t] = WrittenTo(t, n - 1)
    BY <1>2 DEF Peopled, Filled, Manned
  <2>3. ASSUME NEW t \in DOMAIN lot PROVE Keys(lot[t]) \cap Keys(w[t]) = {}
    <3>1. t \in Tables /\ (t # "user" \/ n < 28)
      BY <2>1
    <3>2. w[t] = WrittenTo(t, n - 1)
      BY <2>2, <3>1
    <3> HIDE DEF w
    <3>3. QED BY <1>2, <3>1, <3>2, RowStep
  <2>4. Plus(w, lot) = Peopled(n)
    <3>1. Plus(Filled(n - 1), lot) = Filled(n)
      <4> HIDE DEF lot
      <4>1. \A t \in Tables : WrittenTo(t, n) = WrittenTo(t, n - 1)
                                 \cup (IF t \in DOMAIN lot THEN lot[t] ELSE {})
        BY <1>2, RowStep DEF lot
      <4>2. QED BY <4>1 DEF Plus, Filled
    <3>2. CASE n < 27
      BY <3>1, <3>2 DEF Peopled
    <3>3. CASE ~(n < 27)
      <4>1. w = Manned(Filled(n - 1), "CBB-01") /\ Peopled(n) = Manned(Filled(n), "CBB-01")
        BY <1>2, <3>3 DEF Peopled
      <4>2. "user" \notin DOMAIN lot
        BY <2>1, <3>3
      <4> HIDE DEF w, lot
      <4>3. Filled(n)["user"] = Filled(n - 1)["user"]
        BY <3>1, <4>2 DEF Plus, Tables, Filled
      <4>4. QED BY <3>1, <4>1, <4>2, <4>3 DEF Plus, Manned, Filled
    <3>4. QED BY <3>2, <3>3
  <2> HIDE DEF w, lot
  <2>5. Results(w, Insert(lot)) = {Plus(w, lot)}
    BY <2>3, Inserts
  <2>6. QED BY <2>1, <2>4, <2>5 DEF w
<1>3. QED BY <1>1, <1>2

\* What holds while the seed runs: a run the API leaves alone finds the tables it has
\* passed empty, then the rows it has written and no others.
SeedInv ==
    /\ refused => touched
    /\ at \in 0..60 /\ (running => at \in 1..59)
    /\ running /\ ~touched /\ at <= 23 => \A t \in Gone(at - 1) : world[t] = {}
    /\ running /\ ~touched /\ at \in 24..57 => world = Peopled(at - 1)
    /\ ~touched /\ at \in 58..60 /\ (running \/ at = 60) =>
         LET booked == Booked(Peopled(56), deliveredByBatch.totals) IN
         world = CASE at = 58 -> booked [] at = 59 -> Watched(booked) [] at = 60 -> Seeded

\* Every step of the seed and of the API beside it keeps that.
LEMMA SeedStep == SeedInv /\ [SeedingNext]_evars => SeedInv'
<1> SUFFICES ASSUME SeedInv, [SeedingNext]_evars PROVE SeedInv'
  OBVIOUS
<1>1. CASE UNCHANGED evars
  BY <1>1 DEF SeedInv, evars
<1>2. CASE StartSeed
  <2>1. Gone(0) = {}
    BY DEF Gone
  <2>2. QED BY <1>2, <2>1 DEF SeedInv, StartSeed
<1>3. CASE Execute
  <2> DEFINE booked == Booked(Peopled(56), deliveredByBatch.totals)
  <2> HIDE DEF booked
  <2>1. at \in 1..59 /\ running /\ (refused => touched)
    BY <1>3 DEF Execute, SeedInv
  <2>0. ASSUME NEW v, Results(world, main[at]) = {v}
        PROVE  /\ world' = v /\ at' = at + 1 /\ (running' <=> at < 59)
               /\ UNCHANGED <<refused, touched>>
    <3>1. Results(world, main[at]) # {}
      BY <2>0
    <3>2. world' \in Results(world, main[at])
      BY <1>3, <3>1 DEF Execute
    <3>3. at' = at + 1 /\ running' = (at < Len(main)) /\ UNCHANGED <<refused, touched>>
      BY <1>3, <3>1, Zenon DEF Execute
    <3>4. Len(main) = 59
      BY TheList
    <3>5. running' <=> at < 59
      BY <3>3, <3>4
    <3>6. QED BY <2>0, <3>2, <3>3, <3>5
  <2>2. CASE touched
    <3>1. \/ ~running' /\ at' = at
          \/ at' = at + 1 /\ running' = (at < Len(main))
      BY <1>3, Zenon DEF Execute
    <3>2. Len(main) = 59 /\ touched' = touched
      BY <1>3, TheList DEF Execute
    <3>3. at' \in 1..60 /\ (running' => at' \in 1..59) /\ touched'
      <4>1. CASE ~running' /\ at' = at
        BY <2>1, <2>2, <3>2, <4>1
      <4>2. CASE at' = at + 1 /\ running' = (at < Len(main))
        <5>1. running' <=> at < 59
          BY <3>2, <4>2
        <5>2. at' = at + 1
          BY <4>2
        <5>3. QED BY <2>1, <2>2, <3>2, <5>1, <5>2
      <4>3. QED BY <3>1, <4>1, <4>2
    <3>4. QED BY <3>3 DEF SeedInv
  <2>3. CASE ~touched /\ at \in 1..23
    <3>1. PICK v : /\ Results(world, main[at]) = {v}
                   /\ v = [t \in Tables |-> v[t]]
                   /\ \A t \in Gone(at) \cap Tables : v[t] = {}
      <4>1. \A t \in Gone(at - 1) : world[t] = {}
        BY <2>1, <2>3 DEF SeedInv
      <4>2. QED BY <2>3, <4>1, ResetStep
    <3>2. world' = v /\ at' = at + 1 /\ running' /\ UNCHANGED <<refused, touched>>
      BY <2>0, <2>3, <3>1
    <3>3. \A j \in 1..23 : resetDemo[j] \in Tables /\ Cascade(resetDemo[j]) \subseteq Tables
      BY DEF resetDemo, Tables, OfBatch, Cascade
    <3>4. Gone(at) \subseteq Tables
      BY <2>3, <3>3 DEF Gone
    <3>5. CASE at < 23
      BY <2>1, <2>3, <3>1, <3>2, <3>4, <3>5 DEF SeedInv
    <3>6. CASE at = 23
      <4>1. v = [t \in Tables |-> {}]
        BY <3>1, <3>6, AllGone
      <4>2. Peopled(23) = [t \in Tables |-> {}]
        BY DEF Peopled, Filled, WrittenTo, Writers
      <4>3. QED BY <2>1, <2>3, <3>2, <3>6, <4>1, <4>2 DEF SeedInv
    <3>7. QED BY <2>3, <3>5, <3>6
  <2>4. CASE ~touched /\ at \in 24..56
    <3>1. world = Peopled(at - 1)
      BY <2>1, <2>4 DEF SeedInv
    <3>2. Results(world, main[at]) = {Peopled(at)}
      BY <2>4, <3>1, FillStep
    <3>3. world' = Peopled(at) /\ at' = at + 1 /\ running' /\ UNCHANGED <<refused, touched>>
      BY <2>0, <2>4, <3>2
    <3>4. at' - 1 = at /\ at' \in 25..57
      BY <2>4, <3>3
    <3>5. QED BY <2>1, <2>4, <3>3, <3>4 DEF SeedInv
  <2>5. CASE ~touched /\ at = 57
    <3>1. Results(world, main[at]) = {booked}
      BY <2>1, <2>5, Changes, TheList DEF SeedInv, booked
    <3>2. world' = booked /\ at' = 58 /\ running' /\ UNCHANGED <<refused, touched>>
      BY <2>0, <2>5, <3>1
    <3>3. QED BY <2>1, <2>5, <3>2 DEF SeedInv, booked
  <2>6. CASE ~touched /\ at = 58
    <3>1. world = booked
      BY <2>1, <2>6 DEF SeedInv, booked
    <3>2. Results(world, main[at]) = {Watched(booked)}
      BY <2>6, <3>1, Changes, TheList
    <3>3. world' = Watched(booked) /\ at' = 59 /\ running' /\ UNCHANGED <<refused, touched>>
      BY <2>0, <2>6, <3>2
    <3>4. QED BY <2>1, <2>6, <3>3 DEF SeedInv, booked
  <2>7. CASE ~touched /\ at = 59
    <3>1. world = Watched(booked)
      BY <2>1, <2>7 DEF SeedInv, booked
    <3>2. Results(world, main[at]) = {SentOut(Watched(booked))}
      BY <2>7, <3>1, Changes, TheList
    <3>3. world' = Seeded /\ at' = 60 /\ ~running' /\ UNCHANGED <<refused, touched>>
      BY <2>0, <2>7, <3>2 DEF Seeded, booked
    <3>4. QED BY <2>1, <2>7, <3>3 DEF SeedInv
  <2>8. QED BY <2>1, <2>2, <2>3, <2>4, <2>5, <2>6, <2>7
<1>4. CASE Killed
  BY <1>4 DEF SeedInv, Killed
<1>5. CASE Touch
  BY <1>5 DEF SeedInv, Touch
<1>6. QED BY <1>1, <1>2, <1>3, <1>4, <1>5 DEF SeedingNext

\* Who has written each table.
LEMMA WritersAre ==
    \A t \in Tables : Writers(t, 56) = {k \in (24..56) \ {27} : t \in Fills(k)}
<1>1. \A k \in (24..56) \ {27} : DOMAIN main[k].insert = Fills(k)
  BY Written DEF Writes
<1>2. QED BY <1>1 DEF Writers

\* The rows of the tables, once all are written.
LEMMA RowsAre ==
    /\ WrittenTo("user", 56) = SeedUsers.insert["user"]
    /\ WrittenTo("station", 56) = seedBoliviaStations.insert["station"]
    /\ WrittenTo("tank", 56) = SeedDepot.insert["tank"] \cup seedBoliviaStations.insert["tank"]
    /\ WrittenTo("measurement", 56) = seedBoliviaStations.insert["measurement"]
         \cup Sensor(181, 99940).insert["measurement"] \cup Sensor(184, 98650).insert["measurement"]
    /\ WrittenTo("batch", 56) = Batch181.insert["batch"] \cup Batch182.insert["batch"]
                              \cup Batch184.insert["batch"]
    /\ WrittenTo("custody", 56) = HappyCustody.insert["custody"] \cup seedInTransit.insert["custody"]
         \cup AuditCustody.insert["custody"] \cup UNION {SeedTrip(n).insert["custody"] : n \in 1..9}
    /\ WrittenTo("anomaly", 56) = HeldForAudit.insert["anomaly"]
    /\ WrittenTo("case", 56) = HeldForAudit.insert["case"]
    /\ WrittenTo("cistern", 56) = mkCistern.insert["cistern"]
    /\ WrittenTo("delivery", 56) = UNION {SeedTrip(n).insert["delivery"] : n \in 1..9}
    /\ WrittenTo("baton", 56) = UNION {SeedTrip(n).insert["baton"] : n \in 1..9}
    /\ WrittenTo("checkpoint", 56) = {} /\ WrittenTo("settlement", 56) = {}
<1>1. /\ main[24] = SeedUsers /\ main[25] = SeedDepot /\ main[26] = seedBoliviaStations
      /\ main[28] = Batch181 /\ main[35] = Batch182 /\ main[39] = Batch184
      /\ main[31] = HappyCustody /\ main[38] = seedInTransit /\ main[42] = AuditCustody
      /\ main[33] = Sensor(181, 99940) /\ main[44] = Sensor(184, 98650)
      /\ main[45] = HeldForAudit /\ main[47] = mkCistern
  <2>1. /\ main[24] = SeedRows[24 - 23] /\ main[25] = SeedRows[25 - 23] /\ main[26] = SeedRows[26 - 23]
        /\ main[28] = SeedRows[28 - 23] /\ main[35] = SeedRows[35 - 23] /\ main[39] = SeedRows[39 - 23]
        /\ main[31] = SeedRows[31 - 23] /\ main[38] = SeedRows[38 - 23] /\ main[42] = SeedRows[42 - 23]
        /\ main[33] = SeedRows[33 - 23] /\ main[44] = SeedRows[44 - 23]
        /\ main[45] = SeedRows[45 - 23] /\ main[47] = SeedRows[47 - 23]
    BY TheList
  <2>2. QED BY <2>1 DEF SeedRows
<1>2. /\ Writers("user", 56) = {24} /\ Writers("station", 56) = {26} /\ Writers("tank", 56) = {25, 26}
      /\ Writers("measurement", 56) = {26, 33, 44} /\ Writers("batch", 56) = {28, 35, 39}
      /\ Writers("anomaly", 56) = {45} /\ Writers("case", 56) = {45} /\ Writers("cistern", 56) = {47}
  BY WritersAre DEF Fills, Tables, OfBatch
<1>3. /\ Writers("delivery", 56) = 48..56 /\ Writers("baton", 56) = 48..56
      /\ Writers("custody", 56) = {31, 38, 42} \cup (48..56)
      /\ Writers("checkpoint", 56) = {} /\ Writers("settlement", 56) = {}
  BY WritersAre DEF Fills, Tables, OfBatch
<1>4. /\ \A k \in 48..56 : main[k] = SeedTrip(k - 47) /\ k - 47 \in 1..9
      /\ \A n \in 1..9 : n + 47 \in 48..56 /\ (n + 47) - 47 = n
  BY TheList
<1>5. \A t : UNION {main[k].insert[t] : k \in 48..56} = UNION {SeedTrip(n).insert[t] : n \in 1..9}
  BY <1>4
<1>6. QED BY <1>1, <1>2, <1>3, <1>5 DEF WrittenTo

\* A trip of the seed; a cistern with its load, and its trip if it is on its way.
Made(n) == Trip(n, trips[n])
Car(i) == [key |-> i, load |-> FleetLoad(i), driver |-> FleetDriver(i),
           batch |-> IF FleetLoad(i) > 0 THEN FleetBatch(i) ELSE 0]
Late == {i \in 1..50 : i > 4 /\ i % 3 = 0}
Sent(i) == FleetTrip(Car(i), 100 + i)

\* The nine trips, spelt out.
LEMMA MadeAre ==
    /\ Made(1) = [key |-> 1, station |-> "CBB-01", batch |-> 182, cistern |-> 3, loaded |-> 8500,
                  received |-> 8480, from |-> 46, to |-> 44]
    /\ Made(2) = [key |-> 2, station |-> "CBB-01", batch |-> 181, cistern |-> 4, loaded |-> 7200,
                  received |-> 7185, from |-> 20, to |-> 18]
    /\ Made(3) = [key |-> 3, station |-> "CBB-01", batch |-> 182, cistern |-> 1, loaded |-> 8000,
                  received |-> NoLitres, from |-> 3, to |-> 0]
    /\ Made(4) = [key |-> 4, station |-> "CBB-02", batch |-> 182, cistern |-> 3, loaded |-> 8000,
                  received |-> 7970, from |-> 40, to |-> 38]
    /\ Made(5) = [key |-> 5, station |-> "CBB-03", batch |-> 184, cistern |-> 4, loaded |-> 6500,
                  received |-> 6480, from |-> 36, to |-> 34]
    /\ Made(6) = [key |-> 6, station |-> "CBB-05", batch |-> 182, cistern |-> 3, loaded |-> 5000,
                  received |-> 4990, from |-> 52, to |-> 50]
    /\ Made(7) = [key |-> 7, station |-> "CBB-06", batch |-> 181, cistern |-> 4, loaded |-> 9000,
                  received |-> 8990, from |-> 28, to |-> 26]
    /\ Made(8) = [key |-> 8, station |-> "CBB-08", batch |-> 184, cistern |-> 3, loaded |-> 6000,
                  received |-> 5950, from |-> 24, to |-> 22]
    /\ Made(9) = [key |-> 9, station |-> "CBB-04", batch |-> 182, cistern |-> 2, loaded |-> 7500,
                  received |-> NoLitres, from |-> 5, to |-> 0]
  BY DEF Made, Trip, trips

\* What the cisterns of the fleet carry.
LEMMA LoadsAre ==
    /\ FleetLoad(1) = 8000 /\ FleetLoad(2) = 7500
    /\ \A i \in Late : /\ FleetLoad(i) \in Nat /\ FleetLoad(i) >= 5000 /\ FleetLoad(i) <= 6500
                        /\ i \in 5..50
    /\ \A i \in (3..50) \ Late : FleetLoad(i) = 0
<1>1. ASSUME NEW i \in Late
      PROVE  FleetLoad(i) \in Nat /\ FleetLoad(i) >= 5000 /\ FleetLoad(i) <= 6500 /\ i \in 5..50
  <2>1. i \in 5..50 /\ i % 3 = 0
    BY DEF Late
  <2>2. i % 7 \in 0..6
    BY <2>1
  <2>3. FleetLoad(i) = 5000 + (i % 7) * 250
    BY <2>1 DEF FleetLoad
  <2>4. QED BY <2>1, <2>2, <2>3
<1>2. ASSUME NEW i \in (3..50) \ Late PROVE FleetLoad(i) = 0
  BY DEF FleetLoad, Late
<1>3. QED BY <1>1, <1>2 DEF FleetLoad

\* The trips on their way.
Under == {Made(3), Made(9)} \cup {Sent(i) : i \in Late}

\* A trip's custody event, and its baton.
TripEvent(n) == [key |-> <<"trip", n, 0>>, batch |-> Made(n).batch,
             kind |-> IF Made(n).to > 0 THEN "RECEIVED" ELSE "IN_TRANSIT",
             hours |-> IF Made(n).to > 0 THEN Made(n).to ELSE Made(n).from,
             declared |-> Made(n).loaded,
             measured |-> IF Made(n).to > 0 THEN Made(n).received ELSE Made(n).loaded]
Baton(n) == [key |-> n, delivery |-> n,
             status |-> IF Made(n).to > 0 THEN "CONSUMED" ELSE "ACTIVE"]
DeliveredOf(b) == deliveredByBatch.totals[b]

\* The world the seed leaves.
LEMMA WorldIs ==
    /\ Seeded["user"] = {IF u.key = "estacion" THEN [u EXCEPT !.station = "CBB-01"] ELSE u :
                           u \in SeedUsers.insert["user"]}
    /\ Seeded["station"] = seedBoliviaStations.insert["station"]
    /\ Seeded["tank"] = SeedDepot.insert["tank"] \cup seedBoliviaStations.insert["tank"]
    /\ Seeded["measurement"] = seedBoliviaStations.insert["measurement"]
         \cup Sensor(181, 99940).insert["measurement"] \cup Sensor(184, 98650).insert["measurement"]
    /\ Seeded["batch"] =
         {[key |-> 181, declared |-> 100000, status |-> "COMPLETED", delivered |-> DeliveredOf(181)],
          [key |-> 182, declared |-> 150000, status |-> "IN_TRANSIT", delivered |-> DeliveredOf(182)],
          [key |-> 184, declared |-> 100000, status |-> "AUDIT_REQUIRED", delivered |-> DeliveredOf(184)]}
    /\ Seeded["custody"] = HappyCustody.insert["custody"] \cup seedInTransit.insert["custody"]
         \cup AuditCustody.insert["custody"] \cup {TripEvent(n) : n \in 1..9}
    /\ Seeded["anomaly"] = {[key |-> 1, batch |-> 184]}
    /\ Seeded["case"] = {[key |-> 1, batch |-> 184, anomaly |-> 1]}
    /\ Seeded["cistern"] = {Car(i) : i \in 1..50}
    /\ Seeded["delivery"] = {Made(n) : n \in 1..9} \cup {Sent(i) : i \in Late}
    /\ Seeded["baton"] = {Baton(n) : n \in 1..9}
    /\ Seeded["checkpoint"] = UNION {Samples3(d) : d \in Under}
    /\ Seeded["settlement"] = {}
<1> DEFINE P == Peopled(56)
           B == Booked(P, deliveredByBatch.totals)
           W == Watched(B)
<1>1. /\ P["user"] = {IF u.key = "estacion" THEN [u EXCEPT !.station = "CBB-01"] ELSE u :
                        u \in WrittenTo("user", 56)}
      /\ \A t \in Tables \ {"user"} : P[t] = WrittenTo(t, 56)
      /\ DOMAIN P = Tables
  <2>1. P = Manned(Filled(56), "CBB-01")
    BY DEF Peopled
  <2>2. QED BY <2>1 DEF Manned, Filled, Tables
<1>2. \A n \in 1..9 : /\ SeedTrip(n).insert["delivery"] = {Made(n)}
                       /\ SeedTrip(n).insert["baton"] = {Baton(n)}
                       /\ SeedTrip(n).insert["custody"] = {TripEvent(n)}
  BY DEF SeedTrip, Insert, Made, Baton, TripEvent
<1>3. /\ P["delivery"] = {Made(n) : n \in 1..9} /\ P["baton"] = {Baton(n) : n \in 1..9}
      /\ P["custody"] = HappyCustody.insert["custody"] \cup seedInTransit.insert["custody"]
           \cup AuditCustody.insert["custody"] \cup {TripEvent(n) : n \in 1..9}
  BY <1>1, <1>2, RowsAre DEF Tables, OfBatch
<1>4. P["cistern"] = {Car(i) : i \in 1..50}
  BY <1>1, RowsAre DEF Tables, mkCistern, Insert, Car
<1>5. P["checkpoint"] = {} /\ P["settlement"] = {}
  BY <1>1, RowsAre DEF Tables, OfBatch
<1> HIDE DEF P
<1>6. /\ B["batch"] = {[b EXCEPT !.delivered = DeliveredOf(b.key)] : b \in P["batch"]}
      /\ \A t \in Tables \ {"batch"} : B[t] = P[t]
      /\ DOMAIN B = Tables
  BY <1>1 DEF Booked, Tables, DeliveredOf
<1> HIDE DEF B
<1>7. OpenTrips(B) = {Made(3), Made(9)}
  <2>1. B["delivery"] = {Made(n) : n \in 1..9}
    BY <1>3, <1>6 DEF Tables, OfBatch
  <2>2. Made(3).to = 0 /\ Made(9).to = 0 /\ \A n \in (1..9) \ {3, 9} : Made(n).to # 0
    BY MadeAre
  <2>3. QED BY <2>1, <2>2 DEF OpenTrips
<1>8. /\ W["checkpoint"] = UNION {Samples3(d) : d \in {Made(3), Made(9)}}
      /\ \A t \in Tables \ {"checkpoint"} : W[t] = B[t]
      /\ OpenTrips(W) = {Made(3), Made(9)}
  <2> DEFINE seen == UNION {Samples3(d) : d \in OpenTrips(B)}
  <2>1. W = Plus(B, [checkpoint |-> seen])
    BY DEF Watched
  <2> HIDE DEF W, seen
  <2>2. W["checkpoint"] = seen /\ \A t \in Tables \ {"checkpoint"} : W[t] = B[t]
    BY <1>5, <1>6, <2>1 DEF Plus, Tables, OfBatch
  <2>3. W["delivery"] = B["delivery"]
    BY <2>2 DEF Tables, OfBatch
  <2>4. QED BY <1>7, <2>2, <2>3 DEF seen, OpenTrips
<1> HIDE DEF W
<1>9. {c \in W["cistern"] : /\ c.key > 2 /\ c.load > 0
                            /\ \A d \in OpenTrips(W) : d.cistern # c.key} = {Car(i) : i \in Late}
  <2>1. W["cistern"] = {Car(i) : i \in 1..50}
    BY <1>4, <1>6, <1>8 DEF Tables
  <2>2. \A i \in 1..50 : Car(i).key = i /\ Car(i).load = FleetLoad(i)
    BY DEF Car
  <2>3. Made(3).cistern = 1 /\ Made(9).cistern = 2
    BY MadeAre
  <2>4. ASSUME NEW i \in 1..50
        PROVE  (i > 2 /\ FleetLoad(i) > 0 /\ \A d \in OpenTrips(W) : d.cistern # i) <=> i \in Late
    <3>1. CASE i \in Late
      <4>1. i > 2 /\ i # 1 /\ i # 2 /\ FleetLoad(i) > 0
        BY <3>1, LoadsAre
      <4>2. QED BY <1>8, <2>3, <3>1, <4>1
    <3>2. CASE i \notin Late
      <4>1. i > 2 => i \in (3..50) \ Late
        BY <3>2
      <4>2. QED BY <3>2, <4>1, LoadsAre
    <3>3. QED BY <3>1, <3>2
  <2>5. Late \subseteq 1..50
    BY DEF Late
  <2> DEFINE On(c) == c.key > 2 /\ c.load > 0 /\ \A d \in OpenTrips(W) : d.cistern # c.key
  <2>6. ASSUME NEW i \in 1..50 PROVE On(Car(i)) <=> i \in Late
    <3>1. Car(i).key = i /\ Car(i).load = FleetLoad(i)
      BY <2>2
    <3>2. On(Car(i)) <=> (i > 2 /\ FleetLoad(i) > 0 /\ \A d \in OpenTrips(W) : d.cistern # i)
      BY <3>1
    <3>3. QED BY <2>4, <3>2
  <2> HIDE DEF On
  <2>7. {c \in W["cistern"] : On(c)} = {Car(i) : i \in Late}
    BY <2>1, <2>5, <2>6
  <2>8. QED BY <2>7 DEF On
<1>10. /\ Seeded["delivery"] = {Made(n) : n \in 1..9} \cup {Sent(i) : i \in Late}
       /\ Seeded["checkpoint"] = UNION {Samples3(d) : d \in Under}
       /\ \A t \in Tables \ {"delivery", "checkpoint"} : Seeded[t] = W[t]
  <2>1. PICK new : new = {Sent(i) : i \in Late}
    OBVIOUS
  <2>2. Seeded = Plus(W, [delivery |-> new, checkpoint |-> UNION {Samples3(d) : d \in new}])
    <3>1. new = {FleetTrip(c, 100 + c.key) : c \in {Car(i) : i \in Late}}
      <4>1. \A i \in Late : FleetTrip(Car(i), 100 + Car(i).key) = Sent(i)
        BY DEF Sent, Car
      <4>2. QED BY <2>1, <4>1
    <3>2. QED BY <1>9, <3>1 DEF Seeded, SentOut, W, B, P
  <2>3. /\ Seeded["delivery"] = W["delivery"] \cup new
        /\ Seeded["checkpoint"] = W["checkpoint"] \cup UNION {Samples3(d) : d \in new}
        /\ \A t \in Tables \ {"delivery", "checkpoint"} : Seeded[t] = W[t]
    BY <2>2 DEF Plus, Tables, OfBatch
  <2>4. W["delivery"] = {Made(n) : n \in 1..9}
    BY <1>3, <1>6, <1>8 DEF Tables, OfBatch
  <2>5. QED BY <1>8, <2>1, <2>3, <2>4 DEF Under
<1>11. \A t \in Tables \ {"delivery", "checkpoint", "batch"} : Seeded[t] = P[t]
  BY <1>6, <1>8, <1>10
<1>12. Seeded["batch"] = {[b EXCEPT !.delivered = DeliveredOf(b.key)] : b \in WrittenTo("batch", 56)}
  BY <1>1, <1>6, <1>8, <1>10 DEF Tables
<1>13. Seeded["batch"] =
         {[key |-> 181, declared |-> 100000, status |-> "COMPLETED", delivered |-> DeliveredOf(181)],
          [key |-> 182, declared |-> 150000, status |-> "IN_TRANSIT", delivered |-> DeliveredOf(182)],
          [key |-> 184, declared |-> 100000, status |-> "AUDIT_REQUIRED", delivered |-> DeliveredOf(184)]}
  <2>1. WrittenTo("batch", 56) =
          {[key |-> 181, declared |-> 100000, status |-> "COMPLETED", delivered |-> 0],
           [key |-> 182, declared |-> 150000, status |-> "IN_TRANSIT", delivered |-> 0],
           [key |-> 184, declared |-> 100000, status |-> "AUDIT_REQUIRED", delivered |-> 0]}
    BY RowsAre DEF Batch181, Batch182, Batch184, Insert
  <2> DEFINE x == [key |-> 181, declared |-> 100000, status |-> "COMPLETED", delivered |-> 0]
             y == [key |-> 182, declared |-> 150000, status |-> "IN_TRANSIT", delivered |-> 0]
             z == [key |-> 184, declared |-> 100000, status |-> "AUDIT_REQUIRED", delivered |-> 0]
             New(b) == [b EXCEPT !.delivered = DeliveredOf(b.key)]
  <2>2. /\ New(x) = [key |-> 181, declared |-> 100000, status |-> "COMPLETED", delivered |-> DeliveredOf(181)]
        /\ New(y) = [key |-> 182, declared |-> 150000, status |-> "IN_TRANSIT", delivered |-> DeliveredOf(182)]
        /\ New(z) = [key |-> 184, declared |-> 100000, status |-> "AUDIT_REQUIRED",
                     delivered |-> DeliveredOf(184)]
    OBVIOUS
  <2>3. WrittenTo("batch", 56) = {x, y, z} /\ Seeded["batch"] = {New(b) : b \in WrittenTo("batch", 56)}
    BY <1>12, <2>1
  <2> HIDE DEF x, y, z, New
  <2>4. Seeded["batch"] = {New(x), New(y), New(z)}
    BY <2>3
  <2>5. QED BY <2>2, <2>4
<1>14. /\ Seeded["anomaly"] = {[key |-> 1, batch |-> 184]}
       /\ Seeded["case"] = {[key |-> 1, batch |-> 184, anomaly |-> 1]}
  BY <1>1, <1>11, RowsAre DEF Tables, OfBatch, HeldForAudit, Insert
<1>15. /\ Seeded["user"] = P["user"] /\ Seeded["station"] = P["station"]
       /\ Seeded["tank"] = P["tank"] /\ Seeded["measurement"] = P["measurement"]
       /\ Seeded["custody"] = P["custody"] /\ Seeded["cistern"] = P["cistern"]
       /\ Seeded["baton"] = P["baton"] /\ Seeded["settlement"] = P["settlement"]
  BY <1>11 DEF Tables, OfBatch
<1>16. /\ P["station"] = WrittenTo("station", 56) /\ P["tank"] = WrittenTo("tank", 56)
       /\ P["measurement"] = WrittenTo("measurement", 56)
  BY <1>1 DEF Tables
<1>17. QED BY <1>1, <1>3, <1>4, <1>5, <1>10, <1>13, <1>14, <1>15, <1>16, RowsAre

\* What is on its way is with the cistern that carries it.
LEMMA UnderIs ==
    /\ OpenTrips(Seeded) = Under
    /\ \A i \in Late : /\ Sent(i).key = 100 + i /\ Sent(i).cistern = i /\ Sent(i).to = 0
                        /\ Sent(i).loaded = FleetLoad(i) /\ Sent(i).batch = FleetBatch(i)
                        /\ Sent(i).from \in 6..9
<1>1. ASSUME NEW i \in Late
      PROVE  /\ Sent(i).key = 100 + i /\ Sent(i).cistern = i /\ Sent(i).to = 0
             /\ Sent(i).loaded = FleetLoad(i) /\ Sent(i).batch = FleetBatch(i)
             /\ Sent(i).from \in 6..9
  <2>1. FleetLoad(i) > 0 /\ i \in 5..50
    BY LoadsAre
  <2>2. (100 + i) % 4 \in 0..3
    BY <2>1
  <2>3. QED BY <2>1, <2>2 DEF Sent, Car, FleetTrip, Trip
<1>2. Made(3).to = 0 /\ Made(9).to = 0 /\ \A n \in (1..9) \ {3, 9} : Made(n).to # 0
  BY MadeAre
<1>3. OpenTrips(Seeded) = Under
  BY <1>1, <1>2, WorldIs DEF OpenTrips, Under
<1>4. QED BY <1>1, <1>3

\* Every loaded cistern, and no other, is on exactly one trip, with its litres.
LEMMA FleetIsSound == world = Seeded => SoundFleet
<1> SUFFICES ASSUME world = Seeded PROVE SoundFleet
  OBVIOUS
<1>1. \A i \in 1..50 : Car(i).key = i /\ Car(i).load = FleetLoad(i)
  BY DEF Car
<1>2. /\ Made(3).cistern = 1 /\ Made(3).loaded = 8000 /\ Made(9).cistern = 2
      /\ Made(9).loaded = 7500
  BY MadeAre
<1>3. ASSUME NEW i \in 1..50, NEW open, open = {d \in Under : d.cistern = i}
      PROVE  /\ FleetLoad(i) > 0 <=> Cardinality(open) = 1
             /\ \A d \in open : d.loaded = FleetLoad(i)
  <2>1. \A j \in Late : j # 1 /\ j # 2
    BY LoadsAre
  <2>2. CASE i \in {1, 2} \/ i \in Late
    <3>1. PICK d : open = {d} /\ d.loaded = FleetLoad(i) /\ FleetLoad(i) > 0
      <4>1. CASE i = 1
        <5>1. open = {Made(3)}
          BY <1>2, <1>3, <2>1, <4>1, UnderIs DEF Under
        <5>2. QED BY <1>2, <4>1, <5>1, LoadsAre
      <4>2. CASE i = 2
        <5>1. open = {Made(9)}
          BY <1>2, <1>3, <2>1, <4>2, UnderIs DEF Under
        <5>2. QED BY <1>2, <4>2, <5>1, LoadsAre
      <4>3. CASE i \in Late
        <5>1. open = {Sent(i)}
          BY <1>2, <1>3, <2>1, <4>3, UnderIs DEF Under
        <5>2. FleetLoad(i) > 0 /\ Sent(i).loaded = FleetLoad(i)
          <6>1. FleetLoad(i) > 0
            BY <4>3, LoadsAre
          <6>2. Sent(i).loaded = FleetLoad(i)
            BY <4>3, UnderIs
          <6>3. QED BY <6>1, <6>2
        <5>3. QED BY <5>1, <5>2
      <4>4. QED BY <2>2, <4>1, <4>2, <4>3
    <3>2. Cardinality(open) = 1
      BY <3>1, FS_Singleton
    <3>3. QED BY <3>1, <3>2
  <2>3. CASE i \notin {1, 2} /\ i \notin Late
    <3>1. i \in (3..50) \ Late
      BY <2>3
    <3>2. FleetLoad(i) = 0
      BY <3>1, LoadsAre
    <3>3. open = {}
      BY <1>2, <1>3, <2>3, UnderIs DEF Under
    <3>4. Cardinality(open) = 0
      BY <3>3, FS_EmptySet
    <3>5. QED BY <3>2, <3>3, <3>4
  <2>4. QED BY <2>2, <2>3
<1>4. ASSUME NEW d \in Seeded["delivery"], NEW e \in Seeded["delivery"], d # e, d.cistern = e.cistern
      PROVE  d.to >= e.from \/ e.to >= d.from
  <2>1. \A n \in 1..9 : Made(n).cistern \in 1..4
    BY MadeAre
  <2>2. \A i \in Late : Sent(i).cistern \notin 1..4
    BY LoadsAre, UnderIs
  <2>3. CASE \E n \in 1..9 : d = Made(n)
    <3>1. PICK n \in 1..9 : d = Made(n)
      BY <2>3
    <3>2. PICK m \in 1..9 : e = Made(m)
      BY <1>4, <2>1, <2>2, <3>1, WorldIs
    <3>3. n # m /\ Made(n).cistern = Made(m).cistern
      BY <1>4, <3>1, <3>2
    <3>4. CASE Made(n).cistern = 3
      <4>1. \A k \in 1..9 : Made(k).cistern = 3 => k \in {1, 4, 6, 8}
        BY MadeAre
      <4>2. /\ Made(1).from = 46 /\ Made(1).to = 44 /\ Made(4).from = 40 /\ Made(4).to = 38
            /\ Made(6).from = 52 /\ Made(6).to = 50 /\ Made(8).from = 24 /\ Made(8).to = 22
        BY MadeAre
      <4>3. n \in {1, 4, 6, 8} /\ m \in {1, 4, 6, 8}
        BY <3>3, <3>4, <4>1
      <4>4. QED BY <3>1, <3>2, <3>3, <4>2, <4>3
    <3>5. CASE Made(n).cistern = 4
      <4>1. \A k \in 1..9 : Made(k).cistern = 4 => k \in {2, 5, 7}
        BY MadeAre
      <4>2. /\ Made(2).from = 20 /\ Made(2).to = 18 /\ Made(5).from = 36 /\ Made(5).to = 34
            /\ Made(7).from = 28 /\ Made(7).to = 26
        BY MadeAre
      <4>3. n \in {2, 5, 7} /\ m \in {2, 5, 7}
        BY <3>3, <3>5, <4>1
      <4>4. QED BY <3>1, <3>2, <3>3, <4>2, <4>3
    <3>6. CASE Made(n).cistern \in {1, 2}
      <4>1. \A k \in 1..9 : /\ Made(k).cistern = 1 => k = 3
                            /\ Made(k).cistern = 2 => k = 9
        BY MadeAre
      <4>2. QED BY <3>3, <3>6, <4>1
    <3>7. QED BY <2>1, <3>4, <3>5, <3>6
  <2>4. CASE \E i \in Late : d = Sent(i)
    <3>1. PICK i \in Late : d = Sent(i)
      BY <2>4
    <3>2. PICK j \in Late : e = Sent(j)
      BY <1>4, <2>1, <2>2, <3>1, WorldIs
    <3>3. QED BY <1>4, <3>1, <3>2, UnderIs
  <2>5. QED BY <2>3, <2>4, WorldIs
<1>5. ASSUME NEW c \in Seeded["cistern"]
      PROVE  LET open == {d \in OpenTrips(Seeded) : d.cistern = c.key} IN
             (c.load > 0 <=> Cardinality(open) = 1) /\ \A d \in open : d.loaded = c.load
  <2>1. PICK i \in 1..50 : c = Car(i)
    BY WorldIs
  <2>2. PICK open : open = {d \in Under : d.cistern = i}
    OBVIOUS
  <2>3. open = {d \in OpenTrips(Seeded) : d.cistern = c.key}
    BY <1>1, <2>1, <2>2, UnderIs
  <2>4. QED BY <1>1, <1>3, <2>1, <2>2, <2>3
<1>6. QED BY <1>4, <1>5 DEF SoundFleet

\* Tanks hold what they can, samples are of trips on their way, and whoever staffs a
\* station has one.
LEMMA RowsAreSound == world = Seeded => SoundRows
<1> SUFFICES ASSUME world = Seeded PROVE SoundRows
  OBVIOUS
<1>1. ASSUME NEW t \in Seeded["tank"] PROVE t.stock <= t.capacity
  <2> DEFINE defs == StationsToTheNorth \cup StationsOfTheAxis \cup StationsElsewhere
             tanks == UNION {{[key |-> <<d[1], i>>, capacity |-> d[2][i][1], fill |-> d[2][i][2]] :
                               i \in DOMAIN d[2]} : d \in defs}
  <2>1. \A d \in defs : \A i \in DOMAIN d[2] :
          d[2][i][1] \in Nat /\ (d[2][i][2] = NoLitres \/ d[2][i][2] <= d[2][i][1])
    <3>1. \A d \in StationsToTheNorth : \A i \in DOMAIN d[2] :
            d[2][i][1] \in Nat /\ (d[2][i][2] = NoLitres \/ d[2][i][2] <= d[2][i][1])
      BY DEF StationsToTheNorth
    <3>2. \A d \in StationsOfTheAxis : \A i \in DOMAIN d[2] :
            d[2][i][1] \in Nat /\ (d[2][i][2] = NoLitres \/ d[2][i][2] <= d[2][i][1])
      BY DEF StationsOfTheAxis
    <3>3. \A d \in StationsElsewhere : \A i \in DOMAIN d[2] :
            d[2][i][1] \in Nat /\ (d[2][i][2] = NoLitres \/ d[2][i][2] <= d[2][i][1])
      BY DEF StationsElsewhere
    <3>4. QED BY <3>1, <3>2, <3>3
  <2> HIDE DEF defs
  <2>2. \A x \in tanks : x.capacity \in Nat /\ (x.fill = NoLitres \/ x.fill <= x.capacity)
    BY <2>1
  <2>3. seedBoliviaStations.insert["tank"] =
          {[key |-> x.key, capacity |-> x.capacity,
            stock |-> IF x.fill = NoLitres THEN 0 ELSE x.fill] : x \in tanks}
    BY DEF seedBoliviaStations, Insert, defs, tanks
  <2> HIDE DEF tanks
  <2>4. SeedDepot.insert["tank"] = {[key |-> <<"depot", 1>>, capacity |-> 200000, stock |-> 160000]}
    BY DEF SeedDepot, Insert
  <2>5. CASE t \in SeedDepot.insert["tank"]
    BY <2>4, <2>5
  <2>6. CASE t \in seedBoliviaStations.insert["tank"]
    <3>1. PICK x \in tanks : t = [key |-> x.key, capacity |-> x.capacity,
                                  stock |-> IF x.fill = NoLitres THEN 0 ELSE x.fill]
      BY <2>3, <2>6
    <3>2. x.capacity \in Nat /\ (x.fill = NoLitres \/ x.fill <= x.capacity)
      BY <2>2
    <3>3. t.capacity = x.capacity /\ t.stock = IF x.fill = NoLitres THEN 0 ELSE x.fill
      BY <3>1
    <3>4. CASE x.fill = NoLitres
      <4>1. t.stock = 0
        BY <3>3, <3>4
      <4>2. QED BY <3>2, <3>3, <4>1
    <3>5. CASE x.fill # NoLitres
      <4>1. t.stock = x.fill
        BY <3>3, <3>5
      <4>2. QED BY <3>2, <3>3, <3>5, <4>1
    <3>6. QED BY <3>4, <3>5
  <2>7. QED BY <2>5, <2>6, WorldIs
<1>2. ASSUME NEW p \in Seeded["checkpoint"]
      PROVE  \E d \in OpenTrips(Seeded) : d.key = p.delivery /\ d.cistern = p.cistern /\ p.litres > 0
  <2>1. PICK d \in Under : p \in Samples3(d)
    BY WorldIs
  <2>2. d.loaded \in Nat /\ d.loaded >= 5000
    BY MadeAre, LoadsAre, UnderIs DEF Under
  <2>3. p.delivery = d.key /\ p.cistern = d.cistern /\ p.litres > 0
    BY <2>1, <2>2 DEF Samples3
  <2>4. QED BY <2>3, UnderIs
<1>3. ASSUME NEW u \in Seeded["user"]
      PROVE  u.role = "STATION_STAFF" <=> \E s \in Seeded["station"] : s.key = u.station
  <2> DEFINE defs == StationsToTheNorth \cup StationsOfTheAxis \cup StationsElsewhere
  <2>1. \A d \in defs : d[1] # "none"
    BY DEF StationsToTheNorth, StationsOfTheAxis, StationsElsewhere
  <2>2. \E d \in defs : d[1] = "CBB-01"
    <3>1. <<"CBB-01", << <<45000, 28600>>, <<32000, 12400>> >> >> \in defs
      BY DEF StationsToTheNorth
    <3> HIDE DEF defs
    <3>2. QED BY <3>1
  <2>3. Seeded["station"] = {[key |-> d[1]] : d \in defs}
    BY WorldIs DEF seedBoliviaStations, Insert
  <2> HIDE DEF defs
  <2>4. PICK v \in SeedUsers.insert["user"] :
          u = IF v.key = "estacion" THEN [v EXCEPT !.station = "CBB-01"] ELSE v
    BY WorldIs
  <2>5. PICK k, r : /\ v = [key |-> k, role |-> r, station |-> "none"]
                    /\ k = "estacion" <=> r = "STATION_STAFF"
    BY DEF SeedUsers, Insert
  <2>6. \/ u.role = "STATION_STAFF" /\ u.station = "CBB-01"
        \/ u.role # "STATION_STAFF" /\ u.station = "none"
    BY <2>4, <2>5
  <2>7. \E s \in Seeded["station"] : s.key = "CBB-01"
    <3>1. PICK d \in defs : d[1] = "CBB-01"
      BY <2>2
    <3>2. [key |-> d[1]] \in Seeded["station"] /\ [key |-> d[1]].key = d[1]
      BY <2>3
    <3>3. QED BY <3>1, <3>2
  <2>8. ASSUME NEW s \in Seeded["station"] PROVE s.key # "none"
    <3>1. PICK d \in defs : s = [key |-> d[1]]
      BY <2>3
    <3>2. s.key = d[1]
      BY <3>1
    <3>3. QED BY <2>1, <3>2
  <2>9. QED BY <2>6, <2>7, <2>8
<1>4. QED BY <1>1, <1>2, <1>3, WorldIs DEF SoundRows

\* The trips of a batch that are over, and those on their way.
Done(k) == {d \in Seeded["delivery"] : d.batch = k /\ d.to > 0}
UnderWay(k) == {d \in Seeded["delivery"] : d.batch = k /\ ~(d.to > 0)}

\* A trip is known by its key.
LEMMA KeysDiffer == \A d, e \in Seeded["delivery"] : d.key = e.key => d = e
<1>1. \A n \in 1..9 : Made(n).key = n
  BY MadeAre
<1>2. \A i \in Late : Sent(i).key = 100 + i /\ i \in 5..50
  BY LoadsAre, UnderIs
<1>3. QED BY <1>1, <1>2, WorldIs

\* The trips of each batch.
LEMMA TripsAre ==
    /\ Done(181) = {Made(2), Made(7)} /\ Done(182) = {Made(1), Made(4), Made(6)}
    /\ Done(184) = {Made(5), Made(8)}
    /\ \A k : UnderWay(k) = {d \in Under : d.batch = k}
    /\ UnderWay(181) = {}
<1>1. \A i \in Late : ~(Sent(i).to > 0)
  BY UnderIs
<1>2. /\ \A n \in (1..9) \ {3, 9} : Made(n).to > 0
      /\ ~(Made(3).to > 0) /\ ~(Made(9).to > 0)
  BY MadeAre
<1>3. /\ \A n \in (1..9) \ {3, 9} : Made(n).batch = 181 <=> n \in {2, 7}
      /\ \A n \in (1..9) \ {3, 9} : Made(n).batch = 182 <=> n \in {1, 4, 6}
      /\ \A n \in (1..9) \ {3, 9} : Made(n).batch = 184 <=> n \in {5, 8}
      /\ Made(3).batch = 182 /\ Made(9).batch = 182
  BY MadeAre
<1>4. \A k : Done(k) = {d \in {Made(n) : n \in (1..9) \ {3, 9}} : d.batch = k}
  BY <1>1, <1>2, WorldIs DEF Done
<1>5. \A k : UnderWay(k) = {d \in Under : d.batch = k}
  BY <1>1, <1>2, WorldIs DEF UnderWay, Under
<1>6. Done(181) = {Made(2), Made(7)}
  BY <1>3, <1>4
<1>7. Done(182) = {Made(1), Made(4), Made(6)}
  BY <1>3, <1>4
<1>8. Done(184) = {Made(5), Made(8)}
  BY <1>3, <1>4
<1>9. UnderWay(181) = {}
  <2>1. \A i \in Late : Sent(i).batch # 181
    BY UnderIs DEF FleetBatch
  <2>2. QED BY <1>3, <1>5, <2>1 DEF Under
<1>10. QED BY <1>5, <1>6, <1>7, <1>8, <1>9

\* What the trips have delivered, and what they have lost.
LEMMA TotalsAre ==
    /\ DeliveredOf(181) = 16175 /\ DeliveredOf(182) = 21440 /\ DeliveredOf(184) = 12430
    /\ \A k \in {181, 182, 184} : SumFunction([d \in Done(k) |-> d.received]) = DeliveredOf(k)
    /\ SumFunction([d \in Done(181) |-> d.received - d.loaded]) = -25
    /\ SumFunction([d \in Done(182) |-> d.received - d.loaded]) = -60
    /\ SumFunction([d \in Done(184) |-> d.received - d.loaded]) = -70
<1>1. /\ trips[1][2] = 182 /\ trips[2][2] = 181 /\ trips[3][2] = 182 /\ trips[4][2] = 182
      /\ trips[5][2] = 184 /\ trips[6][2] = 182 /\ trips[7][2] = 181 /\ trips[8][2] = 184
      /\ trips[9][2] = 182 /\ DOMAIN trips = 1..9
  BY DEF trips
<1>2. /\ trips[3][7] = 0 /\ trips[9][7] = 0 /\ \A n \in (1..9) \ {3, 9} : trips[n][7] > 0
  BY DEF trips
<1>3. /\ trips[1][5] = 8480 /\ trips[2][5] = 7185 /\ trips[4][5] = 7970 /\ trips[5][5] = 6480
      /\ trips[6][5] = 4990 /\ trips[7][5] = 8990 /\ trips[8][5] = 5950
  BY DEF trips
<1> DEFINE D(b) == {n \in DOMAIN trips : trips[n][2] = b /\ trips[n][7] > 0}
           f(b) == [n \in D(b) |-> trips[n][5]]
<1>4. /\ DeliveredOf(181) = SumFunction(f(181)) /\ DeliveredOf(182) = SumFunction(f(182))
      /\ DeliveredOf(184) = SumFunction(f(184))
  BY DEF DeliveredOf, deliveredByBatch
<1>5. D(181) = {2, 7} /\ D(182) = {1, 4, 6} /\ D(184) = {5, 8}
  BY <1>1, <1>2
<1>6. DeliveredOf(181) = 16175
  <2>1. f(181)[2] = 7185 /\ f(181)[7] = 8990 /\ DOMAIN f(181) = {2, 7}
    BY <1>3, <1>5
  <2> HIDE DEF D, f
  <2>2. SumFunctionOnSet(f(181), {2, 7}) = 7185 + 8990
    BY <2>1, SumOfTwo
  <2>3. QED BY <1>4, <2>1, <2>2 DEF SumFunction
<1>7. DeliveredOf(182) = 21440
  <2>1. /\ f(182)[1] = 8480 /\ f(182)[4] = 7970 /\ f(182)[6] = 4990
        /\ DOMAIN f(182) = {1, 4, 6}
    BY <1>3, <1>5
  <2> HIDE DEF D, f
  <2>2. SumFunctionOnSet(f(182), {1, 4, 6}) = 8480 + 7970 + 4990
    BY <2>1, SumOfThree
  <2>3. QED BY <1>4, <2>1, <2>2 DEF SumFunction
<1>8. DeliveredOf(184) = 12430
  <2>1. f(184)[5] = 6480 /\ f(184)[8] = 5950 /\ DOMAIN f(184) = {5, 8}
    BY <1>3, <1>5
  <2> HIDE DEF D, f
  <2>2. SumFunctionOnSet(f(184), {5, 8}) = 6480 + 5950
    BY <2>1, SumOfTwo
  <2>3. QED BY <1>4, <2>1, <2>2 DEF SumFunction
<1> HIDE DEF D, f
<1> DEFINE g(k) == [d \in Done(k) |-> d.received]
           h(k) == [d \in Done(k) |-> d.received - d.loaded]
<1>9. SumFunction(g(181)) = 16175 /\ SumFunction(h(181)) = -25
  <2>1. /\ Made(2) # Made(7) /\ g(181)[Made(2)] = 7185 /\ g(181)[Made(7)] = 8990
        /\ h(181)[Made(2)] = -15 /\ h(181)[Made(7)] = -10
        /\ DOMAIN g(181) = {Made(2), Made(7)} /\ DOMAIN h(181) = {Made(2), Made(7)}
    BY MadeAre, TripsAre
  <2> HIDE DEF g, h
  <2>2. /\ SumFunctionOnSet(g(181), {Made(2), Made(7)}) = 7185 + 8990
        /\ SumFunctionOnSet(h(181), {Made(2), Made(7)}) = (-15) + (-10)
    BY <2>1, SumOfTwo
  <2>3. QED BY <2>1, <2>2 DEF SumFunction
<1>10. SumFunction(g(182)) = 21440 /\ SumFunction(h(182)) = -60
  <2>1. /\ Made(1) # Made(4) /\ Made(4) # Made(6) /\ Made(1) # Made(6)
        /\ g(182)[Made(1)] = 8480 /\ g(182)[Made(4)] = 7970 /\ g(182)[Made(6)] = 4990
        /\ h(182)[Made(1)] = -20 /\ h(182)[Made(4)] = -30 /\ h(182)[Made(6)] = -10
        /\ DOMAIN g(182) = {Made(1), Made(4), Made(6)} /\ DOMAIN h(182) = {Made(1), Made(4), Made(6)}
    BY MadeAre, TripsAre
  <2> HIDE DEF g, h
  <2>2. /\ SumFunctionOnSet(g(182), {Made(1), Made(4), Made(6)}) = 8480 + 7970 + 4990
        /\ SumFunctionOnSet(h(182), {Made(1), Made(4), Made(6)}) = (-20) + (-30) + (-10)
    BY <2>1, SumOfThree
  <2>3. QED BY <2>1, <2>2 DEF SumFunction
<1>11. SumFunction(g(184)) = 12430 /\ SumFunction(h(184)) = -70
  <2>1. /\ Made(5) # Made(8) /\ g(184)[Made(5)] = 6480 /\ g(184)[Made(8)] = 5950
        /\ h(184)[Made(5)] = -20 /\ h(184)[Made(8)] = -50
        /\ DOMAIN g(184) = {Made(5), Made(8)} /\ DOMAIN h(184) = {Made(5), Made(8)}
    BY MadeAre, TripsAre
  <2> HIDE DEF g, h
  <2>2. /\ SumFunctionOnSet(g(184), {Made(5), Made(8)}) = 6480 + 5950
        /\ SumFunctionOnSet(h(184), {Made(5), Made(8)}) = (-20) + (-50)
    BY <2>1, SumOfTwo
  <2>3. QED BY <2>1, <2>2 DEF SumFunction
<1>12. QED BY <1>6, <1>7, <1>8, <1>9, <1>10, <1>11

\* What is on its way of a batch is no more than ten loads.
LEMMA Promised ==
    ASSUME NEW k \in {181, 182, 184}
    PROVE  /\ SumFunction([d \in UnderWay(k) |-> d.loaded]) \in Nat
           /\ SumFunction([d \in UnderWay(k) |-> d.loaded]) <= 80000
<1> DEFINE f == [d \in UnderWay(k) |-> d.loaded]
<1>1. \A d \in UnderWay(k) : f[d] \in Nat /\ f[d] <= 8000
  <2>2. \A i \in Late : Sent(i).loaded \in Nat /\ Sent(i).loaded <= 8000
    BY LoadsAre, UnderIs
  <2>3. Made(3).loaded = 8000 /\ Made(9).loaded = 7500
    BY MadeAre
  <2>4. \A d \in Under : d.loaded \in Nat /\ d.loaded <= 8000
    BY <2>2, <2>3 DEF Under
  <2>5. QED BY <2>4, TripsAre
<1>2. \E g : \A d \in UnderWay(k) : \E j \in 1..10 : d = g[j]
  <2>1. CASE k = 181
    BY <2>1, TripsAre
  <2>2. CASE k = 182
    <3> DEFINE g == [j \in 1..10 |-> IF j = 9 THEN Made(3) ELSE IF j = 10 THEN Made(9) ELSE Sent(6 * j)]
    <3>1. ASSUME NEW i \in Late, Sent(i).batch = 182 PROVE \E j \in 1..8 : i = 6 * j
      <4>1. i \in 5..50 /\ i % 3 = 0
        BY DEF Late
      <4>2. i % 2 = 0
        BY <3>1, <4>1, UnderIs DEF FleetBatch
      <4>3. i \in {6, 12, 18, 24, 30, 36, 42, 48}
        BY <4>1, <4>2
      <4>4. QED BY <4>3
    <3>2. \A j \in 1..8 : g[j] = Sent(6 * j)
      OBVIOUS
    <3>3. g[9] = Made(3) /\ g[10] = Made(9)
      OBVIOUS
    <3> HIDE DEF g
    <3>4. ASSUME NEW d \in UnderWay(182) PROVE \E j \in 1..10 : d = g[j]
      <4>1. CASE d = Made(3)
        BY <3>3, <4>1
      <4>2. CASE d = Made(9)
        BY <3>3, <4>2
      <4>3. CASE \E i \in Late : d = Sent(i)
        <5>1. PICK i \in Late : d = Sent(i) /\ Sent(i).batch = 182
          BY <4>3, TripsAre
        <5>2. PICK j \in 1..8 : i = 6 * j
          BY <3>1, <5>1
        <5>3. j \in 1..10
          OBVIOUS
        <5>4. d = g[j]
          BY <3>2, <5>1, <5>2
        <5>5. QED BY <5>3, <5>4
      <4>4. QED BY <4>1, <4>2, <4>3, TripsAre DEF Under
    <3>5. QED BY <2>2, <3>4
  <2>3. CASE k = 184
    <3> DEFINE g == [j \in 1..10 |-> Sent(6 * j + 3)]
    <3>1. ASSUME NEW i \in Late, Sent(i).batch = 184 PROVE \E j \in 1..10 : i = 6 * j + 3
      <4>1. i \in 5..50 /\ i % 3 = 0
        BY DEF Late
      <4>2. i % 2 # 0
        BY <3>1, <4>1, UnderIs DEF FleetBatch
      <4>3. i \in {9, 15, 21, 27, 33, 39, 45}
        BY <4>1, <4>2
      <4>4. QED BY <4>3
    <3>2. \A j \in 1..10 : g[j] = Sent(6 * j + 3)
      OBVIOUS
    <3> HIDE DEF g
    <3>3. Made(3).batch = 182 /\ Made(9).batch = 182
      BY MadeAre
    <3>4. ASSUME NEW d \in UnderWay(184) PROVE \E j \in 1..10 : d = g[j]
      <4>1. PICK i \in Late : d = Sent(i) /\ Sent(i).batch = 184
        BY <3>3, TripsAre DEF Under
      <4>2. PICK j \in 1..10 : i = 6 * j + 3
        BY <3>1, <4>1
      <4>3. QED BY <3>2, <4>1, <4>2
    <3>5. QED BY <2>3, <3>4
  <2>4. QED BY <2>1, <2>2, <2>3
<1>3. IsFiniteSet(UnderWay(k)) /\ Cardinality(UnderWay(k)) \in Nat /\ Cardinality(UnderWay(k)) <= 10
  <2>1. PICK g, n : n \in Nat /\ n = 10 /\ \A d \in UnderWay(k) : \E j \in 1..n : d = g[j]
    BY <1>2
  <2>2. IsFiniteSet(UnderWay(k)) /\ Cardinality(UnderWay(k)) \in Nat /\ Cardinality(UnderWay(k)) <= n
    BY <2>1, NamedBy
  <2>3. QED BY <2>1, <2>2
<1>4. SumFunction(f) = SumFunctionOnSet(f, UnderWay(k))
  BY DEF SumFunction
<1> HIDE DEF f
<1>5. SumFunctionOnSet(f, UnderWay(k)) \in Nat /\ SumFunctionOnSet(f, UnderWay(k)) <= 8000 * Cardinality(UnderWay(k))
  BY <1>1, <1>3, SumOfLoads
<1>6. SumFunction(f) \in Nat /\ SumFunction(f) <= 80000
  BY <1>3, <1>4, <1>5
<1>7. QED BY <1>6 DEF f

\* A batch's custody events, and the receptions among them.
Events(k) == {e \in Seeded["custody"] : e.batch = k}
Received(k) == {e \in Events(k) : e.kind = "RECEIVED"}

\* When the custody events of each batch happened: its own, and those of its trips.
LEMMA EventsAre ==
    ASSUME NEW k \in {181, 182, 184}
    PROVE  /\ \A e \in Events(k) : e.hours \in Nat
           /\ \A e, f \in Events(k) : e.hours = f.hours => e = f
<1>1. \A n \in 1..9 : TripEvent(n).batch = Made(n).batch
  BY DEF TripEvent
<1>2. /\ TripEvent(1).hours = 44 /\ TripEvent(2).hours = 18 /\ TripEvent(3).hours = 3 /\ TripEvent(4).hours = 38
      /\ TripEvent(5).hours = 34 /\ TripEvent(6).hours = 50 /\ TripEvent(7).hours = 26 /\ TripEvent(8).hours = 22
      /\ TripEvent(9).hours = 5
  BY MadeAre DEF TripEvent
<1>3. /\ Made(1).batch = 182 /\ Made(2).batch = 181 /\ Made(3).batch = 182 /\ Made(4).batch = 182
      /\ Made(5).batch = 184 /\ Made(6).batch = 182 /\ Made(7).batch = 181 /\ Made(8).batch = 184
      /\ Made(9).batch = 182
  BY MadeAre
<1>4. CASE k = 181
  <2>1. Events(k) = HappyCustody.insert["custody"] \cup {TripEvent(2), TripEvent(7)}
    <3>1. \A e \in HappyCustody.insert["custody"] : e.batch = 181
      BY DEF HappyCustody, Custody, Insert
    <3>2. \A e \in seedInTransit.insert["custody"] : e.batch = 182
      BY DEF seedInTransit, Custody, Insert
    <3>3. \A e \in AuditCustody.insert["custody"] : e.batch = 184
      BY DEF AuditCustody, Custody, Insert
    <3>4. QED BY <1>1, <1>3, <1>4, <3>1, <3>2, <3>3, WorldIs DEF Events
  <2>2. \A e \in HappyCustody.insert["custody"] : e.hours \in Nat /\ e.hours \notin {18, 26}
    BY DEF HappyCustody, Custody, Insert
  <2>3. \A e, f \in HappyCustody.insert["custody"] : e.hours = f.hours => e = f
    BY DEF HappyCustody, Custody, Insert
  <2>4. QED BY <1>2, <2>1, <2>2, <2>3
<1>5. CASE k = 182
  <2>1. Events(k) = seedInTransit.insert["custody"]
                      \cup {TripEvent(1), TripEvent(3), TripEvent(4), TripEvent(6), TripEvent(9)}
    <3>1. \A e \in HappyCustody.insert["custody"] : e.batch = 181
      BY DEF HappyCustody, Custody, Insert
    <3>2. \A e \in seedInTransit.insert["custody"] : e.batch = 182
      BY DEF seedInTransit, Custody, Insert
    <3>3. \A e \in AuditCustody.insert["custody"] : e.batch = 184
      BY DEF AuditCustody, Custody, Insert
    <3>4. QED BY <1>1, <1>3, <1>5, <3>1, <3>2, <3>3, WorldIs DEF Events
  <2>2. \A e \in seedInTransit.insert["custody"] : e.hours \in Nat /\ e.hours \notin {44, 3, 38, 50, 5}
    BY DEF seedInTransit, Custody, Insert
  <2>3. \A e, f \in seedInTransit.insert["custody"] : e.hours = f.hours => e = f
    BY DEF seedInTransit, Custody, Insert
  <2>4. QED BY <1>2, <2>1, <2>2, <2>3
<1>6. CASE k = 184
  <2>1. Events(k) = AuditCustody.insert["custody"] \cup {TripEvent(5), TripEvent(8)}
    <3>1. \A e \in HappyCustody.insert["custody"] : e.batch = 181
      BY DEF HappyCustody, Custody, Insert
    <3>2. \A e \in seedInTransit.insert["custody"] : e.batch = 182
      BY DEF seedInTransit, Custody, Insert
    <3>3. \A e \in AuditCustody.insert["custody"] : e.batch = 184
      BY DEF AuditCustody, Custody, Insert
    <3>4. QED BY <1>1, <1>3, <1>6, <3>1, <3>2, <3>3, WorldIs DEF Events
  <2>2. \A e \in AuditCustody.insert["custody"] : e.hours \in Nat /\ e.hours \notin {34, 22}
    BY DEF AuditCustody, Custody, Insert
  <2>3. \A e, f \in AuditCustody.insert["custody"] : e.hours = f.hours => e = f
    BY DEF AuditCustody, Custody, Insert
  <2>4. QED BY <1>2, <2>1, <2>2, <2>3
<1>7. QED BY <1>4, <1>5, <1>6

\* What the depot received of the first and the third batch.
Stored181 == [key |-> <<"own", 181, 60>>, batch |-> 181, kind |-> "RECEIVED", hours |-> 60,
              declared |-> 100000, measured |-> 99950]
Stored184 == [key |-> <<"own", 184, 100>>, batch |-> 184, kind |-> "RECEIVED", hours |-> 100,
              declared |-> 100000, measured |-> 99900]

\* The receptions of each batch, the latest first.
LEMMA ReceivedAre ==
    /\ Received(181) = {TripEvent(2), TripEvent(7), Stored181}
    /\ Received(182) = {TripEvent(4), TripEvent(1), TripEvent(6)}
    /\ Received(184) = {TripEvent(8), TripEvent(5), Stored184}
<1>1. \A n \in 1..9 : TripEvent(n).batch = Made(n).batch
  BY DEF TripEvent
<1>2. /\ \A n \in (1..9) \ {3, 9} : TripEvent(n).kind = "RECEIVED"
      /\ TripEvent(3).kind # "RECEIVED" /\ TripEvent(9).kind # "RECEIVED"
  BY MadeAre DEF TripEvent
<1>3. /\ Made(1).batch = 182 /\ Made(2).batch = 181 /\ Made(3).batch = 182 /\ Made(4).batch = 182
      /\ Made(5).batch = 184 /\ Made(6).batch = 182 /\ Made(7).batch = 181 /\ Made(8).batch = 184
      /\ Made(9).batch = 182
  BY MadeAre
<1> DEFINE H == HappyCustody.insert["custody"]
           I == seedInTransit.insert["custody"]
           A == AuditCustody.insert["custody"]
<1>4. \A e \in H : e.batch = 181 /\ (e.kind = "RECEIVED" => e = Stored181)
  BY DEF HappyCustody, Custody, Insert, Stored181
<1>5. \A e \in I : e.batch = 182 /\ e.kind # "RECEIVED"
  BY DEF seedInTransit, Custody, Insert
<1>6. \A e \in A : e.batch = 184 /\ (e.kind = "RECEIVED" => e = Stored184)
  BY DEF AuditCustody, Custody, Insert, Stored184
<1>7. Stored181 \in H
  BY DEF HappyCustody, Custody, Insert, Stored181
<1>8. Stored184 \in A
  BY DEF AuditCustody, Custody, Insert, Stored184
<1>9. /\ Stored181.batch = 181 /\ Stored181.kind = "RECEIVED"
      /\ Stored184.batch = 184 /\ Stored184.kind = "RECEIVED"
  BY DEF Stored181, Stored184
<1>10. Seeded["custody"] = H \cup I \cup A \cup {TripEvent(n) : n \in 1..9}
  BY WorldIs
<1> HIDE DEF H, I, A
<1>11. \A k : Received(k) = {e \in H \cup I \cup A \cup {TripEvent(n) : n \in 1..9} :
                                 e.batch = k /\ e.kind = "RECEIVED"}
  BY <1>10 DEF Received, Events
<1>12. Received(181) = {TripEvent(2), TripEvent(7), Stored181}
  BY <1>1, <1>2, <1>3, <1>4, <1>5, <1>6, <1>7, <1>9, <1>11
<1>13. Received(182) = {TripEvent(4), TripEvent(1), TripEvent(6)}
  BY <1>1, <1>2, <1>3, <1>4, <1>5, <1>6, <1>9, <1>11
<1>14. Received(184) = {TripEvent(8), TripEvent(5), Stored184}
  BY <1>1, <1>2, <1>3, <1>4, <1>5, <1>6, <1>8, <1>9, <1>11
<1>15. QED BY <1>12, <1>13, <1>14

\* A passport reads the custody events of its batch, by their times.
LEMMA LogIs ==
    ASSUME world = Seeded, NEW k \in {181, 182, 184}
    PROVE  /\ \A t \in DOMAIN Eventlog(k) : \E e \in Events(k) : t = -e.hours
           /\ \A e \in Events(k) : -e.hours \in DOMAIN Eventlog(k) /\ Eventlog(k)[-e.hours] = e
<1> DEFINE E == {e \in world["custody"] : e.batch = k}
<1>1. E = Events(k)
  BY DEF Events
<1>2. Eventlog(k) = [time \in {-e.hours : e \in E} |-> CHOOSE e \in E : e.hours = -time]
  BY DEF Eventlog
<1> HIDE DEF E
<1>3. DOMAIN Eventlog(k) = {-e.hours : e \in Events(k)}
  BY <1>1, <1>2
<1>4. ASSUME NEW e \in Events(k) PROVE Eventlog(k)[-e.hours] = e
  <2>1. -e.hours \in {-f.hours : f \in E} /\ e \in E
    BY <1>1
  <2>2. Eventlog(k)[-e.hours] = CHOOSE f \in E : f.hours = -(-e.hours)
    BY <1>2, <2>1
  <2>3. e.hours \in Nat /\ -(-e.hours) = e.hours
    BY EventsAre
  <2>4. \A f \in E : f.hours = e.hours => f = e
    BY <1>1, <2>1, EventsAre
  <2>5. (CHOOSE f \in E : f.hours = e.hours) = e
    BY <2>1, <2>4
  <2>6. QED BY <2>2, <2>3, <2>5
<1>5. QED BY <1>3, <1>4

\* What is made of three receptions: the latest is what was received, each is a
\* movement, and what they lack adds up.
LEMMA ThreeReceptions ==
    ASSUME NEW log, NEW p \in Int, NEW q \in Int, NEW r \in Int, q < p, r < q,
           {j \in DOMAIN log : log[j].kind = "RECEIVED"} = {p, q, r},
           log[p].measured \in Nat, log[p].declared \in Nat,
           log[q].measured \in Nat, log[q].declared \in Nat,
           log[r].measured \in Nat, log[r].declared \in Nat
    PROVE  /\ volumeFromCustody(log, "RECEIVED") = log[p].measured
           /\ Cardinality(DOMAIN reconcileReceivedEvents(log)) = 3
           /\ MovementGap(log) = (log[p].measured - log[p].declared)
                + (log[q].measured - log[q].declared) + (log[r].measured - log[r].declared)
<1> DEFINE times == {j \in DOMAIN log : log[j].kind = "RECEIVED"}
<1>1. times = {p, q, r}
  OBVIOUS
<1>2. p # q /\ q # r /\ p # r
  OBVIOUS
<1>3. Cardinality(DOMAIN reconcileReceivedEvents(log)) = 3
  <2>1. DOMAIN reconcileReceivedEvents(log) = times
    BY DEF reconcileReceivedEvents
  <2>2. Cardinality({p, q, r}) = 3
    BY <1>2, ThreeThings, Zenon
  <2>3. QED BY <1>1, <2>1, <2>2
<1>4. \A i \in times : log[i].measured # NoLitres /\ log[i].declared # NoLitres
  BY <1>1 DEF NoLitres
<1>5. volumeFromCustody(log, "RECEIVED") = log[p].measured
  <2> DEFINE given == {i \in DOMAIN log : /\ log[i].kind = "RECEIVED"
                                         /\ {log[i].measured, log[i].declared} # {NoLitres}}
             last == log[CHOOSE i \in given : \A j \in given : j <= i]
  <2>1. given = {p, q, r}
    <3>1. \A i \in times : {log[i].measured, log[i].declared} # {NoLitres}
      BY <1>4
    <3>2. given = times
      BY <3>1
    <3>3. QED BY <1>1, <3>2
  <2>2. volumeFromCustody(log, "RECEIVED") =
          CASE given = {} -> NoLitres
            [] given # {} /\ last.measured # NoLitres -> last.measured
            [] OTHER -> last.declared
    BY DEF volumeFromCustody
  <2>3. (CHOOSE i \in given : \A j \in given : j <= i) = p
    <3> HIDE DEF given
    <3>1. p \in given /\ \A j \in given : j <= p
      BY <2>1
    <3>2. \A i \in given : (\A j \in given : j <= i) => i = p
      BY <2>1
    <3>3. QED BY <3>1, <3>2
  <2> HIDE DEF given
  <2>4. last = log[p]
    BY <2>3
  <2> HIDE DEF last
  <2>5. given # {} /\ log[p].measured # NoLitres
    BY <1>1, <1>4, <2>1
  <2>6. QED BY <2>2, <2>4, <2>5
<1>6. MovementGap(log) = (log[p].measured - log[p].declared)
        + (log[q].measured - log[q].declared) + (log[r].measured - log[r].declared)
  <2> DEFINE complete == {i \in DOMAIN log :
                            /\ log[i].kind = "RECEIVED"
                            /\ NoLitres \notin {log[i].measured, log[i].declared}}
             f == [i \in complete |-> log[i].measured - log[i].declared]
  <2>1. complete = {p, q, r}
    <3>1. \A i \in times : NoLitres \notin {log[i].measured, log[i].declared}
      BY <1>4
    <3>2. complete = times
      BY <3>1
    <3>3. QED BY <1>1, <3>2
  <2>2. MovementGap(log) = SumFunction(f)
    BY DEF MovementGap
  <2>3. DOMAIN f = {p, q, r}
    BY <2>1
  <2>4. /\ f[p] = log[p].measured - log[p].declared /\ f[q] = log[q].measured - log[q].declared
        /\ f[r] = log[r].measured - log[r].declared
    BY <2>1
  <2> HIDE DEF f, complete
  <2>5. f[p] \in Int /\ f[q] \in Int /\ f[r] \in Int
    BY <2>4
  <2>6. SumFunction(f) = f[p] + f[q] + f[r]
    BY <1>2, <2>3, <2>5, SumOverThree
  <2>7. QED BY <2>2, <2>4, <2>6
<1>7. QED BY <1>3, <1>5, <1>6

\* The same of a batch's three receptions, the latest first.
LEMMA Receptions ==
    ASSUME world = Seeded, NEW k, k \in {181, 182, 184}, NEW a, NEW b, NEW c,
           Received(k) = {a, b, c}, a.hours < b.hours, b.hours < c.hours,
           a.measured \in Nat, a.declared \in Nat, b.measured \in Nat, b.declared \in Nat,
           c.measured \in Nat, c.declared \in Nat
    PROVE  /\ volumeFromCustody(Eventlog(k), "RECEIVED") = a.measured
           /\ Cardinality(DOMAIN reconcileReceivedEvents(Eventlog(k))) = 3
           /\ MovementGap(Eventlog(k)) = (a.measured - a.declared) + (b.measured - b.declared)
                                           + (c.measured - c.declared)
<1>1. /\ a \in Events(k) /\ b \in Events(k) /\ c \in Events(k)
      /\ a.kind = "RECEIVED" /\ b.kind = "RECEIVED" /\ c.kind = "RECEIVED"
      /\ \A e \in Events(k) : e.kind = "RECEIVED" => e = a \/ e = b \/ e = c
  BY DEF Received
<1>2. PICK log : /\ log = Eventlog(k)
                 /\ \A t \in DOMAIN log : \E e \in Events(k) : t = -e.hours
                 /\ \A e \in Events(k) : -e.hours \in DOMAIN log /\ log[-e.hours] = e
  <2>1. PICK log : log = Eventlog(k)
    OBVIOUS
  <2>2. QED BY <2>1, LogIs
<1>3. a.hours \in Nat /\ b.hours \in Nat /\ c.hours \in Nat
  BY <1>1, EventsAre
<1>4. PICK p, q, r : p = -a.hours /\ q = -b.hours /\ r = -c.hours
  OBVIOUS
<1>5. p \in Int /\ q \in Int /\ r \in Int /\ q < p /\ r < q
  BY <1>3, <1>4
<1>6. log[p] = a /\ log[q] = b /\ log[r] = c
  BY <1>1, <1>2, <1>4
<1>7. {j \in DOMAIN log : log[j].kind = "RECEIVED"} = {p, q, r}
  <2>1. ASSUME NEW t \in DOMAIN log, log[t].kind = "RECEIVED" PROVE t = p \/ t = q \/ t = r
    <3>1. PICK e \in Events(k) : t = -e.hours
      BY <1>2
    <3>2. e.kind = "RECEIVED"
      BY <1>2, <2>1, <3>1
    <3>3. QED BY <1>1, <1>4, <3>1, <3>2
  <2>2. p \in DOMAIN log /\ q \in DOMAIN log /\ r \in DOMAIN log
    BY <1>1, <1>2, <1>4
  <2>3. QED BY <1>1, <1>6, <2>1, <2>2
<1>8. /\ volumeFromCustody(log, "RECEIVED") = log[p].measured
      /\ Cardinality(DOMAIN reconcileReceivedEvents(log)) = 3
      /\ MovementGap(log) = (log[p].measured - log[p].declared)
           + (log[q].measured - log[q].declared) + (log[r].measured - log[r].declared)
  BY <1>5, <1>6, <1>7, ThreeReceptions
<1>9. QED BY <1>2, <1>6, <1>8

\* What the depot itself received of a batch, and what that lacked.
Own(k, declared) == {e \in Received(k) : e.declared = declared}

\* The passports of the three batches.
LEMMA PassportsAre ==
    ASSUME world = Seeded
    PROVE  /\ volumeFromCustody(Eventlog(181), "RECEIVED") = 7185
           /\ volumeFromCustody(Eventlog(182), "RECEIVED") = 7970
           /\ volumeFromCustody(Eventlog(184), "RECEIVED") = 5950
           /\ \A k \in {181, 182, 184} : Cardinality(DOMAIN reconcileReceivedEvents(Eventlog(k))) = 3
           /\ MovementGap(Eventlog(181)) = -75 /\ MovementGap(Eventlog(182)) = -60
           /\ MovementGap(Eventlog(184)) = -170
           /\ Own(181, 100000) = {Stored181} /\ Own(182, 150000) = {}
           /\ Own(184, 100000) = {Stored184}
<1>1. /\ TripEvent(1).hours = 44 /\ TripEvent(1).declared = 8500 /\ TripEvent(1).measured = 8480
      /\ TripEvent(2).hours = 18 /\ TripEvent(2).declared = 7200 /\ TripEvent(2).measured = 7185
      /\ TripEvent(4).hours = 38 /\ TripEvent(4).declared = 8000 /\ TripEvent(4).measured = 7970
      /\ TripEvent(5).hours = 34 /\ TripEvent(5).declared = 6500 /\ TripEvent(5).measured = 6480
      /\ TripEvent(6).hours = 50 /\ TripEvent(6).declared = 5000 /\ TripEvent(6).measured = 4990
      /\ TripEvent(7).hours = 26 /\ TripEvent(7).declared = 9000 /\ TripEvent(7).measured = 8990
      /\ TripEvent(8).hours = 22 /\ TripEvent(8).declared = 6000 /\ TripEvent(8).measured = 5950
  BY MadeAre DEF TripEvent
<1>2. /\ Stored181.hours = 60 /\ Stored181.declared = 100000 /\ Stored181.measured = 99950
      /\ Stored184.hours = 100 /\ Stored184.declared = 100000 /\ Stored184.measured = 99900
  BY DEF Stored181, Stored184
<1>3. /\ volumeFromCustody(Eventlog(181), "RECEIVED") = 7185
      /\ Cardinality(DOMAIN reconcileReceivedEvents(Eventlog(181))) = 3
      /\ MovementGap(Eventlog(181)) = -75
  <2>1. PICK a, b, c : a = TripEvent(2) /\ b = TripEvent(7) /\ c = Stored181
    OBVIOUS
  <2>2. /\ a.hours < b.hours /\ b.hours < c.hours
        /\ a.measured \in Nat /\ a.declared \in Nat /\ b.measured \in Nat /\ b.declared \in Nat
        /\ c.measured \in Nat /\ c.declared \in Nat
    BY <1>1, <1>2, <2>1
  <2>3. Received(181) = {a, b, c}
    BY <2>1, ReceivedAre
  <2>4. /\ volumeFromCustody(Eventlog(181), "RECEIVED") = a.measured
        /\ Cardinality(DOMAIN reconcileReceivedEvents(Eventlog(181))) = 3
        /\ MovementGap(Eventlog(181)) = (a.measured - a.declared) + (b.measured - b.declared)
                                           + (c.measured - c.declared)
    BY <2>2, <2>3, Receptions
  <2>5. QED BY <1>1, <1>2, <2>1, <2>4
<1>4. /\ volumeFromCustody(Eventlog(182), "RECEIVED") = 7970
      /\ Cardinality(DOMAIN reconcileReceivedEvents(Eventlog(182))) = 3
      /\ MovementGap(Eventlog(182)) = -60
  <2>1. PICK a, b, c : a = TripEvent(4) /\ b = TripEvent(1) /\ c = TripEvent(6)
    OBVIOUS
  <2>2. /\ a.hours < b.hours /\ b.hours < c.hours
        /\ a.measured \in Nat /\ a.declared \in Nat /\ b.measured \in Nat /\ b.declared \in Nat
        /\ c.measured \in Nat /\ c.declared \in Nat
    BY <1>1, <2>1
  <2>3. Received(182) = {a, b, c}
    BY <2>1, ReceivedAre
  <2>4. /\ volumeFromCustody(Eventlog(182), "RECEIVED") = a.measured
        /\ Cardinality(DOMAIN reconcileReceivedEvents(Eventlog(182))) = 3
        /\ MovementGap(Eventlog(182)) = (a.measured - a.declared) + (b.measured - b.declared)
                                           + (c.measured - c.declared)
    BY <2>2, <2>3, Receptions
  <2>5. QED BY <1>1, <2>1, <2>4
<1>5. /\ volumeFromCustody(Eventlog(184), "RECEIVED") = 5950
      /\ Cardinality(DOMAIN reconcileReceivedEvents(Eventlog(184))) = 3
      /\ MovementGap(Eventlog(184)) = -170
  <2>1. PICK a, b, c : a = TripEvent(8) /\ b = TripEvent(5) /\ c = Stored184
    OBVIOUS
  <2>2. /\ a.hours < b.hours /\ b.hours < c.hours
        /\ a.measured \in Nat /\ a.declared \in Nat /\ b.measured \in Nat /\ b.declared \in Nat
        /\ c.measured \in Nat /\ c.declared \in Nat
    BY <1>1, <1>2, <2>1
  <2>3. Received(184) = {a, b, c}
    BY <2>1, ReceivedAre
  <2>4. /\ volumeFromCustody(Eventlog(184), "RECEIVED") = a.measured
        /\ Cardinality(DOMAIN reconcileReceivedEvents(Eventlog(184))) = 3
        /\ MovementGap(Eventlog(184)) = (a.measured - a.declared) + (b.measured - b.declared)
                                           + (c.measured - c.declared)
    BY <2>2, <2>3, Receptions
  <2>5. QED BY <1>1, <1>2, <2>1, <2>4
<1>6. Own(181, 100000) = {Stored181}
  BY <1>1, <1>2, ReceivedAre DEF Own
<1>7. Own(182, 150000) = {}
  BY <1>1, ReceivedAre DEF Own
<1>8. Own(184, 100000) = {Stored184}
  BY <1>1, <1>2, ReceivedAre DEF Own
<1>9. QED BY <1>3, <1>4, <1>5, <1>6, <1>7, <1>8

\* What a batch's sensor says: within tolerance for the first, nothing for the second,
\* an anomaly for the third.
LEMMA SensedAre ==
    ASSUME world = Seeded
    PROVE  /\ reconcileMovement(100000, Sensed(181)) # "ANOMALY"
           /\ reconcileMovement(150000, Sensed(182)) # "ANOMALY"
           /\ reconcileMovement(100000, Sensed(184)) = "ANOMALY"
<1> DEFINE own(b) == {x \in world["measurement"] : x.key = <<"batch", "sensor", b>>}
           row(b, litres) == [key |-> <<"batch", "sensor", b>>, tank |-> <<"depot", 1>>, litres |-> litres]
<1>1. \A x \in seedBoliviaStations.insert["measurement"] : \A b : x.key # <<"batch", "sensor", b>>
  BY DEF seedBoliviaStations, Insert
<1>2. /\ Sensor(181, 99940).insert["measurement"] = {row(181, 99940)}
      /\ Sensor(184, 98650).insert["measurement"] = {row(184, 98650)}
  BY DEF Sensor, Insert
<1>3. /\ row(181, 99940).key = <<"batch", "sensor", 181>> /\ row(181, 99940).litres = 99940
      /\ row(184, 98650).key = <<"batch", "sensor", 184>> /\ row(184, 98650).litres = 98650
  OBVIOUS
<1> HIDE DEF row
<1>4. own(181) = {row(181, 99940)} /\ own(182) = {} /\ own(184) = {row(184, 98650)}
  <2>1. world["measurement"] = seedBoliviaStations.insert["measurement"]
          \cup {row(181, 99940)} \cup {row(184, 98650)}
    BY <1>2, WorldIs
  <2>2. /\ <<"batch", "sensor", 181>> # <<"batch", "sensor", 182>>
        /\ <<"batch", "sensor", 181>> # <<"batch", "sensor", 184>>
        /\ <<"batch", "sensor", 182>> # <<"batch", "sensor", 184>>
    OBVIOUS
  <2>3. QED BY <1>1, <1>3, <2>1, <2>2
<1>5. \A b : Sensed(b) = IF own(b) = {} THEN NoLitres ELSE (CHOOSE x \in own(b) : TRUE).litres
  BY DEF Sensed
<1> HIDE DEF own
<1>6. Sensed(181) = 99940 /\ Sensed(184) = 98650 /\ Sensed(182) = NoLitres
  BY <1>3, <1>4, <1>5
<1>7. reconcileMovement(100000, 99940) # "ANOMALY"
  BY DEF reconcileMovement, Abs, demoToleranceLiters, NoLitres
<1>8. reconcileMovement(100000, 98650) = "ANOMALY"
  BY DEF reconcileMovement, Abs, demoToleranceLiters, NoLitres
<1>9. reconcileMovement(150000, NoLitres) # "ANOMALY"
  BY DEF reconcileMovement
<1>10. QED BY <1>6, <1>7, <1>8, <1>9

\* The fields of a passport.
LEMMA PageIs ==
    ASSUME world = Seeded, NEW b
    PROVE  /\ getPassport(b).quantity.totalGapLiters = MovementGap(Eventlog(b.key))
           /\ getPassport(b).quantity.movements = reconcileReceivedEvents(Eventlog(b.key))
           /\ getPassport(b).quantity.received = volumeFromCustody(Eventlog(b.key), "RECEIVED")
           /\ getPassport(b).quantity.sensor = Sensed(b.key)
           /\ getPassport(b).deliveries = {d \in Seeded["delivery"] : d.batch = b.key}
           /\ getPassport(b).batons =
                {t \in Seeded["baton"] : \E d \in getPassport(b).deliveries : d.key = t.delivery}
           /\ getPassport(b).checkpoints =
                {p \in Seeded["checkpoint"] : \E d \in getPassport(b).deliveries : d.key = p.delivery}
           /\ getPassport(b).review = {a \in Seeded["anomaly"] : a.batch = b.key}
           /\ getPassport(b).audits = {c \in Seeded["case"] : c.batch = b.key}
<1> DEFINE q == buildQuantityReconciliation(b.declared, Eventlog(b.key), Sensed(b.key))
<1>1. /\ q.totalGapLiters = MovementGap(Eventlog(b.key))
      /\ q.movements = reconcileReceivedEvents(Eventlog(b.key))
      /\ q.received = volumeFromCustody(Eventlog(b.key), "RECEIVED")
      /\ q.sensor = Sensed(b.key)
  BY DEF buildQuantityReconciliation
<1> HIDE DEF q
<1>2. /\ getPassport(b).quantity = q
      /\ getPassport(b).deliveries = {d \in Seeded["delivery"] : d.batch = b.key}
      /\ getPassport(b).review = {a \in Seeded["anomaly"] : a.batch = b.key}
      /\ getPassport(b).audits = {c \in Seeded["case"] : c.batch = b.key}
  BY DEF getPassport, q
<1>3. getPassport(b).batons =
        {t \in Seeded["baton"] : \E d \in getPassport(b).deliveries : d.key = t.delivery}
  BY DEF getPassport
<1>4. getPassport(b).checkpoints =
        {p \in Seeded["checkpoint"] : \E d \in getPassport(b).deliveries : d.key = p.delivery}
  BY DEF getPassport
<1>5. QED BY <1>1, <1>2, <1>3, <1>4

\* A baton is out for every trip that is on its way, and no other.
LEMMA BatonsAgree ==
    ASSUME NEW k, NEW t \in Seeded["baton"],
           \E d \in Seeded["delivery"] : d.batch = k /\ d.key = t.delivery
    PROVE  t.status = "ACTIVE" <=> \E d \in UnderWay(k) : d.key = t.delivery
<1>1. PICK n \in 1..9 : t = Baton(n)
  BY WorldIs
<1>2. t.delivery = n /\ (t.status = "ACTIVE" <=> ~(Made(n).to > 0))
  BY <1>1 DEF Baton
<1>3. Made(n).key = n /\ Made(n) \in Seeded["delivery"]
  BY MadeAre, WorldIs
<1>4. \A d \in Seeded["delivery"] : d.key = n => d = Made(n)
  BY <1>3, KeysDiffer
<1>5. Made(n).batch = k
  BY <1>2, <1>4
<1>6. QED BY <1>2, <1>3, <1>4, <1>5 DEF UnderWay

\* The samples of a batch's trips are those of the trips on their way.
LEMMA SamplesAgree ==
    ASSUME NEW k
    PROVE  {d.key : d \in UnderWay(k)} =
             {p.delivery : p \in {x \in Seeded["checkpoint"] :
                \E d \in Seeded["delivery"] : d.batch = k /\ d.key = x.delivery}}
<1> DEFINE points == {x \in Seeded["checkpoint"] :
                        \E d \in Seeded["delivery"] : d.batch = k /\ d.key = x.delivery}
<1>1. \A d \in Under : d \in Seeded["delivery"] /\ ~(d.to > 0)
  <2>1. Made(3).to = 0 /\ Made(9).to = 0
    BY MadeAre
  <2>2. \A i \in Late : Sent(i).to = 0
    BY UnderIs
  <2>3. QED BY <2>1, <2>2, WorldIs DEF Under
<1>2. ASSUME NEW d \in UnderWay(k) PROVE \E p \in points : p.delivery = d.key
  <2>1. d \in Under /\ d.batch = k /\ d \in Seeded["delivery"]
    BY <1>1, <1>2, TripsAre
  <2>2. PICK p : p = [key |-> <<d.key, 0>>, delivery |-> d.key, cistern |-> d.cistern,
                      litres |-> d.loaded - 0]
    OBVIOUS
  <2>3. p \in Samples3(d) /\ p.delivery = d.key
    BY <2>2 DEF Samples3
  <2>4. p \in Seeded["checkpoint"]
    BY <2>1, <2>3, WorldIs
  <2>5. QED BY <2>1, <2>3, <2>4
<1>3. ASSUME NEW p \in points PROVE \E d \in UnderWay(k) : d.key = p.delivery
  <2>1. PICK u \in Under : p \in Samples3(u)
    BY WorldIs
  <2>2. p.delivery = u.key
    BY <2>1 DEF Samples3
  <2>3. PICK d \in Seeded["delivery"] : d.batch = k /\ d.key = p.delivery
    OBVIOUS
  <2>4. d = u
    BY <1>1, <2>2, <2>3, KeysDiffer
  <2>5. QED BY <1>1, <2>3, <2>4 DEF UnderWay
<1> HIDE DEF points
<1>4. {d.key : d \in UnderWay(k)} = {p.delivery : p \in points}
  BY <1>2, <1>3
<1>5. QED BY <1>4 DEF points

\* The batches, their passports and their sums agree.
LEMMA BooksAreSound == world = Seeded => SoundBooks
<1> SUFFICES ASSUME world = Seeded PROVE SoundBooks
  OBVIOUS
<1>1. ASSUME NEW b \in Seeded["batch"]
      PROVE  \/ /\ b.key = 181 /\ b.declared = 100000 /\ b.status # "AUDIT_REQUIRED"
                /\ b.delivered = DeliveredOf(181)
             \/ /\ b.key = 182 /\ b.declared = 150000 /\ b.status # "AUDIT_REQUIRED"
                /\ b.delivered = DeliveredOf(182)
             \/ /\ b.key = 184 /\ b.declared = 100000 /\ b.status = "AUDIT_REQUIRED"
                /\ b.delivered = DeliveredOf(184)
  BY WorldIs
<1>2. SUFFICES ASSUME NEW b \in Seeded["batch"]
               PROVE  LET page == getPassport(b)
                          done == {d \in page.deliveries : d.to > 0}
                          open == page.deliveries \ done
                          own == {e \in world["custody"] : /\ e.batch = b.key /\ e.kind = "RECEIVED"
                                                           /\ e.declared = b.declared}
                      IN /\ b.delivered = SumFunction([d \in done |-> d.received])
                         /\ b.delivered + SumFunction([d \in open |-> d.loaded]) <= b.declared
                         /\ page.quantity.totalGapLiters =
                              SumFunction([d \in done |-> d.received - d.loaded])
                                + SumFunction([e \in own |-> e.measured - e.declared])
                         /\ Cardinality(DOMAIN page.quantity.movements) = Cardinality(done) + Cardinality(own)
                         /\ \A d \in done : (\A e \in done : d.to <= e.to) => page.quantity.received = d.received
                         /\ \A t \in page.batons : t.status = "ACTIVE" <=> \E d \in open : d.key = t.delivery
                         /\ {d.key : d \in open} = {p.delivery : p \in page.checkpoints}
                         /\ page.review # {} <=> reconcileMovement(b.declared, page.quantity.sensor) = "ANOMALY"
                         /\ b.status = "AUDIT_REQUIRED" <=> page.review # {} /\ page.audits # {}
  BY DEF SoundBooks
<1> DEFINE page == getPassport(b)
           done == {d \in page.deliveries : d.to > 0}
           open == page.deliveries \ done
           own == {e \in world["custody"] : /\ e.batch = b.key /\ e.kind = "RECEIVED"
                                            /\ e.declared = b.declared}
           k == b.key
<1>3. page.deliveries = {d \in Seeded["delivery"] : d.batch = k}
  BY PageIs
<1>4. done = Done(k) /\ open = UnderWay(k)
  BY <1>3 DEF Done, UnderWay
<1>5. own = Own(k, b.declared)
  BY DEF Own, Received, Events
<1>6. k \in {181, 182, 184} /\ b.delivered = DeliveredOf(k)
  BY <1>1
<1>7. /\ page.quantity.totalGapLiters = MovementGap(Eventlog(k))
      /\ DOMAIN page.quantity.movements = DOMAIN reconcileReceivedEvents(Eventlog(k))
      /\ page.quantity.received = volumeFromCustody(Eventlog(k), "RECEIVED")
      /\ page.quantity.sensor = Sensed(k)
      /\ page.batons = {t \in Seeded["baton"] : \E d \in page.deliveries : d.key = t.delivery}
      /\ page.checkpoints = {p \in Seeded["checkpoint"] : \E d \in page.deliveries : d.key = p.delivery}
      /\ page.review = {a \in Seeded["anomaly"] : a.batch = k}
      /\ page.audits = {c \in Seeded["case"] : c.batch = k}
  BY PageIs
<1> HIDE DEF page, done, open, own, k
<1>11. b.delivered = SumFunction([d \in done |-> d.received])
  BY <1>4, <1>6, TotalsAre
<1>12. b.delivered + SumFunction([d \in open |-> d.loaded]) <= b.declared
  <2>1. PICK s : s = SumFunction([d \in open |-> d.loaded])
    OBVIOUS
  <2>2. s \in Nat /\ s <= 80000
    BY <1>4, <1>6, <2>1, Promised
  <2>3. CASE k = 181
    <3>1. s = 0
      <4>1. PICK f : f = [d \in open |-> d.loaded]
        OBVIOUS
      <4>2. DOMAIN f = {}
        BY <1>4, <2>3, <4>1, TripsAre
      <4>3. QED BY <2>1, <4>1, <4>2, SumEmpty DEF SumFunction
    <3>2. b.delivered = 16175 /\ b.declared = 100000
      BY <1>1, <1>6, <2>3, TotalsAre DEF k
    <3>3. QED BY <2>1, <3>1, <3>2
  <2>4. CASE k = 182
    <3>1. b.delivered = 21440 /\ b.declared = 150000
      BY <1>1, <1>6, <2>4, TotalsAre DEF k
    <3>2. QED BY <2>1, <2>2, <3>1
  <2>5. CASE k = 184
    <3>1. b.delivered = 12430 /\ b.declared = 100000
      BY <1>1, <1>6, <2>5, TotalsAre DEF k
    <3>2. QED BY <2>1, <2>2, <3>1
  <2>6. QED BY <1>6, <2>3, <2>4, <2>5
<1>13. /\ page.quantity.totalGapLiters =
            SumFunction([d \in done |-> d.received - d.loaded])
              + SumFunction([e \in own |-> e.measured - e.declared])
       /\ Cardinality(DOMAIN page.quantity.movements) = Cardinality(done) + Cardinality(own)
       /\ \A d \in done : (\A e \in done : d.to <= e.to) => page.quantity.received = d.received
  <2>1. PICK lost, short, taken : /\ lost = SumFunction([d \in done |-> d.received - d.loaded])
                                  /\ short = SumFunction([e \in own |-> e.measured - e.declared])
                                  /\ taken = Cardinality(DOMAIN page.quantity.movements)
    OBVIOUS
  <2>2. taken = 3
    BY <1>6, <1>7, <2>1, PassportsAre
  <2>3. CASE k = 181
    <3>1. done = {Made(2), Made(7)} /\ own = {Stored181}
      BY <1>1, <1>4, <1>5, <2>3, TripsAre, PassportsAre DEF k
    <3>2. lost = -25 /\ page.quantity.totalGapLiters = -75 /\ page.quantity.received = 7185
      BY <1>4, <1>7, <2>1, <2>3, TotalsAre, PassportsAre
    <3>3. short = -50
      <4>1. PICK f : f = [e \in own |-> e.measured - e.declared]
        OBVIOUS
      <4>2. DOMAIN f = {Stored181} /\ f[Stored181] = -50
        BY <3>1, <4>1 DEF Stored181
      <4>3. SumFunctionOnSet(f, {Stored181}) = -50
        BY <4>2, SumOfOne
      <4>4. QED BY <2>1, <4>1, <4>2, <4>3 DEF SumFunction
    <3>4. Cardinality(done) = 2 /\ Cardinality(own) = 1
      <4>1. Made(2) # Made(7)
        BY MadeAre
      <4>2. QED BY <3>1, <4>1, TwoThings, FS_Singleton
    <3>5. \A d \in done : (\A e \in done : d.to <= e.to) => d.received = 7185
      <4>1. Made(2).to = 18 /\ Made(7).to = 26 /\ Made(2).received = 7185
        BY MadeAre
      <4>2. QED BY <3>1, <4>1
    <3>6. QED BY <2>1, <2>2, <3>2, <3>3, <3>4, <3>5
  <2>4. CASE k = 182
    <3>1. done = {Made(1), Made(4), Made(6)} /\ own = {}
      BY <1>1, <1>4, <1>5, <2>4, TripsAre, PassportsAre DEF k
    <3>2. lost = -60 /\ page.quantity.totalGapLiters = -60 /\ page.quantity.received = 7970
      BY <1>4, <1>7, <2>1, <2>4, TotalsAre, PassportsAre
    <3>3. short = 0
      <4>1. PICK f : f = [e \in own |-> e.measured - e.declared]
        OBVIOUS
      <4>2. DOMAIN f = {}
        BY <3>1, <4>1
      <4>3. QED BY <2>1, <4>1, <4>2, SumEmpty DEF SumFunction
    <3>4. Cardinality(done) = 3 /\ Cardinality(own) = 0
      <4>1. Made(1) # Made(4) /\ Made(4) # Made(6) /\ Made(1) # Made(6)
        BY MadeAre
      <4>2. Cardinality({Made(1), Made(4), Made(6)}) = 3
        BY <4>1, ThreeThings, Zenon
      <4>3. QED BY <3>1, <4>2, FS_EmptySet
    <3>5. \A d \in done : (\A e \in done : d.to <= e.to) => d.received = 7970
      <4>1. Made(1).to = 44 /\ Made(4).to = 38 /\ Made(6).to = 50 /\ Made(4).received = 7970
        BY MadeAre
      <4>2. QED BY <3>1, <4>1
    <3>6. QED BY <2>1, <2>2, <3>2, <3>3, <3>4, <3>5
  <2>5. CASE k = 184
    <3>1. done = {Made(5), Made(8)} /\ own = {Stored184}
      BY <1>1, <1>4, <1>5, <2>5, TripsAre, PassportsAre DEF k
    <3>2. lost = -70 /\ page.quantity.totalGapLiters = -170 /\ page.quantity.received = 5950
      BY <1>4, <1>7, <2>1, <2>5, TotalsAre, PassportsAre
    <3>3. short = -100
      <4>1. PICK f : f = [e \in own |-> e.measured - e.declared]
        OBVIOUS
      <4>2. DOMAIN f = {Stored184} /\ f[Stored184] = -100
        BY <3>1, <4>1 DEF Stored184
      <4>3. SumFunctionOnSet(f, {Stored184}) = -100
        BY <4>2, SumOfOne
      <4>4. QED BY <2>1, <4>1, <4>2, <4>3 DEF SumFunction
    <3>4. Cardinality(done) = 2 /\ Cardinality(own) = 1
      <4>1. Made(5) # Made(8)
        BY MadeAre
      <4>2. QED BY <3>1, <4>1, TwoThings, FS_Singleton
    <3>5. \A d \in done : (\A e \in done : d.to <= e.to) => d.received = 5950
      <4>1. Made(5).to = 34 /\ Made(8).to = 22 /\ Made(8).received = 5950
        BY MadeAre
      <4>2. QED BY <3>1, <4>1
    <3>6. QED BY <2>1, <2>2, <3>2, <3>3, <3>4, <3>5
  <2>6. QED BY <1>6, <2>3, <2>4, <2>5
<1>14. \A t \in page.batons : t.status = "ACTIVE" <=> \E d \in open : d.key = t.delivery
  BY <1>3, <1>4, <1>7, BatonsAgree
<1>15. {d.key : d \in open} = {p.delivery : p \in page.checkpoints}
  <2>1. page.checkpoints = {x \in Seeded["checkpoint"] :
                              \E d \in Seeded["delivery"] : d.batch = k /\ d.key = x.delivery}
    BY <1>3, <1>7
  <2>2. QED BY <1>4, <2>1, SamplesAgree
<1>16. /\ page.review # {} <=> k = 184
       /\ page.audits # {} <=> k = 184
  <2>1. /\ page.review = {a \in {[key |-> 1, batch |-> 184]} : a.batch = k}
        /\ page.audits = {c \in {[key |-> 1, batch |-> 184, anomaly |-> 1]} : c.batch = k}
    BY <1>7, WorldIs
  <2>2. /\ [key |-> 1, batch |-> 184].batch = 184
        /\ [key |-> 1, batch |-> 184, anomaly |-> 1].batch = 184
    OBVIOUS
  <2>3. PICK r, s : r = [key |-> 1, batch |-> 184] /\ s = [key |-> 1, batch |-> 184, anomaly |-> 1]
    OBVIOUS
  <2>4. /\ page.review = {a \in {r} : a.batch = k} /\ r.batch = 184
        /\ page.audits = {c \in {s} : c.batch = k} /\ s.batch = 184
    BY <2>1, <2>2, <2>3
  <2>5. QED BY <2>4
<1>17. reconcileMovement(b.declared, page.quantity.sensor) = "ANOMALY" <=> k = 184
  BY <1>1, <1>7, SensedAre DEF k
<1>18. b.status = "AUDIT_REQUIRED" <=> k = 184
  BY <1>1 DEF k
<1>19. /\ page.review # {} <=> reconcileMovement(b.declared, page.quantity.sensor) = "ANOMALY"
       /\ b.status = "AUDIT_REQUIRED" <=> page.review # {} /\ page.audits # {}
  BY <1>16, <1>17, <1>18
<1>20. QED
  BY <1>11, <1>12, <1>13, <1>14, <1>15, <1>19 DEF page, done, open, own

\* A run of the seed that the API leaves alone is never refused, wherever an earlier
\* one was killed and whatever it left, and ends in a world that adds up
\* (prisma/seed.ts): for any number of runs and of the API's writes.
THEOREM SeededWorldAddsUpHolds == PortalSpec => []SeededWorldAddsUp
<1>1. PortalInit => SeedInv
  BY DEF PortalInit, SeedingInit, SeedInv
<1>2. [PortalNext]_pvars => [SeedingNext]_evars
  BY DEF PortalNext, pvars
<1>3. SeedInv => SeededWorldAddsUp
  <2>1. SeedInv => (refused => touched) /\ (Finished /\ ~touched => world = Seeded)
    BY TheList DEF SeedInv, Finished
  <2>2. QED BY <2>1, FleetIsSound, BooksAreSound, RowsAreSound DEF SeededWorldAddsUp
<1>4. QED BY <1>1, <1>2, <1>3, SeedStep, PTL DEF PortalSpec
===============================================================================
