-------------------------- MODULE CustodyQr_proofs --------------------------
(***************************************************************************)
(* Proofs about CustodyQr, for any number of requests, tokens, batches,    *)
(* cisterns and stations.                                                  *)
(***************************************************************************)
EXTENDS CustodyQr, SumTheorems, TLAPS

\* The steps of an accept whose transaction holds the baton row.
LockSteps == {"settle", "unload", "stock"}

\* A transaction that holds a baton row sees it ACTIVE, and holds it alone.
LockInv ==
    /\ \A r \in Requests : pc[r] \in LockSteps => baton[work[r].token] = "ACTIVE"
    /\ \A r, q \in Requests :
         pc[r] \in LockSteps /\ pc[q] \in LockSteps /\ work[r].token = work[q].token
           => r = q

\* What the rows of one token say together.
RowInv ==
    \A t \in Tokens :
      /\ receipts[t] = IF baton[t] = "CONSUMED" THEN 1 ELSE 0
      /\ t \in Paper => /\ delivery[t] = "ABSENT"
                        /\ leg[t] # None /\ leg[t].station = None
      /\ t \notin Paper => /\ leg[t] = None <=> baton[t] = "ABSENT"
                           /\ leg[t] = None <=> delivery[t] = "ABSENT"
                           /\ leg[t] # None => leg[t].station # None
                           /\ baton[t] = "CONSUMED" <=> delivery[t] = "DELIVERED"
      /\ settlement[t] = IF delivery[t] = "DELIVERED" THEN Settled(measured[t]) ELSE None
      /\ delivery[t] = "DELIVERED" => receivedAt[t] = leg[t].station

\* An accept that got past its checks is at the destination of its baton.
PlaceInv ==
    \A r \in Requests :
      pc[r] \in AcceptSteps =>
        leg[work[r].token].station \in {None, work[r].at}

TripInv == LockInv /\ RowInv /\ PlaceInv

\* What a handler read of a stock, and will compute with, was within bounds.
ReadFits(step, w) ==
    /\ step \in IssueSteps /\ w.row # None => w.row.load \in 0..CisternCap[w.cistern]
    /\ step \in {"load", "withdraw"} => w.row.load + w.vol <= CisternCap[w.cistern]
    /\ step = "withdraw" => w.stock \in 0..DepotInit /\ w.vol <= w.stock
    /\ step \in AcceptSteps /\ w.row # None =>
         w.row.load \in 0..CisternCap[leg[w.token].cistern]
    /\ step = "stock" /\ w.at \in Tanked => w.stock \in 0..TankCap[w.at]

StockInv == StockWithinBounds /\ \A r \in Requests : ReadFits(pc[r], work[r])

-----------------------------------------------------------------------------
(* Types. *)

\* The type of everything but the trip rows' legs and the handlers.
DbTypeOK ==
    /\ baton \in [Tokens -> {"ABSENT", "ACTIVE", "CONSUMED", "EXPIRED"}]
    /\ elapsed \in [Tokens -> BOOLEAN]
    /\ receipts \in [Tokens -> Nat] /\ measured \in [Tokens -> Int]
    /\ receivedAt \in [Tokens -> Stations \cup {None}]
    /\ delivery \in [Tokens -> {"ABSENT", "IN_TRANSIT", "DELIVERED"}]
    /\ settlement \in [Tokens -> Nat \cup {None}]
    /\ batch \in [Batches -> [status : BatchStatuses, delivered : Int]]
    /\ cistern \in [Cisterns -> CisternRows]
    /\ tank \in [Tanked -> Int] /\ depot \in Int

HandlerTypeOK ==
    /\ pc \in [Requests -> Steps]
    /\ work \in [Requests -> IssueWork \cup AcceptWork \cup {None}]
    /\ \A r \in Requests : WorkFits(pc[r], work[r])

\* A handler that moves on with locals that fit its next step keeps the types,
\* as long as the trip rows stay.
LEMMA GotoFits ==
  ASSUME HandlerTypeOK, NEW r \in Requests, NEW step \in Steps, NEW w,
         Goto(r, step, w), WorkFits(step, w), UNCHANGED leg
  PROVE  HandlerTypeOK'
<1>1. w \in IssueWork \cup AcceptWork \cup {None}
  BY DEF WorkFits, Steps
<1>2. /\ pc' \in [Requests -> Steps]
      /\ work' \in [Requests -> IssueWork \cup AcceptWork \cup {None}]
  BY <1>1 DEF HandlerTypeOK, Goto
<1>3. ASSUME NEW q \in Requests PROVE WorkFits(pc[q], work[q])'
  <2>1. WorkFits(pc'[q], work'[q])
    BY DEF HandlerTypeOK, Goto
  <2>2. QED BY <2>1 DEF WorkFits
<1>4. QED BY <1>2, <1>3 DEF HandlerTypeOK

\* A handler that returns keeps nothing, which fits the idle state.
LEMMA ReturnFits ==
  ASSUME HandlerTypeOK, NEW r \in Requests, Return(r), UNCHANGED leg
  PROVE  HandlerTypeOK'
<1>1. WorkFits("idle", None)
  BY DEF WorkFits, IssueSteps, AcceptSteps
<1>2. "idle" \in Steps
  BY DEF Steps
<1>3. QED BY <1>1, <1>2, GotoFits DEF Return

\* TypeOK in three parts: the rows, the handlers, and the trips both refer to.
LEMMA TypeParts ==
  TypeOK <=> DbTypeOK /\ HandlerTypeOK /\ leg \in [Tokens -> Legs \cup {None}]
BY DEF TypeOK, DbTypeOK, HandlerTypeOK

\* The empty tables and idle handlers have their types.
LEMMA TypeInit == Init => TypeOK
<1> SUFFICES ASSUME Init PROVE TypeOK
  OBVIOUS
<1>2. leg \in [Tokens -> Legs \cup {None}]
  BY ConstantsAssumption DEF Init
<1>3. cistern \in [Cisterns -> CisternRows]
  BY ConstantsAssumption DEF Init, CisternRows
<1>4. batch \in [Batches -> [status : BatchStatuses, delivered : Int]]
  BY ConstantsAssumption DEF Init
<1>5. HandlerTypeOK
  BY DEF Init, HandlerTypeOK, WorkFits, Steps, IssueSteps, AcceptSteps
<1>6. tank \in [Tanked -> Int] /\ depot \in Int
  BY ConstantsAssumption DEF Init
<1>7. QED BY <1>2, <1>3, <1>4, <1>5, <1>6, TypeParts DEF Init, DbTypeOK

\* The steps of a handler that write no row: its own reads and checks.
LEMMA ReadSteps ==
  ASSUME TypeOK, NEW r \in Requests,
         IssueQuota(r) \/ IssueCistern(r) \/ IssueTrip(r) \/ IssueLoad(r)
           \/ AcceptConsume(r) \/ AcceptSettle(r) \/ AcceptUnmeasured(r)
           \/ AcceptUnload(r) \/ AcceptOverflow(r) \/ Abort(r)
  PROVE  HandlerTypeOK' /\ UNCHANGED <<dbVars, elapsed>>
<1> USE DEF dbVars, tripVars
<1>0. UNCHANGED <<dbVars, elapsed>> /\ HandlerTypeOK
  BY TypeParts DEF IssueQuota, IssueCistern, IssueTrip, IssueLoad, AcceptConsume,
     AcceptSettle, AcceptUnmeasured, AcceptUnload, AcceptOverflow, Abort
<1>1. WorkFits(pc[r], work[r]) /\ UNCHANGED leg
  BY <1>0 DEF HandlerTypeOK
<1>r. CASE Return(r)
  BY <1>0, <1>1, <1>r, ReturnFits
<1>2. CASE IssueQuota(r)
  <2>1. CASE Goto(r, "cistern", work[r])
    <3>1. "cistern" \in Steps /\ WorkFits("cistern", work[r])
      BY <1>1, <1>2 DEF IssueQuota, WorkFits, Steps, IssueSteps, AcceptSteps
    <3>2. QED BY <1>0, <1>1, <2>1, <3>1, GotoFits
  <2>2. QED BY <2>1, <1>r, <1>2 DEF IssueQuota
<1>3. CASE IssueCistern(r)
  <2> DEFINE w == [work[r] EXCEPT !.row = cistern[work[r].cistern]]
  <2>1. CASE Goto(r, "trip", w)
    <3>1. work[r] \in IssueWork
      BY <1>1, <1>3 DEF IssueCistern, WorkFits, IssueSteps
    <3>2. cistern[work[r].cistern] \in CisternRows
      BY <3>1 DEF TypeOK, IssueWork
    <3>3. w \in IssueWork /\ w.row = cistern[work[r].cistern]
      BY <3>1, <3>2 DEF IssueWork
    <3>4. w.row # None
      BY <3>2, <3>3, ConstantsAssumption
    <3>5. "trip" \in Steps /\ WorkFits("trip", w)
      BY <3>3, <3>4 DEF WorkFits, Steps, IssueSteps, AcceptSteps
    <3> HIDE DEF w
    <3>6. QED BY <1>0, <1>1, <2>1, <3>5, GotoFits
  <2>2. QED BY <2>1, <1>r, <1>3 DEF IssueCistern
<1>4. CASE IssueTrip(r)
  <2>1. CASE Goto(r, "load", work[r])
    <3>1. "load" \in Steps /\ WorkFits("load", work[r])
      BY <1>1, <1>4 DEF IssueTrip, WorkFits, Steps, IssueSteps, AcceptSteps
    <3>2. QED BY <1>0, <1>1, <2>1, <3>1, GotoFits
  <2>2. QED BY <2>1, <1>r, <1>4 DEF IssueTrip
<1>5. CASE IssueLoad(r)
  <2> DEFINE w == [work[r] EXCEPT !.stock = depot]
  <2>1. CASE Goto(r, "withdraw", w)
    <3>1. work[r] \in IssueWork /\ work[r].row # None
      BY <1>1, <1>5 DEF IssueLoad, WorkFits, IssueSteps
    <3>2. w \in IssueWork /\ w.row # None
      BY <3>1 DEF IssueWork, TypeOK
    <3>3. "withdraw" \in Steps /\ WorkFits("withdraw", w)
      BY <3>2 DEF WorkFits, Steps, IssueSteps, AcceptSteps
    <3> HIDE DEF w
    <3>4. QED BY <1>0, <1>1, <2>1, <3>3, GotoFits
  <2>2. QED BY <2>1, <1>r, <1>5 DEF IssueLoad
<1>6. CASE AcceptConsume(r)
  <2> DEFINE row == batch[leg[work[r].token].batch]
             w == [work[r] EXCEPT !.status = row.status, !.delivered = row.delivered]
  <2>1. CASE Goto(r, "settle", w)
    <3>1. /\ work[r] \in AcceptWork /\ leg[work[r].token] # None
          /\ work[r].row # None => leg[work[r].token].cistern # None
      BY <1>1, <1>6 DEF AcceptConsume, WorkFits, AcceptSteps
    <3>2. row \in [status : BatchStatuses, delivered : Int]
      BY <3>1 DEF TypeOK, AcceptWork, Legs
    <3>3. w \in AcceptWork /\ w.token = work[r].token /\ w.row = work[r].row
      BY <3>1, <3>2 DEF AcceptWork
    <3>4. "settle" \in Steps /\ WorkFits("settle", w)
      BY <3>1, <3>3 DEF WorkFits, Steps, IssueSteps, AcceptSteps
    <3> HIDE DEF w
    <3>5. QED BY <1>0, <1>1, <2>1, <3>4, GotoFits
  <2>2. QED BY <2>1, <1>r, <1>6 DEF AcceptConsume
<1>7. CASE AcceptSettle(r)
  <2> DEFINE c == leg[work[r].token].cistern
             w == [work[r] EXCEPT !.row = IF c = None THEN None ELSE cistern[c]]
  <2>1. work[r] \in AcceptWork /\ leg[work[r].token] # None
    BY <1>1, <1>7 DEF AcceptSettle, WorkFits, AcceptSteps
  <2>2. c # None => cistern[c] \in CisternRows
    BY <2>1 DEF TypeOK, AcceptWork, Legs
  <2>3. /\ w \in AcceptWork /\ w.token = work[r].token
        /\ w.row # None => leg[w.token].cistern # None
    BY <2>1, <2>2 DEF AcceptWork
  <2>4. "unload" \in Steps /\ WorkFits("unload", w)
    BY <2>1, <2>3 DEF WorkFits, Steps, IssueSteps, AcceptSteps
  <2>5. Goto(r, "unload", w)
    BY <1>7 DEF AcceptSettle
  <2> HIDE DEF w
  <2>6. QED BY <1>0, <1>1, <2>4, <2>5, GotoFits
<1>8. CASE AcceptUnload(r)
  <2> DEFINE s == work[r].at
             w == [work[r] EXCEPT !.stock = IF s \in Tanked THEN tank[s] ELSE 0]
  <2>1. /\ work[r] \in AcceptWork /\ leg[work[r].token] # None
        /\ work[r].row # None => leg[work[r].token].cistern # None
    BY <1>1, <1>8 DEF AcceptUnload, WorkFits, AcceptSteps
  <2>2. w \in AcceptWork /\ w.token = work[r].token /\ w.row = work[r].row
    <3> DEFINE stock == IF s \in Tanked THEN tank[s] ELSE 0
    <3>1. stock \in Int
      BY DEF TypeOK
    <3>2. w = [work[r] EXCEPT !.stock = stock]
      OBVIOUS
    <3> HIDE DEF stock
    <3>3. QED BY <2>1, <3>1, <3>2 DEF AcceptWork
  <2>3. "stock" \in Steps /\ WorkFits("stock", w)
    BY <2>1, <2>2 DEF WorkFits, Steps, IssueSteps, AcceptSteps
  <2>4. Goto(r, "stock", w)
    BY <1>8 DEF AcceptUnload
  <2> HIDE DEF w
  <2>5. QED BY <1>0, <1>1, <2>3, <2>4, GotoFits
<1>9. QED
  BY <1>0, <1>r, <1>2, <1>3, <1>4, <1>5, <1>6, <1>7, <1>8
  DEF AcceptUnmeasured, AcceptOverflow, Abort

\* A request that arrives: its first read becomes its locals.
LEMMA TypeStart ==
  ASSUME TypeOK, NEW r \in Requests, Arrive(r)
  PROVE  HandlerTypeOK' /\ UNCHANGED <<dbVars, elapsed>>
<1> USE DEF dbVars, tripVars
<1>0. UNCHANGED <<dbVars, elapsed>> /\ HandlerTypeOK
  BY TypeParts DEF Arrive, IssueStart, AcceptStart, AcceptEmbedded
<1>1. ASSUME NEW b \in Batches, NEW c \in Cisterns, NEW s \in Stations,
             NEW v \in Volumes, NEW u \in Users, IssueStart(r, b, c, s, v, u)
      PROVE  HandlerTypeOK'
  <2> DEFINE w == [batch |-> b, cistern |-> c, station |-> s, vol |-> v,
                   user |-> u, status |-> batch[b].status,
                   delivered |-> batch[b].delivered, row |-> None, stock |-> 0]
  <2>1. w \in IssueWork
    BY DEF TypeOK, IssueWork
  <2>2. "quota" \in Steps /\ WorkFits("quota", w)
    BY <2>1 DEF WorkFits, Steps, IssueSteps, AcceptSteps
  <2>3. Goto(r, "quota", w)
    BY <1>1 DEF IssueStart
  <2> HIDE DEF w
  <2>4. QED BY <1>0, <2>2, <2>3, GotoFits
<1>2. ASSUME NEW t \in Tokens, NEW at \in Stations \cup {None}, leg[t] # None,
             NEW v \in Measures \cup {leg[t].vol},
             AcceptStart(r, t, at, v) \/ AcceptEmbedded(r, t, at, v)
      PROVE  HandlerTypeOK'
  <2> DEFINE w == AcceptLocals(t, at, v)
  <2>1. leg[t] \in Legs
    BY <1>2 DEF TypeOK
  <2>2. v \in Int /\ StationOf(at, t) \in Stations \cup {None}
    <3>1. v \in Int
      <4>1. Measures \subseteq Int
        BY ConstantsAssumption
      <4>2. leg[t].vol \in Nat
        BY <2>1 DEF Legs
      <4>3. leg[t].vol \in Int
        BY <4>2
      <4>4. QED BY <4>1, <4>3, Zenon
    <3>2. StationOf(at, t) \in Stations \cup {None}
      BY <2>1 DEF Legs, StationOf
    <3>3. QED BY <3>1, <3>2
  <2>3. w \in AcceptWork /\ w.token = t /\ w.row = None
    BY <2>2 DEF AcceptLocals, AcceptWork, BatchStatuses, Stages, FORWARD
  <2>4. /\ {"consume", "mint"} \subseteq Steps
        /\ WorkFits("consume", w) /\ WorkFits("mint", w)
    BY <1>2, <2>3 DEF WorkFits, Steps, IssueSteps, AcceptSteps
  <2>5. Goto(r, "consume", w) \/ Goto(r, "mint", w)
    BY <1>2 DEF AcceptStart, AcceptEmbedded
  <2> HIDE DEF w
  <2>6. QED BY <1>0, <2>4, <2>5, GotoFits
<1>3. QED BY <1>0, <1>1, <1>2 DEF Arrive

\* A dispatch adds one trip; the handlers under way work on other trips.
LEMMA TypeIssueCommit ==
  ASSUME TypeOK, NEW r \in Requests, IssueCommit(r)
  PROVE  TypeOK'
<1> DEFINE w == work[r]
<1>1. w \in IssueWork /\ w.row # None /\ w.row \in CisternRows
  BY DEF TypeOK, WorkFits, IssueCommit, IssueSteps, IssueWork
<1>2. PICK t \in FreeTokens :
        /\ baton' = [baton EXCEPT ![t] = "ACTIVE"]
        /\ delivery' = [delivery EXCEPT ![t] = "IN_TRANSIT"]
        /\ leg' = [leg EXCEPT ![t] = [batch |-> w.batch, cistern |-> w.cistern,
                                      station |-> w.station, vol |-> w.vol]]
        /\ cistern' = [cistern EXCEPT ![w.cistern] =
                         [load |-> w.row.load + w.vol, status |-> "IN_TRANSIT",
                          batch |-> w.batch,
                          driver |-> IF w.row.driver = None THEN w.user ELSE w.row.driver]]
        /\ depot' = w.stock - w.vol
        /\ batch' = [batch EXCEPT ![w.batch].status = DispatchedStatus(@, w.status)]
  BY DEF IssueCommit
<1>3. t \in Tokens /\ leg[t] = None
  BY DEF FreeTokens
<1>4. /\ w.batch \in Batches /\ w.cistern \in Cisterns /\ w.station \in Stations
      /\ w.vol \in Nat /\ w.user \in Users /\ w.stock \in Int
  BY <1>1, ConstantsAssumption DEF IssueWork
<1>5. leg' \in [Tokens -> Legs \cup {None}]
  BY <1>2, <1>3, <1>4 DEF TypeOK, Legs
<1>6. cistern' \in [Cisterns -> CisternRows]
  BY <1>1, <1>2, <1>4 DEF TypeOK, CisternRows
<1>7. batch' \in [Batches -> [status : BatchStatuses, delivered : Int]]
  <2>1. "IN_TRANSIT" \in BatchStatuses
    BY DEF BatchStatuses, Stages, FORWARD
  <2>2. /\ batch[w.batch] \in [status : BatchStatuses, delivered : Int]
        /\ batch \in [Batches -> [status : BatchStatuses, delivered : Int]]
    BY <1>4 DEF TypeOK
  <2> DEFINE s == DispatchedStatus(batch[w.batch].status, w.status)
  <2>3. s \in BatchStatuses
    BY <2>1, <2>2 DEF DispatchedStatus
  <2>4. batch' = [batch EXCEPT ![w.batch].status = s]
    BY <1>2
  <2> HIDE DEF w, s
  <2>5. [batch EXCEPT ![w.batch].status = s]
          \in [Batches -> [status : BatchStatuses, delivered : Int]]
    BY <2>2, <2>3, <1>4
  <2>6. QED BY <2>2, <2>4, <2>5
<1>8. DbTypeOK'
  <2>1. /\ baton' \in [Tokens -> {"ABSENT", "ACTIVE", "CONSUMED", "EXPIRED"}]
        /\ delivery' \in [Tokens -> {"ABSENT", "IN_TRANSIT", "DELIVERED"}]
        /\ depot' \in Int
    <3>1. w.stock - w.vol \in Int
      BY <1>4
    <3> HIDE DEF w
    <3>2. QED BY <1>2, <1>3, <3>1 DEF TypeOK
  <2>2. QED BY <2>1, <1>6, <1>7 DEF DbTypeOK, TypeOK, IssueCommit
<1>9. HandlerTypeOK'
  <2>1. /\ pc' \in [Requests -> Steps]
        /\ work' \in [Requests -> IssueWork \cup AcceptWork \cup {None}]
    BY DEF TypeOK, IssueCommit, Return, Goto, Steps
  <2>2. ASSUME NEW q \in Requests PROVE WorkFits(pc[q], work[q])'
    <3>1. CASE q = r
      <4>1. pc'[q] = "idle" /\ work'[q] = None
        BY <3>1 DEF TypeOK, IssueCommit, Return, Goto
      <4>2. QED BY <4>1 DEF WorkFits, IssueSteps, AcceptSteps
    <3>2. CASE q # r
      <4>1. pc'[q] = pc[q] /\ work'[q] = work[q] /\ WorkFits(pc[q], work[q])
        BY <3>2 DEF TypeOK, IssueCommit, Return, Goto
      <4>2. ASSUME pc[q] \in AcceptSteps
            PROVE  leg'[work[q].token] = leg[work[q].token]
        <5>1. work[q].token \in Tokens /\ leg[work[q].token] # None
          BY <4>1, <4>2 DEF WorkFits, AcceptWork
        <5>2. QED BY <5>1, <1>2, <1>3 DEF TypeOK
      <4>3. QED BY <4>1, <4>2 DEF WorkFits
    <3>3. QED BY <3>1, <3>2
  <2>3. QED BY <2>1, <2>2 DEF HandlerTypeOK
<1>10. QED BY <1>5, <1>8, <1>9, TypeParts DEF TypeOK, DbTypeOK, HandlerTypeOK

\* The row minted from a printed code, and the check of its time.
LEMMA TypeMintCheck ==
  ASSUME TypeOK, NEW r \in Requests, AcceptMint(r) \/ AcceptCheck(r)
  PROVE  TypeOK'
<1> DEFINE w == work[r]
<1>1. /\ w \in AcceptWork /\ WorkFits(pc[r], w) /\ pc[r] \in {"mint", "check"}
      /\ HandlerTypeOK /\ UNCHANGED leg
  BY TypeParts DEF TypeOK, WorkFits, AcceptMint, AcceptCheck, AcceptSteps
<1>2. w.token \in Tokens
  BY <1>1 DEF AcceptWork
<1>3. DbTypeOK'
  BY <1>2 DEF TypeOK, DbTypeOK, AcceptMint, AcceptCheck, stockVars
<1>4. /\ {"check", "consume"} \subseteq Steps
      /\ WorkFits("check", w) /\ WorkFits("consume", w)
  BY <1>1 DEF WorkFits, Steps, IssueSteps, AcceptSteps
<1>5. Goto(r, "check", w) \/ Goto(r, "consume", w) \/ Return(r)
  BY DEF AcceptMint, AcceptCheck
<1> HIDE DEF w
<1>6. HandlerTypeOK'
  BY <1>1, <1>4, <1>5, GotoFits, ReturnFits
<1>7. QED BY <1>1, <1>3, <1>6 DEF TypeOK, DbTypeOK, HandlerTypeOK

\* A reception writes values of the right types into every row.
LEMMA TypeAcceptCommit ==
  ASSUME TypeOK, NEW r \in Requests, AcceptCommit(r)
  PROVE  TypeOK'
<1> DEFINE w == work[r]
           t == w.token
           b == leg[t].batch
           c == leg[t].cistern
<1>1. /\ w \in AcceptWork /\ leg[t] # None /\ (w.row # None => c # None)
      /\ HandlerTypeOK /\ UNCHANGED leg
  BY TypeParts DEF TypeOK, WorkFits, AcceptCommit, AcceptSteps
<1>2. t \in Tokens /\ w.at \in Stations \cup {None} /\ w.vol \in Int /\ w.stock \in Int
  BY <1>1 DEF AcceptWork
<1>3. leg[t] \in Legs /\ b \in Batches
  BY <1>1, <1>2 DEF TypeOK, Legs
<1>4. NextBatchStatus(b, w) \in BatchStatuses /\ w.delivered \in Int
  BY <1>1 DEF AcceptWork, NextBatchStatus, BatchStatuses, Stages, FORWARD
<1>5. batch' \in [Batches -> [status : BatchStatuses, delivered : Int]]
  <2>1. batch' = [batch EXCEPT ![b] = [status |-> NextBatchStatus(b, w),
                                       delivered |-> w.delivered + w.vol]]
    BY DEF AcceptCommit
  <2>2. QED BY <2>1, <1>2, <1>3, <1>4 DEF TypeOK
<1>6. cistern' \in [Cisterns -> CisternRows]
  <2>1. CASE ~Unloads(w)
    BY <2>1 DEF AcceptCommit, TypeOK
  <2>2. CASE Unloads(w)
    <3>1. w.row \in CisternRows /\ c \in Cisterns
      BY <2>2, <1>1, <1>3 DEF Unloads, AcceptWork, Legs
    <3>2. cistern[c] \in CisternRows
      BY <3>1 DEF TypeOK
    <3>3. w.row.load - Unload(w.vol, w.row.load) \in Int
      BY <3>1, <1>2 DEF Unload, CisternRows
    <3>4. Unloaded(cistern[c], w) \in CisternRows
      BY <3>1, <3>2, <3>3 DEF Unloaded, CisternRows
    <3>5. cistern' = [cistern EXCEPT ![c] = Unloaded(cistern[c], w)]
      BY <2>2 DEF AcceptCommit
    <3>6. QED BY <3>1, <3>4, <3>5 DEF TypeOK
  <2>3. QED BY <2>1, <2>2
<1>7. tank' \in [Tanked -> Int]
  BY <1>2 DEF AcceptCommit, TypeOK
<1>8. /\ baton' \in [Tokens -> {"ABSENT", "ACTIVE", "CONSUMED", "EXPIRED"}]
      /\ delivery' \in [Tokens -> {"ABSENT", "IN_TRANSIT", "DELIVERED"}]
      /\ receivedAt' \in [Tokens -> Stations \cup {None}]
  BY <1>2 DEF AcceptCommit, TypeOK
<1>9. /\ receipts' \in [Tokens -> Nat] /\ measured' \in [Tokens -> Int]
      /\ settlement' \in [Tokens -> Nat \cup {None}]
      /\ UNCHANGED <<depot, elapsed>>
  <2>1. Settled(w.vol) \in Nat
    BY <1>2 DEF Settled
  <2>2. QED BY <1>2, <2>1 DEF AcceptCommit, TypeOK
<1>10. HandlerTypeOK'
  BY <1>1, ReturnFits DEF AcceptCommit
<1>11. QED
  BY <1>1, <1>5, <1>6, <1>7, <1>8, <1>9, <1>10 DEF TypeOK, HandlerTypeOK

\* Expiry, audits and time touch a status or a flag.
LEMMA TypeWorld ==
  ASSUME TypeOK,
         \/ \E t \in Tokens : Expire(t) \/ Elapse(t)
         \/ \E b \in Audited : AuditCreate(b)
  PROVE  TypeOK'
<1> USE DEF dbVars, tripVars, stockVars
<1>1. UNCHANGED <<leg, pc, work>> /\ HandlerTypeOK
  BY TypeParts DEF Expire, Elapse, AuditCreate
<1>2. ASSUME NEW t \in Tokens, Expire(t) \/ Elapse(t) PROVE DbTypeOK'
  BY <1>2 DEF TypeOK, DbTypeOK, Expire, Elapse
<1>3. ASSUME NEW b \in Audited, AuditCreate(b) PROVE DbTypeOK'
  BY <1>3, ConstantsAssumption DEF TypeOK, DbTypeOK, AuditCreate, BatchStatuses
<1>4. HandlerTypeOK'
  BY <1>1 DEF HandlerTypeOK, WorkFits
<1>5. QED BY <1>1, <1>2, <1>3, <1>4 DEF TypeOK, DbTypeOK, HandlerTypeOK

\* No step breaks the types.
LEMMA TypeStep == TypeOK /\ [Next]_vars => TypeOK'
<1> SUFFICES ASSUME TypeOK, [Next]_vars PROVE TypeOK'
  OBVIOUS
<1>1. CASE UNCHANGED vars
  BY <1>1 DEF TypeOK, vars, tripVars, stockVars, WorkFits
<1>2. ASSUME NEW r \in Requests, Arrive(r) \/ Step(r) \/ Abort(r) PROVE TypeOK'
  <2>1. CASE HandlerTypeOK' /\ UNCHANGED <<dbVars, elapsed>>
    BY <2>1 DEF TypeOK, HandlerTypeOK, dbVars, tripVars, stockVars
  <2>2. QED
    BY <1>2, <2>1, ReadSteps, TypeStart, TypeIssueCommit, TypeMintCheck, TypeAcceptCommit
    DEF Step
<1>3. CASE \/ \E t \in Tokens : Expire(t) \/ Elapse(t)
           \/ \E b \in Audited : AuditCreate(b)
  BY <1>3, TypeWorld
<1>4. QED BY <1>1, <1>2, <1>3 DEF Next

\* In every reachable state every row and every handler local has the type the
\* schema and the code give it (TypeOK), for every instance of the constants.
THEOREM TypeCorrect == Spec => []TypeOK
BY TypeInit, TypeStep, PTL DEF Spec

-----------------------------------------------------------------------------
(* The trip: one reception, whole, at its destination; and the refinement of *)
(* the abstract handoff.                                                     *)

\* What the state says of a handler that is in a transaction on a baton.
LEMMA LockKept ==
  ASSUME TypeOK, LockInv, NEW r \in Requests, NEW step \in Steps, NEW w,
         Goto(r, step, w), UNCHANGED baton,
         step \in LockSteps =>
           /\ baton[w.token] = "ACTIVE"
           /\ \A q \in Requests \ {r} :
                pc[q] \in LockSteps => work[q].token # w.token
  PROVE  LockInv'
<1>1. pc'[r] = step /\ work'[r] = w
  BY DEF TypeOK, Goto
<1>2. \A q \in Requests \ {r} : pc'[q] = pc[q] /\ work'[q] = work[q]
  BY DEF TypeOK, Goto
<1>3. QED BY <1>1, <1>2 DEF LockInv

\* A handler that leaves lets go of its locks, and gives nobody another one.
LEMMA LockReturn ==
  ASSUME TypeOK, LockInv, NEW r \in Requests, Return(r),
         \A q \in Requests \ {r} :
           pc[q] \in LockSteps => baton'[work[q].token] = baton[work[q].token]
  PROVE  LockInv'
<1>1. pc'[r] = "idle"
  BY DEF TypeOK, Return, Goto
<1>2. \A q \in Requests \ {r} : pc'[q] = pc[q] /\ work'[q] = work[q]
  BY DEF TypeOK, Return, Goto
<1>3. QED BY <1>1, <1>2 DEF LockInv, LockSteps

\* A handler that goes on with the same baton and station stays at its
\* destination.
LEMMA PlaceKept ==
  ASSUME TypeOK, PlaceInv, NEW r \in Requests, NEW step, NEW w,
         Goto(r, step, w),
         step \in AcceptSteps => leg'[w.token].station \in {None, w.at},
         \A t \in Tokens : leg[t] # None => leg'[t] = leg[t]
  PROVE  PlaceInv'
<1>1. pc'[r] = step /\ work'[r] = w
  BY DEF TypeOK, Goto
<1>2. ASSUME NEW q \in Requests \ {r}, pc'[q] \in AcceptSteps
      PROVE  leg'[work'[q].token].station \in {None, work'[q].at}
  <2>1. pc'[q] = pc[q] /\ work'[q] = work[q]
    BY DEF TypeOK, Goto
  <2>2. work[q].token \in Tokens /\ leg[work[q].token] # None
    BY <1>2, <2>1 DEF TypeOK, WorkFits, AcceptWork
  <2>3. QED BY <1>2, <2>1, <2>2 DEF PlaceInv
<1>3. QED BY <1>1, <1>2 DEF PlaceInv

\* A handler that returns no longer is at any place.
LEMMA PlaceReturn ==
  ASSUME TypeOK, PlaceInv, NEW r \in Requests, Return(r),
         \A t \in Tokens : leg[t] # None => leg'[t] = leg[t]
  PROVE  PlaceInv'
BY PlaceKept DEF Return, AcceptSteps

\* Nothing was dispatched or received in the beginning.
LEMMA TripInit == Init => TripInv
<1> SUFFICES ASSUME Init PROVE TripInv
  OBVIOUS
<1>1. LockInv /\ PlaceInv
  BY DEF Init, LockInv, LockSteps, PlaceInv, AcceptSteps
<1>2. ASSUME NEW t \in Paper PROVE t \in Tokens /\ PaperLeg[t] # None /\ PaperLeg[t].station = None
  BY ConstantsAssumption
<1>3. RowInv
  BY <1>2 DEF Init, RowInv
<1>4. QED BY <1>1, <1>3 DEF TripInv

\* The rows of the trips as they were.
LEMMA RowKept == RowInv /\ UNCHANGED tripVars => RowInv'
BY DEF RowInv, tripVars

\* A handler that only reads.
LEMMA TripRead ==
  ASSUME TypeOK, TripInv, NEW r \in Requests,
         IssueQuota(r) \/ IssueCistern(r) \/ IssueTrip(r) \/ IssueLoad(r)
           \/ AcceptConsume(r) \/ AcceptSettle(r) \/ AcceptUnmeasured(r)
           \/ AcceptUnload(r) \/ AcceptOverflow(r) \/ Abort(r)
  PROVE  TripInv' /\ UNCHANGED <<baton, receipts, measured, receivedAt>>
<1>0. /\ UNCHANGED tripVars
      /\ UNCHANGED <<baton, leg, receipts, measured, receivedAt>>
  BY DEF dbVars, tripVars, IssueQuota, IssueCistern, IssueTrip, IssueLoad, AcceptConsume,
     AcceptSettle, AcceptUnmeasured, AcceptUnload, AcceptOverflow, Abort
<1>1. RowInv'
  BY <1>0, RowKept DEF TripInv
<1>2. CASE Return(r)
  BY <1>0, <1>1, <1>2, LockReturn, PlaceReturn DEF TripInv
<1>3. ASSUME NEW step \in {"cistern", "trip", "load", "withdraw"}, NEW w, Goto(r, step, w)
      PROVE  TripInv'
  <2>1. step \in Steps /\ step \notin LockSteps /\ step \notin AcceptSteps
    BY DEF Steps, IssueSteps, LockSteps, AcceptSteps
  <2>2. LockInv'
    BY <1>0, <1>3, <2>1, LockKept DEF TripInv
  <2>3. PlaceInv'
    BY <1>0, <1>3, <2>1, PlaceKept DEF TripInv
  <2>4. QED BY <1>1, <2>2, <2>3 DEF TripInv
<1>4. ASSUME NEW step \in LockSteps, NEW w, Goto(r, step, w),
             pc[r] \in AcceptSteps, w.token = work[r].token, w.at = work[r].at,
             baton[w.token] = "ACTIVE",
             \A q \in Requests \ {r} : pc[q] \in LockSteps => work[q].token # w.token
      PROVE  TripInv'
  <2>1. step \in Steps
    BY DEF Steps, AcceptSteps, LockSteps
  <2>2. LockInv'
    BY <1>0, <1>4, <2>1, LockKept DEF TripInv
  <2>3. leg[w.token].station \in {None, w.at}
    BY <1>4 DEF TripInv, PlaceInv
  <2>4. PlaceInv'
    BY <1>0, <1>4, <2>3, PlaceKept DEF TripInv
  <2>5. QED BY <1>1, <2>2, <2>4 DEF TripInv
<1>5. CASE IssueQuota(r) \/ IssueCistern(r) \/ IssueTrip(r) \/ IssueLoad(r)
  BY <1>0, <1>2, <1>3, <1>5 DEF IssueQuota, IssueCistern, IssueTrip, IssueLoad
<1>6. CASE AcceptConsume(r)
  <2> DEFINE row == batch[leg[work[r].token].batch]
             w == [work[r] EXCEPT !.status = row.status, !.delivered = row.delivered]
  <2>1. CASE baton[work[r].token] = "ACTIVE" /\ Goto(r, "settle", w)
    <3>1. work[r] \in AcceptWork /\ pc[r] \in AcceptSteps /\ "settle" \in LockSteps
      BY <1>6 DEF TypeOK, WorkFits, AcceptConsume, AcceptSteps, LockSteps
    <3>2. w.token = work[r].token /\ w.at = work[r].at
      BY <3>1 DEF AcceptWork
    <3>3. \A q \in Requests \ {r} : pc[q] \in LockSteps => work[q].token # work[r].token
      BY <1>6 DEF AcceptConsume, CanLock, WaitsFor, HoldsBaton, LockSteps
    <3> HIDE DEF w
    <3>4. QED BY <1>0, <1>4, <2>1, <3>1, <3>2, <3>3
  <2>2. QED BY <1>2, <1>6, <2>1 DEF AcceptConsume
<1>7. ASSUME pc[r] \in LockSteps
      PROVE  /\ baton[work[r].token] = "ACTIVE" /\ pc[r] \in AcceptSteps
             /\ \A q \in Requests \ {r} : pc[q] \in LockSteps => work[q].token # work[r].token
             /\ work[r] \in AcceptWork
  BY <1>7 DEF TripInv, LockInv, LockSteps, AcceptSteps, TypeOK, WorkFits
<1>8. CASE AcceptSettle(r)
  <2> DEFINE c == leg[work[r].token].cistern
             w == [work[r] EXCEPT !.row = IF c = None THEN None ELSE cistern[c]]
  <2>1. pc[r] \in LockSteps /\ "unload" \in LockSteps /\ Goto(r, "unload", w)
    BY <1>8 DEF AcceptSettle, LockSteps
  <2>2. w.token = work[r].token /\ w.at = work[r].at
    BY <1>7, <2>1 DEF AcceptWork
  <2> HIDE DEF w
  <2>3. QED BY <1>0, <1>4, <1>7, <2>1, <2>2
<1>9. CASE AcceptUnload(r)
  <2> DEFINE s == work[r].at
             w == [work[r] EXCEPT !.stock = IF s \in Tanked THEN tank[s] ELSE 0]
  <2>1. pc[r] \in LockSteps /\ "stock" \in LockSteps /\ Goto(r, "stock", w)
    BY <1>9 DEF AcceptUnload, LockSteps
  <2>2. w.token = work[r].token /\ w.at = work[r].at
    BY <1>7, <2>1 DEF AcceptWork
  <2> HIDE DEF w
  <2>3. QED BY <1>0, <1>4, <1>7, <2>1, <2>2
<1>10. QED
  BY <1>0, <1>2, <1>5, <1>6, <1>8, <1>9 DEF AcceptUnmeasured, AcceptOverflow, Abort

\* A request that arrives locks nothing, and was checked for its destination.
LEMMA TripStart ==
  ASSUME TypeOK, TripInv, NEW r \in Requests, Arrive(r)
  PROVE  TripInv' /\ UNCHANGED <<baton, receipts, measured, receivedAt>>
<1>0. /\ UNCHANGED tripVars
      /\ UNCHANGED <<baton, leg, receipts, measured, receivedAt>>
  BY DEF dbVars, tripVars, Arrive, IssueStart, AcceptStart, AcceptEmbedded
<1>1. RowInv'
  BY <1>0, RowKept DEF TripInv
<1>2. ASSUME NEW w, Goto(r, "quota", w) PROVE TripInv'
  <2>1. "quota" \in Steps /\ "quota" \notin LockSteps /\ "quota" \notin AcceptSteps
    BY DEF Steps, IssueSteps, LockSteps, AcceptSteps
  <2>2. LockInv'
    BY <1>0, <1>2, <2>1, LockKept DEF TripInv
  <2>3. PlaceInv'
    BY <1>0, <1>2, <2>1, PlaceKept DEF TripInv
  <2>4. QED BY <1>1, <2>2, <2>3 DEF TripInv
<1>3. ASSUME NEW t \in Tokens, NEW at \in Stations \cup {None}, NEW v,
             AcceptStart(r, t, at, v) \/ AcceptEmbedded(r, t, at, v)
      PROVE  TripInv'
  <2> DEFINE w == AcceptLocals(t, at, v)
  <2>1. w.token = t /\ w.at = StationOf(at, t)
    BY DEF AcceptLocals
  <2>2. leg[t].station \in {None, StationOf(at, t)}
    BY <1>3 DEF AcceptStart, AcceptEmbedded, AtDestination, TripInv, RowInv
  <2>3. PICK step \in {"consume", "mint"} : Goto(r, step, w)
    BY <1>3 DEF AcceptStart, AcceptEmbedded
  <2>4. step \in Steps /\ step \notin LockSteps
    BY DEF Steps, AcceptSteps, LockSteps
  <2> HIDE DEF w
  <2>5. LockInv'
    BY <1>0, <2>3, <2>4, LockKept DEF TripInv
  <2>6. PlaceInv'
    BY <1>0, <2>1, <2>2, <2>3, PlaceKept DEF TripInv
  <2>7. QED BY <1>1, <2>5, <2>6 DEF TripInv
<1>4. QED BY <1>0, <1>2, <1>3 DEF Arrive, IssueStart

\* What one step does to the abstract handoff.
HandoffStep == [Promise!Next]_(Promise!handoffVars)

\* The names the abstract handoff has for the statuses of a baton.
LEMMA StageNames ==
  /\ StageOf("ABSENT") = "absent" /\ StageOf("ACTIVE") = "open"
  /\ StageOf("CONSUMED") = "received" /\ StageOf("EXPIRED") = "lapsed"
BY DEF StageOf

\* A trip row that is created is fresh, hence absent from the abstract handoff.
LEMMA TripIssueCommit ==
  ASSUME TypeOK, TripInv, NEW r \in Requests, IssueCommit(r)
  PROVE  TripInv' /\ HandoffStep
<1> DEFINE w == work[r]
           row == [batch |-> w.batch, cistern |-> w.cistern,
                   station |-> w.station, vol |-> w.vol]
<1>1. PICK t \in FreeTokens :
        /\ baton' = [baton EXCEPT ![t] = "ACTIVE"]
        /\ delivery' = [delivery EXCEPT ![t] = "IN_TRANSIT"]
        /\ leg' = [leg EXCEPT ![t] = row]
  BY DEF IssueCommit
<1>2. t \in Tokens /\ t \notin Paper /\ leg[t] = None
  BY DEF FreeTokens
<1>3. baton[t] = "ABSENT" /\ delivery[t] = "ABSENT" /\ receipts[t] = 0 /\ settlement[t] = None
  BY <1>2 DEF TripInv, RowInv
<1>4. row.station # None /\ row # None
  <2>1. w \in IssueWork
    BY DEF TypeOK, WorkFits, IssueCommit, IssueSteps
  <2>2. row \in Legs /\ w.station \in Stations
    <3>1. w.vol \in Nat
      BY <2>1, ConstantsAssumption DEF IssueWork
    <3>2. QED BY <2>1, <3>1 DEF IssueWork, Legs
  <2>3. QED BY <2>2, ConstantsAssumption
<1>5. UNCHANGED <<receipts, measured, receivedAt, settlement>>
  BY DEF IssueCommit
<1>6. \A q \in Tokens \ {t} : UNCHANGED <<baton[q], delivery[q], leg[q]>>
  BY <1>1, <1>2 DEF TypeOK
<1>7. baton'[t] = "ACTIVE" /\ delivery'[t] = "IN_TRANSIT" /\ leg'[t] = row
  BY <1>1, <1>2 DEF TypeOK
<1> HIDE DEF row
<1>8. RowInv'
  BY <1>2, <1>3, <1>4, <1>5, <1>6, <1>7 DEF TripInv, RowInv
<1>9. LockInv'
  <2>1. \A q \in Requests : pc[q] \in LockSteps =>
          work[q].token \in Tokens /\ work[q].token # t
    BY <1>3 DEF TypeOK, WorkFits, AcceptWork, AcceptSteps, LockSteps, TripInv, LockInv
  <2>2. Return(r)
    BY DEF IssueCommit
  <2>3. QED BY <1>6, <2>1, <2>2, LockReturn DEF TripInv
<1>10. PlaceInv'
  <2>1. Return(r)
    BY DEF IssueCommit
  <2>2. \A q \in Tokens : leg[q] # None => leg'[q] = leg[q]
    BY <1>2, <1>6
  <2>3. QED BY <2>1, <2>2, PlaceReturn DEF TripInv
<1>11. HandoffStep
  <2>1. Promise!Open(t)
    <3>1. [q \in Tokens |-> StageOf(baton[q])]' = [[q \in Tokens |-> StageOf(baton[q])] EXCEPT ![t] = "open"]
      BY <1>2, <1>6, <1>7, StageNames DEF TypeOK
    <3>2. [q \in Tokens |-> StageOf(baton[q])][t] = "absent"
      BY <1>2, <1>3, StageNames DEF TypeOK
    <3>3. QED BY <1>5, <3>1, <3>2 DEF Promise!Open
  <2>2. QED BY <1>2, <2>1 DEF HandoffStep, Promise!Next
<1>12. QED BY <1>8, <1>9, <1>10, <1>11 DEF TripInv

\* One baton changes its status, before any reception of it.
LEMMA BatonMoves ==
  ASSUME TypeOK, TripInv, NEW t \in Tokens, NEW s \in {"ACTIVE", "EXPIRED"},
         baton' = [baton EXCEPT ![t] = s],
         \/ baton[t] = "ABSENT" /\ s = "ACTIVE" /\ t \in Paper
         \/ baton[t] = "ACTIVE" /\ s = "EXPIRED",
         UNCHANGED <<leg, receipts, measured, receivedAt, delivery, settlement>>
  PROVE  RowInv' /\ HandoffStep
<1>1. baton'[t] = s /\ (\A q \in Tokens \ {t} : baton'[q] = baton[q])
  BY DEF TypeOK
<1>2. RowInv'
  BY <1>1 DEF TripInv, RowInv
<1>3. HandoffStep
  <2>1. CASE baton[t] = "ABSENT" /\ s = "ACTIVE"
    <3>1. [q \in Tokens |-> StageOf(baton[q])]' = [[q \in Tokens |-> StageOf(baton[q])] EXCEPT ![t] = "open"]
      BY <1>1, <2>1, StageNames DEF TypeOK
    <3>2. [q \in Tokens |-> StageOf(baton[q])][t] = "absent"
      BY <2>1, StageNames DEF TypeOK
    <3>3. QED BY <3>1, <3>2 DEF HandoffStep, Promise!Next, Promise!Open
  <2>2. CASE baton[t] = "ACTIVE" /\ s = "EXPIRED"
    <3>1. [q \in Tokens |-> StageOf(baton[q])]' = [[q \in Tokens |-> StageOf(baton[q])] EXCEPT ![t] = "lapsed"]
      BY <1>1, <2>2, StageNames DEF TypeOK
    <3>2. [q \in Tokens |-> StageOf(baton[q])][t] = "open"
      BY <2>2, StageNames DEF TypeOK
    <3>3. QED BY <3>1, <3>2 DEF HandoffStep, Promise!Next, Promise!Lapse
  <2>3. QED BY <2>1, <2>2
<1>4. QED BY <1>2, <1>3

\* A step that leaves the baton and its reception alone is none of the handoff.
LEMMA HandoffStutters ==
  UNCHANGED <<baton, receipts, measured, receivedAt>> => HandoffStep
BY DEF HandoffStep, Promise!handoffVars

\* The row minted from a printed code opens the handoff; a late check lapses it.
LEMMA TripMintCheck ==
  ASSUME TypeOK, TripInv, NEW r \in Requests, AcceptMint(r) \/ AcceptCheck(r)
  PROVE  TripInv' /\ HandoffStep
<1> DEFINE t == work[r].token
<1>1. /\ UNCHANGED <<leg, receipts, measured, receivedAt, delivery, settlement>>
      /\ work[r] \in AcceptWork /\ t \in Tokens /\ leg[t] # None
      /\ pc[r] \in AcceptSteps /\ "check" \in Steps /\ "consume" \in Steps
      /\ "check" \notin LockSteps /\ "consume" \notin LockSteps
  BY DEF AcceptMint, AcceptCheck, TypeOK, WorkFits, AcceptSteps, AcceptWork, Steps, LockSteps
<1>2. leg[t].station \in {None, work[r].at}
  BY <1>1 DEF TripInv, PlaceInv
<1>3. Return(r) \/ Goto(r, "check", work[r]) \/ Goto(r, "consume", work[r])
  BY DEF AcceptMint, AcceptCheck
<1>4. PlaceInv'
  BY <1>1, <1>2, <1>3, PlaceKept, PlaceReturn DEF TripInv
<1>5. CASE UNCHANGED baton
  <2>1. LockInv'
    BY <1>1, <1>3, <1>5, LockKept, LockReturn DEF TripInv
  <2>2. RowInv'
    BY <1>1, <1>5, RowKept DEF TripInv, tripVars
  <2>3. QED BY <1>1, <1>4, <1>5, <2>1, <2>2, HandoffStutters DEF TripInv
<1>6. CASE baton[t] = "ABSENT" /\ baton' = [baton EXCEPT ![t] = "ACTIVE"]
  <2>1. t \in Paper
    BY <1>1, <1>6 DEF TripInv, RowInv
  <2>2. RowInv' /\ HandoffStep
    BY <1>1, <1>6, <2>1, BatonMoves
  <2>3. \A q \in Requests : pc[q] \in LockSteps => baton[work[q].token] = "ACTIVE"
    BY DEF TripInv, LockInv
  <2>4. LockInv'
    <3>1. \A q \in Requests : pc'[q] \in LockSteps => pc'[q] = pc[q] /\ work'[q] = work[q]
      BY <1>1, <1>3 DEF TypeOK, Goto, Return, LockSteps
    <3>2. \A q \in Requests : pc[q] \in LockSteps => baton'[work[q].token] = "ACTIVE"
      BY <1>1, <1>6, <2>3 DEF TypeOK, WorkFits, AcceptWork, AcceptSteps, LockSteps
    <3>3. QED BY <3>1, <3>2 DEF TripInv, LockInv
  <2>5. QED BY <1>4, <2>2, <2>4 DEF TripInv
<1>7. CASE /\ baton[t] = "ACTIVE" /\ baton' = [baton EXCEPT ![t] = "EXPIRED"]
           /\ pc[r] = "check" /\ CanLock(r) /\ Return(r)
  <2>1. RowInv' /\ HandoffStep
    BY <1>1, <1>7, BatonMoves
  <2>2. ASSUME NEW q \in Requests \ {r}, pc[q] \in LockSteps
        PROVE  baton'[work[q].token] = baton[work[q].token]
    <3>1. work[q].token # t
      BY <1>7, <2>2 DEF CanLock, WaitsFor, HoldsBaton, LockSteps
    <3>2. work[q].token \in Tokens
      BY <2>2 DEF TypeOK, WorkFits, AcceptWork, AcceptSteps, LockSteps
    <3>3. QED BY <1>7, <3>1, <3>2 DEF TypeOK
  <2>3. LockInv'
    BY <1>7, <2>2, LockReturn DEF TripInv
  <2>4. QED BY <1>4, <2>1, <2>3 DEF TripInv
<1>8. CASE AcceptMint(r)
  <2>1. CASE baton[t] = "ABSENT"
    BY <1>6, <1>8, <2>1 DEF AcceptMint
  <2>2. CASE baton[t] # "ABSENT"
    <3>1. baton' = [baton EXCEPT ![t] = baton[t]]
      BY <1>8, <2>2 DEF AcceptMint
    <3>2. UNCHANGED baton
      BY <1>1, <3>1 DEF TypeOK
    <3>3. QED BY <1>5, <3>2
  <2>3. QED BY <2>1, <2>2
<1>9. CASE AcceptCheck(r)
  <2>1. CASE elapsed[t]
    <3>1. /\ baton' = [baton EXCEPT ![t] = IF baton[t] = "ACTIVE" THEN "EXPIRED" ELSE baton[t]]
          /\ pc[r] = "check" /\ CanLock(r) /\ Return(r)
      BY <1>9, <2>1 DEF AcceptCheck
    <3>2. CASE baton[t] = "ACTIVE"
      BY <1>7, <3>1, <3>2
    <3>3. CASE baton[t] # "ACTIVE"
      <4>1. UNCHANGED baton
        BY <1>1, <3>1, <3>3 DEF TypeOK
      <4>2. QED BY <1>5, <4>1
    <3>4. QED BY <3>2, <3>3
  <2>2. CASE ~elapsed[t]
    BY <1>5, <1>9, <2>2 DEF AcceptCheck
  <2>3. QED BY <2>1, <2>2
<1>10. QED BY <1>8, <1>9

\* The reception: all that is written of a trip is written together.
LEMMA TripAcceptCommit ==
  ASSUME TypeOK, TripInv, NEW r \in Requests, AcceptCommit(r)
  PROVE  TripInv' /\ HandoffStep
<1> DEFINE w == work[r]
           t == w.token
<1>1. /\ t \in Tokens /\ leg[t] # None /\ pc[r] \in LockSteps /\ pc[r] \in AcceptSteps
      /\ w.vol \in Int /\ w.at \in Stations \cup {None}
  BY DEF TypeOK, WorkFits, AcceptCommit, AcceptSteps, AcceptWork, LockSteps
<1>2. /\ baton[t] = "ACTIVE"
      /\ \A q \in Requests \ {r} : pc[q] \in LockSteps => work[q].token # t
  BY <1>1 DEF TripInv, LockInv
<1>3. receipts[t] = 0 /\ delivery[t] # "DELIVERED" /\ settlement[t] = None
  <2>1. CASE t \in Paper
    BY <1>1, <1>2, <2>1 DEF TripInv, RowInv
  <2>2. CASE t \notin Paper
    BY <1>1, <1>2, <2>2 DEF TripInv, RowInv
  <2>3. QED BY <2>1, <2>2
<1>4. leg[t].station \in {None, w.at}
  BY <1>1 DEF TripInv, PlaceInv
<1>5. /\ baton'[t] = "CONSUMED" /\ receipts'[t] = 1 /\ measured'[t] = w.vol
      /\ receivedAt'[t] = w.at /\ UNCHANGED leg
  BY <1>1, <1>3 DEF AcceptCommit, TypeOK
<1>6. /\ delivery'[t] = IF t \in Paper THEN delivery[t] ELSE "DELIVERED"
      /\ settlement'[t] = IF t \in Paper THEN None ELSE Settled(w.vol)
  BY <1>1, <1>3 DEF AcceptCommit, TypeOK
<1>7. \A q \in Tokens \ {t} :
        UNCHANGED <<baton[q], receipts[q], measured[q], receivedAt[q], delivery[q], settlement[q]>>
  BY <1>1 DEF AcceptCommit, TypeOK
<1>8. Return(r)
  BY DEF AcceptCommit
<1> HIDE DEF w
<1>9. RowInv'
  BY <1>1, <1>2, <1>4, <1>5, <1>6, <1>7 DEF TripInv, RowInv
<1>10. LockInv'
  <2>1. \A q \in Requests : pc[q] \in LockSteps => work[q].token \in Tokens
    BY DEF TypeOK, WorkFits, AcceptWork, AcceptSteps, LockSteps
  <2>2. QED BY <1>2, <1>7, <1>8, <2>1, LockReturn DEF TripInv
<1>11. PlaceInv'
  BY <1>5, <1>8, PlaceReturn DEF TripInv
<1>12. HandoffStep
  <2>1. [q \in Tokens |-> StageOf(baton[q])]'
          = [[q \in Tokens |-> StageOf(baton[q])] EXCEPT ![t] = "received"]
    <3>1. baton'[t] = "CONSUMED" /\ \A q \in Tokens \ {t} : baton'[q] = baton[q]
      BY <1>5, <1>7
    <3> HIDE DEF t
    <3>2. QED BY <1>1, <3>1, StageNames
  <2>2. [q \in Tokens |-> StageOf(baton[q])][t] = "open"
    BY <1>1, <1>2, StageNames
  <2>3. receipts' = [receipts EXCEPT ![t] = receipts[t] + 1]
    BY DEF AcceptCommit, w
  <2>4. /\ measured' = [measured EXCEPT ![t] = measured'[t]] /\ measured'[t] \in Int
        /\ receivedAt' = [receivedAt EXCEPT ![t] = receivedAt'[t]]
        /\ receivedAt'[t] \in Stations \cup {None}
    <3>1. /\ measured' = [measured EXCEPT ![t] = w.vol]
          /\ receivedAt' = [receivedAt EXCEPT ![t] = w.at]
      BY DEF AcceptCommit, w
    <3>2. QED BY <1>1, <1>5, <3>1
  <2>5. Promise!Receive(t)
    BY <2>1, <2>2, <2>3, <2>4 DEF Promise!Receive
  <2>6. QED BY <1>1, <2>5 DEF HandoffStep, Promise!Next
<1>13. QED BY <1>9, <1>10, <1>11, <1>12 DEF TripInv

\* Expiry lapses a handoff; audits and time do nothing to it.
LEMMA TripWorld ==
  ASSUME TypeOK, TripInv,
         \/ \E t \in Tokens : Expire(t) \/ Elapse(t)
         \/ \E b \in Audited : AuditCreate(b)
  PROVE  TripInv' /\ HandoffStep
<1>1. CASE UNCHANGED <<tripVars, pc, work>>
  <2>1. UNCHANGED <<baton, leg, receipts, measured, receivedAt, delivery, settlement, pc, work>>
    BY <1>1 DEF tripVars
  <2>2. LockInv' /\ PlaceInv' /\ RowInv'
    BY <2>1 DEF TripInv, LockInv, PlaceInv, RowInv
  <2>3. QED BY <2>1, <2>2, HandoffStutters DEF TripInv
<1>2. ASSUME NEW t \in Tokens, Expire(t) PROVE TripInv' /\ HandoffStep
  <2>1. RowInv' /\ HandoffStep
    BY <1>2, BatonMoves DEF Expire
  <2>2. \A q \in Requests : pc[q] \in LockSteps =>
          work[q].token \in Tokens /\ work[q].token # t
    BY <1>2 DEF Expire, BatonFree, HoldsBaton, TypeOK, WorkFits, AcceptWork, AcceptSteps, LockSteps
  <2>3. /\ UNCHANGED <<pc, work, leg>>
        /\ \A q \in Tokens \ {t} : baton'[q] = baton[q]
    BY <1>2 DEF Expire, TypeOK
  <2>4. LockInv' /\ PlaceInv'
    BY <2>2, <2>3 DEF TripInv, LockInv, PlaceInv
  <2>5. QED BY <2>1, <2>4 DEF TripInv
<1>3. QED BY <1>1, <1>2 DEF Elapse, AuditCreate, dbVars

\* Every step keeps the invariant of the trips and is a step, or a stutter, of
\* the abstract handoff.
LEMMA TripStep == TypeOK /\ TripInv /\ [Next]_vars => TripInv' /\ HandoffStep
<1> SUFFICES ASSUME TypeOK, TripInv, [Next]_vars PROVE TripInv' /\ HandoffStep
  OBVIOUS
<1>1. CASE UNCHANGED vars
  <2>1. UNCHANGED <<baton, leg, receipts, measured, receivedAt, delivery, settlement, pc, work>>
    BY <1>1 DEF vars, tripVars
  <2>2. LockInv' /\ PlaceInv' /\ RowInv'
    BY <2>1 DEF TripInv, LockInv, PlaceInv, RowInv
  <2>3. QED BY <2>1, <2>2, HandoffStutters DEF TripInv
<1>2. ASSUME NEW r \in Requests, Arrive(r) \/ Step(r) \/ Abort(r)
      PROVE  TripInv' /\ HandoffStep
  <2>1. CASE TripInv' /\ UNCHANGED <<baton, receipts, measured, receivedAt>>
    BY <2>1, HandoffStutters
  <2>2. QED
    BY <1>2, <2>1, TripRead, TripStart, TripIssueCommit, TripMintCheck, TripAcceptCommit
    DEF Step
<1>3. QED BY <1>1, <1>2, TripWorld DEF Next

\* The invariant of the trips holds in every reachable state.
LEMMA TripCorrect == Spec => [](TypeOK /\ TripInv)
BY TypeInit, TypeStep, TripInit, TripStep, PTL DEF Spec

\* However many accepts race for a baton, whatever expires, aborts or is printed
\* on paper, a baton records at most one reception, and exactly when it is
\* consumed (OneReception): accept's conditional update and its rollback.
THEOREM OneReceptionHolds == Spec => []OneReception
<1>1. TypeOK /\ TripInv => OneReception
  BY DEF TripInv, RowInv, OneReception
<1>2. QED BY <1>1, TripCorrect, PTL

\* Baton, delivery and settlement of a dispatched trip change together
\* (ReceptionIsWhole): accept writes them in one transaction.
THEOREM ReceptionIsWholeHolds == Spec => []ReceptionIsWhole
<1>1. TypeOK /\ TripInv => ReceptionIsWhole
  BY DEF TypeOK, TripInv, RowInv, ReceptionIsWhole, Settled
<1>2. QED BY <1>1, TripCorrect, PTL

\* A delivered trip was received where it was dispatched to
\* (ReceivedAtDestination): accept compares the station before the transaction,
\* and nothing in between can change either side.
THEOREM ReceivedAtDestinationHolds == Spec => []ReceivedAtDestination
<1>1. TypeOK /\ TripInv => ReceivedAtDestination
  BY DEF TypeOK, TripInv, RowInv, ReceivedAtDestination
<1>2. QED BY <1>1, TripCorrect, PTL

\* The handlers implement the abstract one-shot handoff (ImplementsHandoff):
\* every step of theirs opens, receives or lapses one handoff or leaves all of
\* them alone, so what was received or has lapsed stays as it is.
THEOREM HandoffImplemented == Spec => ImplementsHandoff
<1>1. Init => Promise!Init
  <2> SUFFICES ASSUME Init PROVE Promise!Init
    OBVIOUS
  <2>1. [t \in Tokens |-> StageOf(baton[t])] = [t \in Tokens |-> "absent"]
    BY StageNames DEF Init
  <2>2. measured \in [Tokens -> Int] /\ receivedAt \in [Tokens -> Stations \cup {None}]
    BY DEF Init
  <2>3. QED BY <2>1, <2>2 DEF Init, Promise!Init
<1>2. TypeOK /\ TripInv /\ [Next]_vars => HandoffStep
  BY TripStep
<1>3. QED BY <1>1, <1>2, TripCorrect, PTL DEF Spec, ImplementsHandoff, Promise!Spec, HandoffStep

-----------------------------------------------------------------------------
(* The stocks: what is read within bounds is written within bounds. *)

ReadsFit == \A r \in Requests : ReadFits(pc[r], work[r])

\* One handler moves; trips that exist keep their cistern.
LEMMA ReadsKept ==
  ASSUME TypeOK, ReadsFit, NEW r \in Requests, NEW step, NEW w,
         Goto(r, step, w), UNCHANGED leg, ReadFits(step, w)
  PROVE  ReadsFit'
<1>1. pc'[r] = step /\ work'[r] = w
  BY DEF TypeOK, Goto
<1>2. \A q \in Requests \ {r} : pc'[q] = pc[q] /\ work'[q] = work[q]
  BY DEF TypeOK, Goto
<1>3. QED BY <1>1, <1>2 DEF ReadsFit, ReadFits

\* A handler that returns has read nothing it could still write.
LEMMA ReadsReturn ==
  ASSUME TypeOK, ReadsFit, NEW r \in Requests, Return(r),
         \A t \in Tokens : leg[t] # None => leg'[t] = leg[t]
  PROVE  ReadsFit'
<1>1. pc'[r] = "idle"
  BY DEF TypeOK, Return, Goto
<1>2. ASSUME NEW q \in Requests \ {r} PROVE ReadFits(pc[q], work[q])'
  <2>1. pc'[q] = pc[q] /\ work'[q] = work[q]
    BY DEF TypeOK, Return, Goto
  <2>2. pc[q] \in AcceptSteps => leg'[work[q].token] = leg[work[q].token]
    BY DEF TypeOK, WorkFits, AcceptWork
  <2>3. QED BY <2>1, <2>2 DEF ReadsFit, ReadFits
<1>3. QED BY <1>1, <1>2 DEF ReadsFit, ReadFits, IssueSteps, AcceptSteps

\* The stocks start within their bounds.
LEMMA StockInit == Init => StockInv
<1> SUFFICES ASSUME Init PROVE StockInv
  OBVIOUS
<1>1. StockWithinBounds
  BY ConstantsAssumption DEF Init, StockWithinBounds
<1>2. ASSUME NEW r \in Requests PROVE ReadFits(pc[r], work[r])
  BY DEF Init, ReadFits, IssueSteps, AcceptSteps
<1>3. QED BY <1>1, <1>2 DEF StockInv

\* The checks of issue establish what its transaction relies on.
LEMMA StockIssueReads ==
  ASSUME TypeOK, StockInv, NEW r \in Requests,
         IssueQuota(r) \/ IssueCistern(r) \/ IssueTrip(r) \/ IssueLoad(r)
  PROVE  ReadsFit'
<1>1. UNCHANGED leg /\ ReadsFit /\ work[r] \in IssueWork
  BY DEF dbVars, tripVars, IssueQuota, IssueCistern, IssueTrip, IssueLoad, StockInv,
     ReadsFit, TypeOK, WorkFits, IssueSteps
<1>2. ReadFits(pc[r], work[r])
  BY DEF StockInv
<1>3. CASE Return(r)
  BY <1>1, <1>3, ReadsReturn
<1>4. CASE IssueQuota(r)
  <2>1. ReadFits("cistern", work[r])
    BY <1>2, <1>4 DEF IssueQuota, ReadFits, IssueSteps, AcceptSteps
  <2>2. QED BY <1>1, <1>3, <1>4, <2>1, ReadsKept DEF IssueQuota
<1>5. CASE IssueCistern(r)
  <2> DEFINE w == [work[r] EXCEPT !.row = cistern[work[r].cistern]]
  <2>1. cistern[work[r].cistern].load \in 0..CisternCap[work[r].cistern]
    BY <1>1 DEF IssueWork, StockInv, StockWithinBounds
  <2>2. w.row = cistern[work[r].cistern] /\ w.cistern = work[r].cistern
    BY <1>1 DEF IssueWork
  <2>3. ReadFits("trip", w)
    BY <2>1, <2>2 DEF ReadFits, IssueSteps, AcceptSteps
  <2>4. Return(r) \/ Goto(r, "trip", w)
    BY <1>5 DEF IssueCistern
  <2> HIDE DEF w
  <2>5. QED BY <1>1, <1>3, <2>3, <2>4, ReadsKept
<1>6. CASE IssueTrip(r)
  <2>1. Return(r) \/ (/\ CisternCanLoad(CisternCap[work[r].cistern], work[r].row.load, work[r].vol)
                      /\ Goto(r, "load", work[r]))
    BY <1>6 DEF IssueTrip
  <2>2. CisternCanLoad(CisternCap[work[r].cistern], work[r].row.load, work[r].vol)
          => ReadFits("load", work[r])
    BY <1>2, <1>6 DEF IssueTrip, CisternCanLoad, ReadFits, IssueSteps, AcceptSteps
  <2>3. QED BY <1>1, <1>3, <2>1, <2>2, ReadsKept
<1>7. CASE IssueLoad(r)
  <2> DEFINE w == [work[r] EXCEPT !.stock = depot]
  <2>1. Return(r) \/ (StockCovers(depot, work[r].vol) /\ Goto(r, "withdraw", w))
    BY <1>7 DEF IssueLoad
  <2>2. /\ w.row = work[r].row /\ w.cistern = work[r].cistern
        /\ w.vol = work[r].vol /\ w.stock = depot
    BY <1>1 DEF IssueWork
  <2>3. depot \in 0..DepotInit
    BY DEF StockInv, StockWithinBounds
  <2>4. StockCovers(depot, work[r].vol) => ReadFits("withdraw", w)
    BY <1>2, <1>7, <2>2, <2>3 DEF IssueLoad, StockCovers, ReadFits, IssueSteps, AcceptSteps
  <2> HIDE DEF w
  <2>5. QED BY <1>1, <1>3, <2>1, <2>4, ReadsKept
<1>8. QED BY <1>4, <1>5, <1>6, <1>7

\* What an accept reads of a cistern or a tank was within bounds when read.
LEMMA StockAcceptReads ==
  ASSUME TypeOK, StockInv, NEW r \in Requests,
         AcceptMint(r) \/ AcceptCheck(r) \/ AcceptConsume(r) \/ AcceptSettle(r)
           \/ AcceptUnmeasured(r) \/ AcceptUnload(r) \/ AcceptOverflow(r) \/ Abort(r)
  PROVE  ReadsFit'
<1>1. UNCHANGED leg /\ ReadsFit
  BY DEF dbVars, tripVars, AcceptMint, AcceptCheck, AcceptConsume, AcceptSettle,
     AcceptUnmeasured, AcceptUnload, AcceptOverflow, Abort, StockInv, ReadsFit
<1>2. ReadFits(pc[r], work[r])
  BY DEF StockInv
<1>3. CASE Return(r)
  BY <1>1, <1>3, ReadsReturn
<1>4. ASSUME pc[r] \in AcceptSteps
      PROVE  work[r] \in AcceptWork /\ leg[work[r].token] \in Legs
  BY <1>4, ConstantsAssumption DEF TypeOK, WorkFits, AcceptWork
<1>5. CASE AcceptMint(r) \/ AcceptCheck(r)
  <2>1. ReadFits("check", work[r]) /\ ReadFits("consume", work[r])
    BY <1>2, <1>5 DEF AcceptMint, AcceptCheck, ReadFits, IssueSteps, AcceptSteps
  <2>2. Return(r) \/ Goto(r, "check", work[r]) \/ Goto(r, "consume", work[r])
    BY <1>5 DEF AcceptMint, AcceptCheck
  <2>3. QED BY <1>1, <1>3, <2>1, <2>2, ReadsKept
<1>6. CASE AcceptConsume(r)
  <2> DEFINE row == batch[leg[work[r].token].batch]
             w == [work[r] EXCEPT !.status = row.status, !.delivered = row.delivered]
  <2>1. Return(r) \/ Goto(r, "settle", w)
    BY <1>6 DEF AcceptConsume
  <2>2. w.row = work[r].row /\ w.token = work[r].token
    BY <1>4, <1>6 DEF AcceptConsume, AcceptWork, AcceptSteps
  <2>3. ReadFits("settle", w)
    BY <1>2, <1>6, <2>2 DEF AcceptConsume, ReadFits, IssueSteps, AcceptSteps
  <2> HIDE DEF w
  <2>4. QED BY <1>1, <1>3, <2>1, <2>3, ReadsKept
<1>7. CASE AcceptSettle(r)
  <2> DEFINE c == leg[work[r].token].cistern
             w == [work[r] EXCEPT !.row = IF c = None THEN None ELSE cistern[c]]
  <2>1. pc[r] \in AcceptSteps /\ Goto(r, "unload", w)
    BY <1>7 DEF AcceptSettle, AcceptSteps
  <2>2. w.token = work[r].token /\ w.row = IF c = None THEN None ELSE cistern[c]
    BY <1>4, <2>1 DEF AcceptWork
  <2>3. c # None => cistern[c].load \in 0..CisternCap[c]
    BY <1>4, <2>1 DEF Legs, StockInv, StockWithinBounds
  <2>4. ReadFits("unload", w)
    BY <2>2, <2>3 DEF ReadFits, IssueSteps, AcceptSteps
  <2> HIDE DEF w
  <2>5. QED BY <1>1, <2>1, <2>4, ReadsKept
<1>8. CASE AcceptUnload(r)
  <2> DEFINE s == work[r].at
             w == [work[r] EXCEPT !.stock = IF s \in Tanked THEN tank[s] ELSE 0]
  <2>1. pc[r] = "unload" /\ pc[r] \in AcceptSteps /\ Goto(r, "stock", w)
    BY <1>8 DEF AcceptUnload, AcceptSteps
  <2>2. /\ w.token = work[r].token /\ w.row = work[r].row /\ w.at = s
        /\ w.stock = IF s \in Tanked THEN tank[s] ELSE 0
    BY <1>4, <2>1 DEF AcceptWork
  <2>3. s \in Tanked => tank[s] \in 0..TankCap[s]
    BY DEF StockInv, StockWithinBounds
  <2>4. ReadFits("stock", w)
    BY <1>2, <2>1, <2>2, <2>3 DEF ReadFits, IssueSteps, AcceptSteps
  <2> HIDE DEF w
  <2>5. QED BY <1>1, <2>1, <2>4, ReadsKept
<1>9. QED BY <1>3, <1>5, <1>6, <1>7, <1>8 DEF AcceptUnmeasured, AcceptOverflow, Abort

\* A request that arrives has read no stock yet.
LEMMA StockStart ==
  ASSUME TypeOK, StockInv, NEW r \in Requests, Arrive(r)
  PROVE  ReadsFit'
<1>1. UNCHANGED leg /\ ReadsFit
  BY DEF dbVars, tripVars, Arrive, IssueStart, AcceptStart, AcceptEmbedded, StockInv, ReadsFit
<1>2. ASSUME NEW step \in {"quota", "consume", "mint"}, NEW w, w.row = None, Goto(r, step, w)
      PROVE  ReadsFit'
  <2>1. ReadFits(step, w)
    BY <1>2 DEF ReadFits
  <2>2. QED BY <1>1, <1>2, <2>1, ReadsKept
<1>3. ASSUME NEW b \in Batches, NEW c \in Cisterns, NEW s \in Stations,
             NEW v \in Volumes, NEW u \in Users, IssueStart(r, b, c, s, v, u)
      PROVE  ReadsFit'
  <2> DEFINE w == [batch |-> b, cistern |-> c, station |-> s, vol |-> v,
                   user |-> u, status |-> batch[b].status,
                   delivered |-> batch[b].delivered, row |-> None, stock |-> 0]
  <2>1. w.row = None /\ Goto(r, "quota", w)
    BY <1>3 DEF IssueStart
  <2> HIDE DEF w
  <2>2. QED BY <1>2, <2>1
<1>4. ASSUME NEW t \in Tokens, NEW at \in Stations \cup {None}, NEW v,
             AcceptStart(r, t, at, v) \/ AcceptEmbedded(r, t, at, v)
      PROVE  ReadsFit'
  <2> DEFINE w == AcceptLocals(t, at, v)
  <2>1. w.row = None /\ (Goto(r, "consume", w) \/ Goto(r, "mint", w))
    BY <1>4 DEF AcceptStart, AcceptEmbedded, AcceptLocals
  <2> HIDE DEF w
  <2>2. QED BY <1>2, <2>1
<1>5. QED BY <1>3, <1>4 DEF Arrive

\* A dispatch writes a load that fits the cistern and a depot that covers it.
LEMMA StockIssueCommit ==
  ASSUME TypeOK, StockInv, NEW r \in Requests, IssueCommit(r)
  PROVE  StockInv'
<1> DEFINE w == work[r]
<1>1. /\ w \in IssueWork /\ w.row # None /\ w.row \in CisternRows
      /\ pc[r] = "withdraw" /\ pc[r] \in IssueSteps
  BY DEF TypeOK, WorkFits, IssueCommit, IssueSteps, IssueWork
<1>2. /\ w.cistern \in Cisterns /\ w.vol \in Nat /\ CisternCap[w.cistern] \in Nat
  BY <1>1, ConstantsAssumption DEF IssueWork
<1>3. ReadFits("withdraw", w)
  BY <1>1 DEF StockInv
<1>4. w.row.load + w.vol \in 0..CisternCap[w.cistern] /\ w.stock - w.vol \in 0..DepotInit
  BY <1>1, <1>2, <1>3, ConstantsAssumption DEF ReadFits
<1>5. PICK t \in FreeTokens :
        /\ leg' = [leg EXCEPT ![t] = [batch |-> w.batch, cistern |-> w.cistern,
                                      station |-> w.station, vol |-> w.vol]]
        /\ cistern' = [cistern EXCEPT ![w.cistern] =
                         [load |-> w.row.load + w.vol, status |-> "IN_TRANSIT",
                          batch |-> w.batch,
                          driver |-> IF w.row.driver = None THEN w.user ELSE w.row.driver]]
        /\ depot' = w.stock - w.vol
  BY DEF IssueCommit
<1>6. UNCHANGED tank /\ Return(r)
  BY DEF IssueCommit
<1>7. /\ cistern'[w.cistern].load = w.row.load + w.vol
      /\ \A c \in Cisterns \ {w.cistern} : cistern'[c] = cistern[c]
  BY <1>2, <1>5 DEF TypeOK
<1>8. \A u \in Tokens : leg[u] # None => leg'[u] = leg[u]
  BY <1>5 DEF TypeOK, FreeTokens
<1>9. ReadsFit'
  BY <1>6, <1>8, ReadsReturn DEF StockInv, ReadsFit
<1> HIDE DEF w
<1>10. StockWithinBounds'
  BY <1>4, <1>5, <1>6, <1>7 DEF StockInv, StockWithinBounds
<1>11. QED BY <1>9, <1>10 DEF StockInv, ReadsFit

\* A reception writes a load no higher than the one read, and a stock that fits.
LEMMA StockAcceptCommit ==
  ASSUME TypeOK, StockInv, NEW r \in Requests, AcceptCommit(r)
  PROVE  StockInv'
<1> DEFINE w == work[r]
           c == leg[w.token].cistern
           rest == w.row.load - Unload(w.vol, w.row.load)
<1>1. /\ w \in AcceptWork /\ pc[r] = "stock" /\ pc[r] \in AcceptSteps
      /\ leg[w.token] \in Legs /\ (w.row # None => c # None)
      /\ UNCHANGED <<leg, depot>> /\ Return(r)
  BY ConstantsAssumption DEF TypeOK, WorkFits, AcceptCommit, AcceptSteps, AcceptWork
<1>2. ReadFits("stock", w)
  BY <1>1 DEF StockInv
<1>3. ReadsFit'
  BY <1>1, ReadsReturn DEF StockInv, ReadsFit
<1>4. ASSUME NEW s \in Tanked PROVE tank'[s] \in 0..TankCap[s]
  <2>1. CASE s = w.at
    <3>1. StockAccepts(w.stock, w.vol, TankCap[s])
      BY <2>1 DEF AcceptCommit
    <3>2. w.stock \in 0..TankCap[s] /\ TankCap[s] \in Nat /\ w.vol \in Int
      BY <1>1, <1>2, <2>1, ConstantsAssumption DEF ReadFits, AcceptWork
    <3>3. tank'[s] = w.stock + w.vol
      BY <2>1 DEF AcceptCommit, TypeOK
    <3> HIDE DEF w
    <3>4. QED BY <3>1, <3>2, <3>3 DEF StockAccepts
  <2>2. CASE s # w.at
    <3>1. tank'[s] = tank[s]
      BY <2>2 DEF AcceptCommit, TypeOK
    <3>2. QED BY <3>1 DEF StockInv, StockWithinBounds
  <2>3. QED BY <2>1, <2>2
<1>5. ASSUME NEW d \in Cisterns PROVE cistern'[d].load \in 0..CisternCap[d]
  <2>1. CASE Unloads(w) /\ d = c
    <3>1. w.row \in CisternRows /\ w.vol \in Int
      BY <1>1, <2>1 DEF Unloads, AcceptWork
    <3>2. w.row.load \in 0..CisternCap[d] /\ CisternCap[d] \in Nat
      BY <1>1, <1>2, <2>1, ConstantsAssumption DEF Unloads, ReadFits, AcceptSteps
    <3>3. rest \in 0..CisternCap[d]
      BY <2>1, <3>1, <3>2 DEF Unloads, Unload, CisternRows
    <3>4. cistern' = [cistern EXCEPT ![d] = Unloaded(cistern[d], w)]
      BY <2>1 DEF AcceptCommit
    <3>5. cistern[d] \in CisternRows
      BY DEF TypeOK
    <3>6. Unloaded(cistern[d], w).load = rest
      BY <3>5 DEF Unloaded, CisternRows
    <3>7. cistern'[d] = Unloaded(cistern[d], w)
      BY <3>4 DEF TypeOK
    <3> HIDE DEF rest
    <3>8. QED BY <3>3, <3>6, <3>7
  <2>2. CASE ~(Unloads(w) /\ d = c)
    <3>1. cistern'[d] = cistern[d]
      BY <2>2 DEF AcceptCommit, TypeOK
    <3>2. QED BY <3>1 DEF StockInv, StockWithinBounds
  <2>3. QED BY <2>1, <2>2
<1>6. StockWithinBounds'
  BY <1>1, <1>4, <1>5 DEF StockInv, StockWithinBounds
<1>7. QED BY <1>3, <1>6 DEF StockInv, ReadsFit

\* No step takes a stock out of its bounds, however old the reads it writes from.
LEMMA StockStep == TypeOK /\ StockInv /\ [Next]_vars => StockInv'
<1> SUFFICES ASSUME TypeOK, StockInv, [Next]_vars PROVE StockInv'
  OBVIOUS
<1>1. ASSUME UNCHANGED <<cistern, tank, depot>>, ReadsFit' PROVE StockInv'
  BY <1>1 DEF StockInv, StockWithinBounds, ReadsFit
<1>2. ASSUME UNCHANGED <<leg, pc, work>> PROVE ReadsFit'
  BY <1>2 DEF StockInv, ReadsFit, ReadFits
<1>3. CASE UNCHANGED vars
  BY <1>1, <1>2, <1>3 DEF vars, tripVars, stockVars
<1>4. ASSUME NEW r \in Requests, Arrive(r) \/ Step(r) \/ Abort(r) PROVE StockInv'
  <2>1. CASE IssueCommit(r) \/ AcceptCommit(r)
    BY <2>1, StockIssueCommit, StockAcceptCommit
  <2>2. CASE Arrive(r)
    <3>1. UNCHANGED <<cistern, tank, depot>>
      BY <2>2 DEF Arrive, IssueStart, AcceptStart, AcceptEmbedded, dbVars, stockVars
    <3>2. QED BY <1>1, <2>2, <3>1, StockStart
  <2>3. CASE IssueQuota(r) \/ IssueCistern(r) \/ IssueTrip(r) \/ IssueLoad(r)
    <3>1. UNCHANGED <<cistern, tank, depot>>
      BY <2>3 DEF IssueQuota, IssueCistern, IssueTrip, IssueLoad, dbVars, stockVars
    <3>2. QED BY <1>1, <2>3, <3>1, StockIssueReads
  <2>4. CASE AcceptMint(r) \/ AcceptCheck(r) \/ AcceptConsume(r) \/ AcceptSettle(r)
             \/ AcceptUnmeasured(r) \/ AcceptUnload(r) \/ AcceptOverflow(r) \/ Abort(r)
    <3>1. UNCHANGED <<cistern, tank, depot>>
      BY <2>4 DEF AcceptMint, AcceptCheck, AcceptConsume, AcceptSettle, AcceptUnmeasured,
         AcceptUnload, AcceptOverflow, Abort, dbVars, stockVars
    <3>2. QED BY <1>1, <2>4, <3>1, StockAcceptReads
  <2>5. QED BY <1>4, <2>1, <2>2, <2>3, <2>4 DEF Step
<1>5. ASSUME NEW t \in Tokens, Expire(t) \/ Elapse(t) PROVE StockInv'
  BY <1>1, <1>2, <1>5 DEF Expire, Elapse, dbVars, tripVars, stockVars
<1>6. ASSUME NEW b \in Audited, AuditCreate(b) PROVE StockInv'
  BY <1>1, <1>2, <1>6 DEF AuditCreate, tripVars
<1>7. QED BY <1>3, <1>4, <1>5, <1>6 DEF Next

\* No tank, cistern or depot ever leaves its bounds (StockWithinBounds), however
\* stale the row a handler computes with: each write is the result of a check
\* made on the very value it was computed from.
THEOREM StockWithinBoundsHolds == Spec => []StockWithinBounds
<1>1. TypeOK /\ StockInv => StockWithinBounds
  BY DEF StockInv
<1>2. Spec => [](TypeOK /\ StockInv)
  BY TypeInit, TypeStep, StockInit, StockStep, PTL DEF Spec
<1>3. QED BY <1>1, <1>2, PTL

-----------------------------------------------------------------------------
(* The books: what sums over the custody events explain. *)

\* Only finitely many trips were dispatched or received so far.
FiniteInv == IsFiniteSet(Dispatched) /\ IsFiniteSet(Received)

\* A printed code names no cistern, a dispatch one that exists.
LegsInv ==
    /\ \A t \in Paper : leg[t].cistern = None
    /\ \A t \in Dispatched : leg[t].cistern \in Cisterns

EventsInv == TypeOK /\ TripInv /\ StockInv /\ FiniteInv /\ LegsInv

\* What the custody events and the trips depend on.
eventVars == <<leg, receipts, measured, receivedAt, delivery>>

\* Litres that rows l of trips T say.
VolumesOf(l, T) == SumFunction([t \in T |-> l[t].vol])

\* Loaded and Measured as sums, in this state and in the next.
LEMMA LoadedIs ==
  /\ \A T : Loaded(T) = VolumesOf(leg, T)
  /\ \A T : Measured(T) = SumFunctionOnSet(measured, T)
BY DEF Loaded, VolumesOf, Measured

\* One more trip, the rows of the others as they were.
LEMMA VolumesAdd ==
  ASSUME NEW l, NEW k, NEW S, IsFiniteSet(S), NEW x, x \notin S,
         \A y \in S : k[y] = l[y] /\ l[y].vol \in Int, k[x].vol \in Int
  PROVE  VolumesOf(k, S \cup {x}) = VolumesOf(l, S) + k[x].vol
<1> DEFINE f == [t \in S |-> l[t].vol]
           g == [t \in S \cup {x} |-> k[t].vol]
<1>1. DOMAIN f = S /\ DOMAIN g = S \cup {x} /\ g[x] = k[x].vol
  OBVIOUS
<1>2. \A y \in S : g[y] = f[y] /\ f[y] \in Int
  OBVIOUS
<1>3. g[x] \in Int
  BY <1>1
<1>4. VolumesOf(k, S \cup {x}) = SumFunctionOnSet(g, S \cup {x}) /\ VolumesOf(l, S) = SumFunctionOnSet(f, S)
  BY <1>1 DEF VolumesOf, SumFunction
<1> HIDE DEF f, g
<1>5. SumFunctionOnSet(g, S \cup {x}) = SumFunctionOnSet(f, S) + g[x]
  BY <1>2, <1>3, SumExtends
<1>6. QED BY <1>1, <1>4, <1>5

\* The sum over finitely many trips is a number.
LEMMA VolumesInt ==
  ASSUME NEW l, NEW S, IsFiniteSet(S), \A y \in S : l[y].vol \in Int
  PROVE  VolumesOf(l, S) \in Int
<1> DEFINE f == [t \in S |-> l[t].vol]
<1>1. \A y \in S : f[y] \in Int
  OBVIOUS
<1>2. VolumesOf(l, S) = SumFunctionOnSet(f, S)
  BY DEF VolumesOf, SumFunction
<1> HIDE DEF f
<1>3. QED BY <1>1, <1>2, SumInt

\* One trip less.
LEMMA VolumesTake ==
  ASSUME NEW l, NEW S, IsFiniteSet(S), NEW x \in S, \A y \in S : l[y].vol \in Int
  PROVE  VolumesOf(l, S \ {x}) = VolumesOf(l, S) - l[x].vol
<1>1. PICK R : R = S \ {x}
  OBVIOUS
<1>2. IsFiniteSet(R) /\ x \notin R /\ R \cup {x} = S /\ \A y \in R : l[y].vol \in Int
  BY <1>1, FS_Subset
<1>3. VolumesOf(l, R \cup {x}) = VolumesOf(l, R) + l[x].vol
  BY <1>2, VolumesAdd
<1>4. VolumesOf(l, R) \in Int /\ l[x].vol \in Int
  BY <1>2, VolumesInt
<1>5. VolumesOf(l, S) = VolumesOf(l, R) + l[x].vol
  BY <1>2, <1>3
<1>6. VolumesOf(l, R) = VolumesOf(l, S) - l[x].vol
  BY <1>4, <1>5
<1>7. QED BY <1>1, <1>6

\* The same trips, the same litres.
LEMMA VolumesSame ==
  ASSUME NEW l, NEW k, NEW S, \A y \in S : k[y] = l[y]
  PROVE  VolumesOf(k, S) = VolumesOf(l, S)
BY DEF VolumesOf

\* The sums of the books are numbers, over finitely many trips.
LEMMA BooksAreNumbers ==
  ASSUME EventsInv
  PROVE  /\ \A S : S \subseteq Received => IsFiniteSet(S) /\ Measured(S) \in Int
         /\ \A S : S \subseteq Dispatched => IsFiniteSet(S) /\ Loaded(S) \in Int
<1>1. ASSUME NEW S, S \subseteq Received PROVE IsFiniteSet(S) /\ Measured(S) \in Int
  <2>1. IsFiniteSet(S)
    BY <1>1, FS_Subset DEF EventsInv, FiniteInv
  <2>2. \A t \in S : measured[t] \in Int
    BY <1>1 DEF EventsInv, TypeOK, Received
  <2>3. QED BY <2>1, <2>2, SumInt DEF Measured
<1>2. ASSUME NEW S, S \subseteq Dispatched PROVE IsFiniteSet(S) /\ Loaded(S) \in Int
  <2>1. IsFiniteSet(S)
    BY <1>2, FS_Subset DEF EventsInv, FiniteInv
  <2>2. \A t \in S : leg[t].vol \in Int
    BY <1>2 DEF EventsInv, TypeOK, Dispatched, Legs
  <2>3. QED BY <2>1, <2>2, VolumesInt, LoadedIs
<1>3. QED BY <1>1, <1>2

\* An open trip was dispatched.
LEMMA OpenIsDispatched == TypeOK /\ TripInv => OpenTrips \subseteq Dispatched
<1> SUFFICES ASSUME TypeOK, TripInv, NEW t \in OpenTrips PROVE t \in Dispatched
  OBVIOUS
<1>1. t \in Tokens /\ delivery[t] = "IN_TRANSIT"
  BY DEF OpenTrips
<1>2. t \notin Paper /\ leg[t] # None
  BY <1>1 DEF TripInv, RowInv
<1>3. QED BY <1>1, <1>2 DEF Dispatched

\* A dispatch adds one trip that was never dispatched or received.
LEMMA Dispatching ==
  ASSUME TypeOK, TripInv, NEW r \in Requests, IssueCommit(r)
  PROVE  /\ work[r] \in IssueWork /\ work[r].row # None /\ work[r].row \in CisternRows
         /\ pc[r] = "withdraw" /\ Return(r)
         /\ \E t \in Tokens :
           /\ t \notin Dispatched /\ t \notin Received /\ t \notin OpenTrips
           /\ Dispatched' = Dispatched \cup {t} /\ Received' = Received
           /\ OpenTrips' = OpenTrips \cup {t}
           /\ \A u \in Tokens \ {t} : leg'[u] = leg[u]
           /\ leg'[t] = [batch |-> work[r].batch, cistern |-> work[r].cistern,
                         station |-> work[r].station, vol |-> work[r].vol]
           /\ cistern' = [cistern EXCEPT ![work[r].cistern] =
                [load |-> work[r].row.load + work[r].vol, status |-> "IN_TRANSIT",
                 batch |-> work[r].batch,
                 driver |-> IF work[r].row.driver = None THEN work[r].user ELSE work[r].row.driver]]
           /\ depot' = work[r].stock - work[r].vol
           /\ batch' = [batch EXCEPT ![work[r].batch].status =
                                       DispatchedStatus(@, work[r].status)]
           /\ UNCHANGED <<receipts, measured, receivedAt, tank>>
<1> DEFINE w == work[r]
           row == [batch |-> w.batch, cistern |-> w.cistern, station |-> w.station, vol |-> w.vol]
<1>1. /\ w \in IssueWork /\ w.row # None /\ w.row \in CisternRows
      /\ pc[r] = "withdraw" /\ Return(r) /\ UNCHANGED <<receipts, measured, receivedAt, tank>>
  BY DEF TypeOK, WorkFits, IssueCommit, IssueSteps, IssueWork
<1>2. PICK t \in FreeTokens :
        /\ baton' = [baton EXCEPT ![t] = "ACTIVE"]
        /\ delivery' = [delivery EXCEPT ![t] = "IN_TRANSIT"]
        /\ leg' = [leg EXCEPT ![t] = row]
        /\ cistern' = [cistern EXCEPT ![w.cistern] =
                         [load |-> w.row.load + w.vol, status |-> "IN_TRANSIT",
                          batch |-> w.batch,
                          driver |-> IF w.row.driver = None THEN w.user ELSE w.row.driver]]
        /\ depot' = w.stock - w.vol
        /\ batch' = [batch EXCEPT ![w.batch].status = DispatchedStatus(@, w.status)]
  BY DEF IssueCommit
<1>3. t \in Tokens /\ t \notin Paper /\ leg[t] = None
  BY DEF FreeTokens
<1>4. delivery[t] = "ABSENT" /\ receipts[t] = 0
  BY <1>3 DEF TripInv, RowInv
<1>5. row # None
  <2>1. w.vol \in Nat
    BY <1>1, ConstantsAssumption DEF IssueWork
  <2>2. row \in Legs
    BY <1>1, <2>1 DEF IssueWork, Legs
  <2>3. QED BY <2>2, ConstantsAssumption
<1>6. /\ leg'[t] = row /\ \A u \in Tokens \ {t} : leg'[u] = leg[u]
      /\ delivery'[t] = "IN_TRANSIT" /\ \A u \in Tokens \ {t} : delivery'[u] = delivery[u]
  BY <1>2, <1>3 DEF TypeOK
<1> HIDE DEF row
<1>7. t \notin Dispatched /\ t \notin OpenTrips /\ t \notin Received
  BY <1>3, <1>4 DEF Dispatched, OpenTrips, Received
<1>8. Dispatched' = Dispatched \cup {t} /\ OpenTrips' = OpenTrips \cup {t}
  BY <1>3, <1>5, <1>6 DEF Dispatched, OpenTrips
<1>9. Received' = Received
  BY <1>1 DEF Received
<1>10. QED BY <1>1, <1>2, <1>3, <1>6, <1>7, <1>8, <1>9, Zenon DEF row

\* A reception of a trip is its first, and closes it.
LEMMA Receiving ==
  ASSUME TypeOK, TripInv, NEW r \in Requests, AcceptCommit(r)
  PROVE  LET w == work[r]
             t == w.token
         IN /\ w \in AcceptWork /\ pc[r] = "stock" /\ Return(r)
            /\ t \in Tokens /\ leg[t] \in Legs /\ leg[t] # None /\ t \notin Received
            /\ (t \notin Paper => t \in OpenTrips)
            /\ Received' = Received \cup {t} /\ Dispatched' = Dispatched
            /\ OpenTrips' = OpenTrips \ {t}
            /\ measured'[t] = w.vol /\ receivedAt'[t] = w.at
            /\ \A u \in Tokens \ {t} : measured'[u] = measured[u] /\ receivedAt'[u] = receivedAt[u]
            /\ UNCHANGED <<leg, depot>>
<1> DEFINE w == work[r]
           t == w.token
<1>1. /\ w \in AcceptWork /\ t \in Tokens /\ leg[t] # None /\ pc[r] = "stock" /\ Return(r)
      /\ pc[r] \in LockSteps /\ UNCHANGED <<leg, depot>> /\ leg[t] \in Legs
  BY DEF TypeOK, WorkFits, AcceptCommit, AcceptSteps, AcceptWork, LockSteps
<1>2. baton[t] = "ACTIVE"
  BY <1>1 DEF TripInv, LockInv
<1>3. receipts[t] = 0 /\ (t \notin Paper => delivery[t] = "IN_TRANSIT")
      /\ (t \in Paper => delivery[t] = "ABSENT")
  <2>1. receipts[t] = 0 /\ (t \in Paper => delivery[t] = "ABSENT")
    BY <1>1, <1>2 DEF TripInv, RowInv
  <2>2. t \notin Paper => delivery[t] # "ABSENT" /\ delivery[t] # "DELIVERED"
    BY <1>1, <1>2 DEF TripInv, RowInv
  <2>3. delivery[t] \in {"ABSENT", "IN_TRANSIT", "DELIVERED"}
    BY <1>1 DEF TypeOK
  <2>4. QED BY <2>1, <2>2, <2>3
<1>4. /\ receipts' = [receipts EXCEPT ![t] = receipts[t] + 1]
      /\ measured' = [measured EXCEPT ![t] = w.vol]
      /\ receivedAt' = [receivedAt EXCEPT ![t] = w.at]
      /\ delivery' = [delivery EXCEPT ![t] = IF t \in Paper THEN delivery[t] ELSE "DELIVERED"]
  BY DEF AcceptCommit
<1>5. /\ receipts'[t] = 1 /\ measured'[t] = w.vol /\ receivedAt'[t] = w.at
      /\ delivery'[t] # "IN_TRANSIT"
      /\ \A u \in Tokens \ {t} :
           UNCHANGED <<receipts[u], measured[u], receivedAt[u], delivery[u]>>
  BY <1>1, <1>3, <1>4 DEF TypeOK
<1> HIDE DEF w, t
<1>6. Received' = Received \cup {t} /\ t \notin Received
  BY <1>1, <1>3, <1>5 DEF Received, TypeOK
<1>7. OpenTrips' = OpenTrips \ {t}
  BY <1>1, <1>5 DEF OpenTrips
<1>8. t \notin Paper => t \in OpenTrips
  BY <1>1, <1>3 DEF OpenTrips
<1>9. Dispatched' = Dispatched
  BY <1>1 DEF Dispatched
<1>10. QED BY <1>1, <1>5, <1>6, <1>7, <1>8, <1>9, Zenon DEF w, t

\* Every other step leaves the events alone, and the stocks.
LEMMA NoEvent ==
  ASSUME [Next]_vars
  PROVE  \/ \E r \in Requests : IssueCommit(r) \/ AcceptCommit(r)
         \/ UNCHANGED <<eventVars, cistern, tank, depot>>
<1> USE DEF eventVars, dbVars, tripVars, stockVars, vars
<1>1. CASE UNCHANGED vars
  BY <1>1
<1>2. ASSUME NEW r \in Requests, Arrive(r) \/ Abort(r)
      PROVE  UNCHANGED <<eventVars, cistern, tank, depot>>
  BY <1>2 DEF Arrive, IssueStart, AcceptStart, AcceptEmbedded, Abort
<1>3. ASSUME NEW r \in Requests, Step(r)
      PROVE  IssueCommit(r) \/ AcceptCommit(r) \/ UNCHANGED <<eventVars, cistern, tank, depot>>
  BY <1>3 DEF Step, IssueQuota, IssueCistern, IssueTrip, IssueLoad, AcceptMint, AcceptCheck,
     AcceptConsume, AcceptSettle, AcceptUnmeasured, AcceptUnload, AcceptOverflow
<1>4. ASSUME NEW t \in Tokens, Expire(t) \/ Elapse(t)
      PROVE  UNCHANGED <<eventVars, cistern, tank, depot>>
  BY <1>4 DEF Expire, Elapse
<1>5. ASSUME NEW b \in Audited, AuditCreate(b)
      PROVE  UNCHANGED <<eventVars, cistern, tank, depot>>
  BY <1>5 DEF AuditCreate
<1>6. QED BY <1>1, <1>2, <1>3, <1>4, <1>5 DEF Next

\* No step but a dispatch and a reception changes the sets of trips.
LEMMA SameTrips ==
  ASSUME UNCHANGED eventVars
  PROVE  /\ Dispatched' = Dispatched /\ Received' = Received /\ OpenTrips' = OpenTrips
         /\ \A b : ReceivedFor(b)' = ReceivedFor(b)
         /\ \A s : ReceivedIn(s)' = ReceivedIn(s)
         /\ UNCHANGED <<leg, measured>>
BY DEF eventVars, Dispatched, Received, OpenTrips, ReceivedFor, ReceivedIn

\* Each step adds at most one trip to the ones there are.
LEMMA FiniteStep == TypeOK /\ TripInv /\ FiniteInv /\ [Next]_vars => FiniteInv'
<1> SUFFICES ASSUME TypeOK, TripInv, FiniteInv, [Next]_vars PROVE FiniteInv'
  OBVIOUS
<1>1. ASSUME NEW r \in Requests, IssueCommit(r) PROVE FiniteInv'
  <2>1. \E t \in Tokens : Dispatched' = Dispatched \cup {t} /\ Received' = Received
    BY <1>1, Dispatching
  <2>2. QED BY <2>1, FS_AddElement DEF FiniteInv
<1>2. ASSUME NEW r \in Requests, AcceptCommit(r) PROVE FiniteInv'
  BY <1>2, Receiving, FS_AddElement DEF FiniteInv
<1>3. CASE UNCHANGED eventVars
  BY <1>3, SameTrips DEF FiniteInv
<1>4. QED BY <1>1, <1>2, <1>3, NoEvent

\* A new trip has its cistern, and the others keep theirs.
LEMMA LegsStep == TypeOK /\ TripInv /\ LegsInv /\ [Next]_vars => LegsInv'
<1> SUFFICES ASSUME TypeOK, TripInv, LegsInv, [Next]_vars PROVE LegsInv'
  OBVIOUS
<1>1. ASSUME NEW r \in Requests, IssueCommit(r) PROVE LegsInv'
  <2>1. PICK t \in Tokens :
          /\ Dispatched' = Dispatched \cup {t} /\ \A u \in Tokens \ {t} : leg'[u] = leg[u]
          /\ leg'[t] = [batch |-> work[r].batch, cistern |-> work[r].cistern,
                        station |-> work[r].station, vol |-> work[r].vol]
    BY <1>1, Dispatching, Zenon
  <2>2. leg'[t].cistern \in Cisterns
    <3>1. work[r] \in IssueWork
      BY <1>1, Dispatching
    <3>2. work[r].cistern \in Cisterns
      BY <3>1 DEF IssueWork
    <3>3. QED BY <2>1, <3>2
  <2>3. t \notin Paper /\ Paper \subseteq Tokens /\ Dispatched \subseteq Tokens
    BY <2>1, ConstantsAssumption DEF Dispatched
  <2>4. QED BY <2>1, <2>2, <2>3 DEF LegsInv
<1>2. ASSUME NEW r \in Requests, AcceptCommit(r) PROVE LegsInv'
  BY <1>2, Receiving DEF LegsInv
<1>3. CASE UNCHANGED eventVars
  BY <1>3, SameTrips DEF LegsInv
<1>4. QED BY <1>1, <1>2, <1>3, NoEvent

\* No trip is there in the beginning.
LEMMA NoTripYet == Init => Dispatched = {} /\ Received = {} /\ OpenTrips = {}
BY DEF Init, Dispatched, Received, OpenTrips

\* What the previous sections and this one establish of every state.
LEMMA EventsCorrect == Spec => []EventsInv
<1>1. Init => FiniteInv
  BY NoTripYet, FS_EmptySet DEF FiniteInv
<1>2. Init => LegsInv
  BY NoTripYet, ConstantsAssumption DEF Init, LegsInv
<1>3. QED BY <1>1, <1>2, TypeInit, TypeStep, TripInit, TripStep, StockInit, StockStep,
             FiniteStep, LegsStep, PTL DEF Spec, EventsInv

-----------------------------------------------------------------------------
(* The books may lag behind the events, and never run ahead of them. *)

\* No station reported less than nothing.
NothingNegative == \A t \in Received : measured[t] >= 0

\* What a handler read of a stock or a batch, the events explain by now.
ReadLags(step, w) ==
    /\ step \in LockSteps =>
         w.delivered >= 0 /\ w.delivered <= Measured(ReceivedFor(leg[w.token].batch))
    /\ step = "stock" /\ w.at \in Tanked => w.stock <= TankInit[w.at] + Measured(ReceivedIn(w.at))
    /\ step = "withdraw" => w.stock >= DepotInit - Loaded(Dispatched)

ReadsLag == \A r \in Requests : ReadLags(pc[r], work[r])

NoneDelivered == \A b \in Batches : batch[b].delivered >= 0

LagInv == NothingNegative => BooksOnlyLag /\ NoneDelivered /\ ReadsLag

\* What the events explain never becomes less.
NoLess(more, less) == more \in Int /\ less \in Int /\ more >= less

ExplainsMore ==
    /\ \A b : NoLess(Measured(ReceivedFor(b))', Measured(ReceivedFor(b)))
    /\ \A s : NoLess(Measured(ReceivedIn(s))', Measured(ReceivedIn(s)))
    /\ NoLess(Loaded(Dispatched)', Loaded(Dispatched))

\* The litres of a reception count for its batch and its station, once.
LEMMA ReceptionCounts ==
  ASSUME EventsInv, NEW r \in Requests, AcceptCommit(r)
  PROVE  LET w == work[r] IN
         /\ \A b : Measured(ReceivedFor(b))' =
              Measured(ReceivedFor(b)) + (IF b = leg[w.token].batch THEN w.vol ELSE 0)
         /\ \A s : Measured(ReceivedIn(s))' =
              Measured(ReceivedIn(s)) + (IF s = w.at THEN w.vol ELSE 0)
         /\ Loaded(Dispatched)' = Loaded(Dispatched)
<1> DEFINE w == work[r]
           t == w.token
<1>1. /\ t \notin Received /\ Received' = Received \cup {t} /\ Dispatched' = Dispatched
      /\ measured'[t] = w.vol /\ receivedAt'[t] = w.at /\ w.vol \in Int /\ t \in Tokens
      /\ \A u \in Tokens \ {t} : measured'[u] = measured[u] /\ receivedAt'[u] = receivedAt[u]
      /\ UNCHANGED leg
  BY Receiving DEF EventsInv, AcceptWork
<1>2. Received \subseteq Tokens /\ \A u \in Tokens : measured[u] \in Int
  BY DEF Received, EventsInv, TypeOK
<1> HIDE DEF w, t
<1>3. ASSUME NEW S, S \subseteq Received
      PROVE  /\ SumFunctionOnSet(measured', S \cup {t}) = SumFunctionOnSet(measured, S) + w.vol
             /\ SumFunctionOnSet(measured', S) = SumFunctionOnSet(measured, S)
             /\ SumFunctionOnSet(measured, S) \in Int
  <2>1. IsFiniteSet(S) /\ SumFunctionOnSet(measured, S) \in Int
    BY <1>3, BooksAreNumbers DEF Measured
  <2>2. t \notin S /\ \A u \in S : measured'[u] = measured[u] /\ measured[u] \in Int
    BY <1>1, <1>2, <1>3
  <2>3. measured'[t] \in Int
    BY <1>1
  <2>4. SumFunctionOnSet(measured', S \cup {t}) = SumFunctionOnSet(measured, S) + measured'[t]
    BY <2>1, <2>2, <2>3, SumExtends
  <2>5. SumFunctionOnSet(measured', S) = SumFunctionOnSet(measured, S)
    BY <2>1, <2>2, SumSame
  <2>6. QED BY <1>1, <2>1, <2>4, <2>5
<1>4. ASSUME NEW b
      PROVE  Measured(ReceivedFor(b))' = Measured(ReceivedFor(b)) + (IF b = leg[t].batch THEN w.vol ELSE 0)
  <2>1. ReceivedFor(b)' = IF b = leg[t].batch THEN ReceivedFor(b) \cup {t} ELSE ReceivedFor(b)
    BY <1>1 DEF ReceivedFor
  <2>2. ReceivedFor(b) \subseteq Received
    BY DEF ReceivedFor
  <2>3. Measured(ReceivedFor(b))' = SumFunctionOnSet(measured', ReceivedFor(b)')
        /\ Measured(ReceivedFor(b)) = SumFunctionOnSet(measured, ReceivedFor(b))
    BY DEF Measured
  <2>4. CASE b = leg[t].batch
    BY <1>3, <2>1, <2>2, <2>3, <2>4
  <2>5. CASE b # leg[t].batch
    <3>1. Measured(ReceivedFor(b))' = Measured(ReceivedFor(b)) /\ Measured(ReceivedFor(b)) \in Int
      BY <1>3, <2>1, <2>2, <2>3, <2>5
    <3>2. QED BY <2>5, <3>1
  <2>6. QED BY <2>4, <2>5
<1>5. ASSUME NEW s
      PROVE  Measured(ReceivedIn(s))' = Measured(ReceivedIn(s)) + (IF s = w.at THEN w.vol ELSE 0)
  <2>1. ReceivedIn(s)' = IF s = w.at THEN ReceivedIn(s) \cup {t} ELSE ReceivedIn(s)
    BY <1>1, <1>2 DEF ReceivedIn
  <2>2. ReceivedIn(s) \subseteq Received
    BY DEF ReceivedIn
  <2>3. Measured(ReceivedIn(s))' = SumFunctionOnSet(measured', ReceivedIn(s)')
        /\ Measured(ReceivedIn(s)) = SumFunctionOnSet(measured, ReceivedIn(s))
    BY DEF Measured
  <2>4. CASE s = w.at
    BY <1>3, <2>1, <2>2, <2>3, <2>4
  <2>5. CASE s # w.at
    <3>1. Measured(ReceivedIn(s))' = Measured(ReceivedIn(s)) /\ Measured(ReceivedIn(s)) \in Int
      BY <1>3, <2>1, <2>2, <2>3, <2>5
    <3>2. QED BY <2>5, <3>1
  <2>6. QED BY <2>4, <2>5
<1>6. Loaded(Dispatched)' = Loaded(Dispatched)
  BY <1>1 DEF Loaded
<1>7. QED BY <1>4, <1>5, <1>6 DEF w, t

\* A dispatch is of one litre or more.
LEMMA DispatchedLitres ==
  ASSUME EventsInv, NEW r \in Requests, IssueCommit(r)
  PROVE  work[r].vol \in Nat /\ work[r].vol > 0
<1>1. work[r] \in IssueWork
  BY Dispatching DEF EventsInv
<1>2. work[r].vol \in Volumes
  BY <1>1 DEF IssueWork
<1>3. QED BY <1>2, ConstantsAssumption

\* A dispatch counts for the depot and is no reception.
LEMMA DispatchCounts ==
  ASSUME EventsInv, NEW r \in Requests, IssueCommit(r)
  PROVE  /\ \A b : Measured(ReceivedFor(b))' = Measured(ReceivedFor(b))
         /\ \A s : Measured(ReceivedIn(s))' = Measured(ReceivedIn(s))
         /\ Loaded(Dispatched)' = Loaded(Dispatched) + work[r].vol
         /\ UNCHANGED <<measured, receipts, receivedAt>>
<1>1. PICK t \in Tokens :
        /\ t \notin Dispatched /\ t \notin Received
        /\ Dispatched' = Dispatched \cup {t} /\ Received' = Received
        /\ \A u \in Tokens \ {t} : leg'[u] = leg[u]
        /\ leg'[t] = [batch |-> work[r].batch, cistern |-> work[r].cistern,
                      station |-> work[r].station, vol |-> work[r].vol]
        /\ UNCHANGED <<receipts, measured, receivedAt>>
  BY Dispatching, Zenon DEF EventsInv
<1>2. \A b : ReceivedFor(b)' = ReceivedFor(b)
  BY <1>1 DEF ReceivedFor, Received
<1>3. \A s : ReceivedIn(s)' = ReceivedIn(s)
  BY <1>1 DEF ReceivedIn
<1>4. /\ \A b : Measured(ReceivedFor(b))' = Measured(ReceivedFor(b))
      /\ \A s : Measured(ReceivedIn(s))' = Measured(ReceivedIn(s))
  BY <1>1, <1>2, <1>3 DEF Measured
<1>5. Loaded(Dispatched)' = Loaded(Dispatched) + work[r].vol
  <2>1. leg'[t].vol = work[r].vol
    BY <1>1
  <2>2. work[r].vol \in Int
    BY DispatchedLitres
  <2>3. IsFiniteSet(Dispatched) /\ Dispatched \subseteq Tokens
    BY DEF EventsInv, FiniteInv, Dispatched
  <2>4. \A u \in Dispatched : leg'[u] = leg[u] /\ leg[u].vol \in Int
    BY <1>1, <2>3 DEF EventsInv, TypeOK, Dispatched, Legs
  <2>5. VolumesOf(leg', Dispatched \cup {t}) = VolumesOf(leg, Dispatched) + leg'[t].vol
    BY <1>1, <2>1, <2>2, <2>3, <2>4, VolumesAdd
  <2>6. Loaded(Dispatched)' = VolumesOf(leg', Dispatched') /\ Loaded(Dispatched) = VolumesOf(leg, Dispatched)
    BY DEF Loaded, VolumesOf
  <2>7. QED BY <1>1, <2>1, <2>5, <2>6
<1>6. QED BY <1>1, <1>4, <1>5

\* The explanation of the books as numbers.
LEMMA ExplanationTypes ==
  ASSUME EventsInv
  PROVE  /\ \A b : Measured(ReceivedFor(b)) \in Int
         /\ \A s : Measured(ReceivedIn(s)) \in Int
         /\ Loaded(Dispatched) \in Int
<1>1. (\A b : ReceivedFor(b) \subseteq Received) /\ \A s : ReceivedIn(s) \subseteq Received
  BY DEF ReceivedFor, ReceivedIn
<1>2. QED BY <1>1, BooksAreNumbers

\* As long as nothing negative is reported, every step explains more.
LEMMA MoreStep ==
  ASSUME EventsInv, [Next]_vars, NothingNegative'
  PROVE  ExplainsMore /\ NothingNegative
<1>1. ASSUME NEW r \in Requests, IssueCommit(r) PROVE ExplainsMore /\ NothingNegative
  <2>1. work[r].vol \in Nat
    BY <1>1, DispatchedLitres
  <2>2. ExplainsMore
    BY <1>1, <2>1, DispatchCounts, ExplanationTypes DEF ExplainsMore, NoLess
  <2>3. QED BY <1>1, <2>2, DispatchCounts DEF NothingNegative, Received
<1>2. ASSUME NEW r \in Requests, AcceptCommit(r) PROVE ExplainsMore /\ NothingNegative
  <2> DEFINE w == work[r]
  <2>1. /\ w.token \notin Received /\ Received' = Received \cup {w.token}
        /\ measured'[w.token] = w.vol /\ w.vol \in Int
        /\ \A u \in Tokens \ {w.token} : measured'[u] = measured[u]
    BY <1>2, Receiving DEF EventsInv, AcceptWork
  <2>2. w.vol >= 0
    BY <2>1 DEF NothingNegative
  <2>3. NothingNegative
    BY <2>1 DEF NothingNegative, Received
  <2>4. ExplainsMore
    BY <1>2, <2>1, <2>2, ReceptionCounts, ExplanationTypes DEF ExplainsMore, NoLess
  <2>5. QED BY <2>3, <2>4
<1>3. CASE UNCHANGED eventVars
  <2>1. ExplainsMore
    BY <1>3, SameTrips, ExplanationTypes DEF ExplainsMore, NoLess, Measured, Loaded
  <2>2. QED BY <1>3, <2>1, SameTrips DEF NothingNegative
<1>4. QED BY <1>1, <1>2, <1>3, NoEvent

\* The steps at which a handler holds something it read of the books.
Reading == LockSteps \cup {"withdraw"}

\* A handler that is elsewhere has read nothing of them.
LEMMA NothingRead == \A step, w : step \notin Reading => ReadLags(step, w)
BY DEF Reading, ReadLags, LockSteps

\* Who moves, and to where: the others stay.
LEMMA Movers ==
  ASSUME TypeOK, NEW r \in Requests, NEW step, NEW w, Goto(r, step, w)
  PROVE  /\ pc'[r] = step /\ work'[r] = w
         /\ \A q \in Requests \ {r} : pc'[q] = pc[q] /\ work'[q] = work[q]
BY DEF TypeOK, Goto

\* What a handler reads of the books lags behind the events.
LEMMA NewReads ==
  ASSUME EventsInv, BooksOnlyLag, NoneDelivered, ReadsLag, [Next]_vars, NEW q \in Requests
  PROVE  ReadLags(pc'[q], work'[q])
<1>0. TypeOK /\ ReadLags(pc[q], work[q])
  BY DEF EventsInv, ReadsLag
<1>1. CASE UNCHANGED <<pc, work>>
  BY <1>0, <1>1
<1>2. ASSUME NEW r \in Requests, NEW step, NEW w, Goto(r, step, w), ReadLags(step, w)
      PROVE  ReadLags(pc'[q], work'[q])
  BY <1>0, <1>2, Movers
<1>3. ASSUME NEW r \in Requests, Return(r) PROVE ReadLags(pc'[q], work'[q])
  <2>1. ReadLags("idle", None)
    BY NothingRead DEF Reading, LockSteps
  <2>2. QED BY <1>2, <1>3, <2>1 DEF Return
<1>4. ASSUME NEW r \in Requests, NEW step \in {"quota", "cistern", "trip", "load", "mint", "check", "consume"},
             NEW w, Goto(r, step, w)
      PROVE  ReadLags(pc'[q], work'[q])
  <2>1. ReadLags(step, w)
    BY NothingRead DEF Reading, LockSteps
  <2>2. QED BY <1>2, <1>4, <2>1
<1>5. ASSUME NEW r \in Requests, Arrive(r) PROVE ReadLags(pc'[q], work'[q])
  BY <1>4, <1>5 DEF Arrive, IssueStart, AcceptStart, AcceptEmbedded
<1>6. ASSUME NEW r \in Requests,
             \/ IssueQuota(r) \/ IssueCistern(r) \/ IssueTrip(r) \/ IssueCommit(r)
             \/ AcceptMint(r) \/ AcceptCheck(r) \/ AcceptUnmeasured(r) \/ AcceptCommit(r)
             \/ AcceptOverflow(r) \/ Abort(r)
      PROVE  ReadLags(pc'[q], work'[q])
  BY <1>3, <1>4, <1>6 DEF IssueQuota, IssueCistern, IssueTrip, IssueCommit, AcceptMint, AcceptCheck,
     AcceptUnmeasured, AcceptCommit, AcceptOverflow, Abort
<1>7. ASSUME NEW r \in Requests, IssueLoad(r) PROVE ReadLags(pc'[q], work'[q])
  <2> DEFINE w == [work[r] EXCEPT !.stock = depot]
  <2>1. work[r] \in IssueWork
    BY <1>0, <1>7 DEF IssueLoad, TypeOK, WorkFits, IssueSteps
  <2>2. w.stock = depot
    BY <2>1 DEF IssueWork
  <2>3. ReadLags("withdraw", w)
    BY <2>2 DEF ReadLags, LockSteps, BooksOnlyLag
  <2>4. Return(r) \/ Goto(r, "withdraw", w)
    BY <1>7 DEF IssueLoad
  <2> HIDE DEF w
  <2>5. QED BY <1>2, <1>3, <2>3, <2>4
<1>8. ASSUME NEW r \in Requests, pc[r] \in AcceptSteps
      PROVE  work[r] \in AcceptWork /\ leg[work[r].token] \in Legs /\ leg[work[r].token].batch \in Batches
  BY <1>0, <1>8, ConstantsAssumption DEF TypeOK, WorkFits, AcceptWork, Legs
<1>9. ASSUME NEW r \in Requests, AcceptConsume(r) PROVE ReadLags(pc'[q], work'[q])
  <2> DEFINE row == batch[leg[work[r].token].batch]
             w == [work[r] EXCEPT !.status = row.status, !.delivered = row.delivered]
  <2>1. pc[r] \in AcceptSteps
    BY <1>9 DEF AcceptConsume, AcceptSteps
  <2>2. w.delivered = row.delivered /\ w.token = work[r].token
    BY <1>8, <2>1 DEF AcceptWork
  <2>3. row.delivered >= 0 /\ row.delivered <= Measured(ReceivedFor(leg[work[r].token].batch))
    BY <1>8, <2>1 DEF NoneDelivered, BooksOnlyLag
  <2> HIDE DEF row
  <2>4. ReadLags("settle", w)
    BY <2>2, <2>3 DEF ReadLags
  <2>5. Return(r) \/ Goto(r, "settle", w)
    BY <1>9 DEF AcceptConsume, row
  <2> HIDE DEF w
  <2>6. QED BY <1>2, <1>3, <2>4, <2>5
<1>10. ASSUME NEW r \in Requests, AcceptSettle(r) PROVE ReadLags(pc'[q], work'[q])
  <2> DEFINE c == leg[work[r].token].cistern
             w == [work[r] EXCEPT !.row = IF c = None THEN None ELSE cistern[c]]
  <2>1. pc[r] \in AcceptSteps /\ pc[r] \in LockSteps /\ Goto(r, "unload", w)
    BY <1>10 DEF AcceptSettle, AcceptSteps, LockSteps
  <2>2. w.delivered = work[r].delivered /\ w.token = work[r].token
    BY <1>8, <2>1 DEF AcceptWork
  <2> HIDE DEF w
  <2>3. ReadLags("unload", w)
    BY <2>1, <2>2 DEF ReadLags, ReadsLag
  <2>4. QED BY <1>2, <2>1, <2>3
<1>11. ASSUME NEW r \in Requests, AcceptUnload(r) PROVE ReadLags(pc'[q], work'[q])
  <2> DEFINE s == work[r].at
             w == [work[r] EXCEPT !.stock = IF s \in Tanked THEN tank[s] ELSE 0]
  <2>1. pc[r] \in AcceptSteps /\ pc[r] \in LockSteps /\ Goto(r, "stock", w)
    BY <1>11 DEF AcceptUnload, AcceptSteps, LockSteps
  <2>2. /\ w.delivered = work[r].delivered /\ w.token = work[r].token /\ w.at = s
        /\ w.stock = IF s \in Tanked THEN tank[s] ELSE 0
    BY <1>8, <2>1 DEF AcceptWork
  <2> HIDE DEF w
  <2>3. ReadLags("stock", w)
    BY <2>1, <2>2 DEF ReadLags, ReadsLag, BooksOnlyLag
  <2>4. QED BY <1>2, <2>1, <2>3
<1>12. CASE \/ \E t \in Tokens : Expire(t) \/ Elapse(t)
            \/ \E b \in Audited : AuditCreate(b)
  BY <1>1, <1>12 DEF Expire, Elapse, AuditCreate
<1>13. QED
  BY <1>1, <1>5, <1>6, <1>7, <1>9, <1>10, <1>11, <1>12 DEF Next, Step, vars

\* What a handler holds still lags after a step that explains more.
LEMMA ReadsStillLag ==
  ASSUME TypeOK', ExplainsMore, NEW q \in Requests, ReadLags(pc'[q], work'[q]),
         pc'[q] \in LockSteps => leg'[work'[q].token].batch = leg[work'[q].token].batch
  PROVE  ReadLags(pc[q], work[q])'
<1>s. PICK step : step = pc'[q]
  OBVIOUS
<1>w. PICK w : w = work'[q]
  OBVIOUS
<1>b. PICK b : b = leg[w.token].batch
  OBVIOUS
<1>1. /\ step \in LockSteps => w.delivered \in Int /\ w.stock \in Int
      /\ step = "withdraw" => w.stock \in Int
  BY <1>s, <1>w DEF TypeOK, WorkFits, LockSteps, AcceptSteps, IssueSteps, AcceptWork, IssueWork
<1>2. ReadLags(step, w)
  BY <1>s, <1>w
<1>3. step \in LockSteps => leg'[w.token].batch = b
  BY <1>s, <1>w, <1>b
<1>4. ASSUME step \in LockSteps
      PROVE  w.delivered >= 0 /\ w.delivered <= Measured(ReceivedFor(b))'
  <2>1. w.delivered >= 0 /\ w.delivered <= Measured(ReceivedFor(b))
    BY <1>2, <1>4, <1>b DEF ReadLags
  <2>2. NoLess(Measured(ReceivedFor(b))', Measured(ReceivedFor(b)))
    BY DEF ExplainsMore
  <2>3. QED BY <1>1, <1>4, <2>1, <2>2 DEF NoLess
<1>5. ASSUME step = "stock" /\ w.at \in Tanked
      PROVE  w.stock <= TankInit[w.at] + Measured(ReceivedIn(w.at))'
  <2>1. w.stock <= TankInit[w.at] + Measured(ReceivedIn(w.at))
    BY <1>2, <1>5 DEF ReadLags
  <2>2. NoLess(Measured(ReceivedIn(w.at))', Measured(ReceivedIn(w.at)))
    BY DEF ExplainsMore
  <2>3. TankInit[w.at] \in Int /\ w.stock \in Int
    BY <1>1, <1>5, ConstantsAssumption DEF LockSteps
  <2>4. QED BY <2>1, <2>2, <2>3 DEF NoLess
<1>6. ASSUME step = "withdraw"
      PROVE  w.stock >= DepotInit - Loaded(Dispatched)'
  <2>1. w.stock >= DepotInit - Loaded(Dispatched)
    BY <1>2, <1>6 DEF ReadLags
  <2>2. NoLess(Loaded(Dispatched)', Loaded(Dispatched))
    BY DEF ExplainsMore
  <2>3. DepotInit \in Int /\ w.stock \in Int
    BY <1>1, <1>6, ConstantsAssumption
  <2>4. QED BY <2>1, <2>2, <2>3 DEF NoLess
<1>7. QED BY <1>s, <1>w, <1>3, <1>4, <1>5, <1>6 DEF ReadLags

\* A trip that an accept works on keeps what its rows say.
LEMMA HeldTripsStay ==
  ASSUME TypeOK, TypeOK', TripInv, [Next]_vars, NEW q \in Requests, pc'[q] \in AcceptSteps
  PROVE  leg'[work'[q].token] = leg[work'[q].token]
<1>1. ASSUME NEW r \in Requests, IssueCommit(r) PROVE leg'[work'[q].token] = leg[work'[q].token]
  <2>1. PICK t \in Tokens : /\ t \notin Dispatched /\ Dispatched' = Dispatched \cup {t}
                            /\ \A u \in Tokens \ {t} : leg'[u] = leg[u]
    BY <1>1, Dispatching, Zenon
  <2>2. Return(r)
    BY <1>1 DEF IssueCommit
  <2>3. pc'[q] = pc[q] /\ work'[q] = work[q]
    <3>1. "idle" \notin AcceptSteps
      BY DEF AcceptSteps
    <3>2. QED BY <2>2, <3>1, Movers DEF Return
  <2>4. work[q].token \in Tokens /\ leg[work[q].token] # None
    BY <2>3 DEF TypeOK, WorkFits, AcceptWork
  <2>5. CASE work[q].token \in Paper
    <3>1. t \notin Paper
      BY <2>1 DEF Dispatched
    <3>2. QED BY <2>1, <2>3, <2>4, <2>5, <3>1
  <2>6. CASE work[q].token \notin Paper
    BY <2>1, <2>3, <2>4, <2>6 DEF Dispatched
  <2>7. QED BY <2>5, <2>6
<1>2. ASSUME NEW r \in Requests, AcceptCommit(r) PROVE UNCHANGED leg
  BY <1>2 DEF AcceptCommit
<1>3. QED BY <1>1, <1>2, NoEvent DEF eventVars

\* A status is as it was read, unless an audit put it on hold.
AsRead(status, read) == status \in {read, "AUDIT_REQUIRED"}

\* Statuses and counts after a step that is neither a dispatch nor a reception.
LEMMA OnlyAudits ==
  ASSUME TypeOK, [Next]_vars, ~ \E r \in Requests : IssueCommit(r) \/ AcceptCommit(r)
  PROVE  \A b \in Batches : /\ batch'[b].delivered = batch[b].delivered
                            /\ AsRead(batch'[b].status, batch[b].status)
<1> USE DEF dbVars, tripVars, stockVars
<1>1. CASE UNCHANGED batch
  BY <1>1 DEF AsRead
<1>2. ASSUME NEW r \in Requests, Arrive(r) \/ Abort(r) PROVE UNCHANGED batch
  BY <1>2 DEF Arrive, IssueStart, AcceptStart, AcceptEmbedded, Abort
<1>3. ASSUME NEW r \in Requests, Step(r) PROVE UNCHANGED batch
  BY <1>3 DEF Step, IssueQuota, IssueCistern, IssueTrip, IssueLoad, AcceptMint, AcceptCheck,
     AcceptConsume, AcceptSettle, AcceptUnmeasured, AcceptUnload, AcceptOverflow
<1>4. ASSUME NEW t \in Tokens, Expire(t) \/ Elapse(t) PROVE UNCHANGED batch
  BY <1>4 DEF Expire, Elapse
<1>5. ASSUME NEW c \in Audited, AuditCreate(c)
      PROVE  \A b \in Batches : /\ batch'[b].delivered = batch[b].delivered
                                /\ AsRead(batch'[b].status, batch[b].status)
  BY <1>5 DEF AuditCreate, TypeOK, AsRead
<1>6. QED BY <1>1, <1>2, <1>3, <1>4, <1>5 DEF Next, vars

\* The books, and what is read of them, only lag: one step.
LEMMA LagStep == EventsInv /\ EventsInv' /\ LagInv /\ [Next]_vars => LagInv'
<1> SUFFICES ASSUME EventsInv, EventsInv', LagInv, [Next]_vars, NothingNegative'
             PROVE  BooksOnlyLag' /\ NoneDelivered' /\ ReadsLag'
  BY DEF LagInv
<1>1. ExplainsMore /\ NothingNegative
  BY MoreStep
<1>2. BooksOnlyLag /\ NoneDelivered /\ ReadsLag
  BY <1>1 DEF LagInv
<1>3. TypeOK /\ TypeOK' /\ TripInv
  BY DEF EventsInv
<1>4. ReadsLag'
  <2>1. ASSUME NEW q \in Requests PROVE ReadLags(pc[q], work[q])'
    <3>1. ReadLags(pc'[q], work'[q])
      BY <1>2, NewReads
    <3>2. pc'[q] \in LockSteps => leg'[work'[q].token].batch = leg[work'[q].token].batch
      BY <1>3, HeldTripsStay DEF LockSteps, AcceptSteps
    <3>3. QED BY <1>1, <1>3, <3>1, <3>2, ReadsStillLag
  <2>2. QED BY <2>1 DEF ReadsLag
<1>5. ASSUME \A b \in Batches : batch'[b].delivered = batch[b].delivered,
             UNCHANGED tank, depot' >= DepotInit - Loaded(Dispatched)'
      PROVE  BooksOnlyLag' /\ NoneDelivered'
  <2>1. ASSUME NEW b \in Batches
        PROVE  batch'[b].delivered <= Measured(ReceivedFor(b))' /\ batch'[b].delivered >= 0
    <3>1. batch[b].delivered \in Int /\ NoLess(Measured(ReceivedFor(b))', Measured(ReceivedFor(b)))
      BY <1>1, <1>3 DEF ExplainsMore, TypeOK
    <3>2. QED BY <1>2, <1>5, <3>1 DEF BooksOnlyLag, NoneDelivered, NoLess
  <2>2. ASSUME NEW s \in Tanked PROVE tank'[s] <= TankInit[s] + Measured(ReceivedIn(s))'
    <3>1. /\ tank[s] \in Int /\ TankInit[s] \in Int
          /\ NoLess(Measured(ReceivedIn(s))', Measured(ReceivedIn(s)))
      BY <1>1, <1>3, ConstantsAssumption DEF ExplainsMore, TypeOK
    <3>2. QED BY <1>2, <1>5, <3>1 DEF BooksOnlyLag, NoLess
  <2>3. QED BY <1>5, <2>1, <2>2 DEF BooksOnlyLag, NoneDelivered
<1>6. DepotInit \in Int /\ depot \in Int /\ NoLess(Loaded(Dispatched)', Loaded(Dispatched))
  BY <1>1, <1>3, ConstantsAssumption DEF ExplainsMore, TypeOK
<1>7. ASSUME NEW r \in Requests, IssueCommit(r) PROVE BooksOnlyLag' /\ NoneDelivered'
  <2> DEFINE w == work[r]
  <2>1. /\ w \in IssueWork /\ pc[r] = "withdraw" /\ depot' = w.stock - w.vol /\ UNCHANGED tank
        /\ batch' = [batch EXCEPT ![w.batch].status = DispatchedStatus(@, w.status)]
    BY <1>3, <1>7, Dispatching
  <2>2. \A b \in Batches : batch'[b].delivered = batch[b].delivered
    BY <1>3, <2>1 DEF TypeOK
  <2>3. w.stock >= DepotInit - Loaded(Dispatched)
    BY <1>2, <2>1 DEF ReadsLag, ReadLags
  <2>4. Loaded(Dispatched)' = Loaded(Dispatched) + w.vol
    BY <1>7, DispatchCounts
  <2>5. w.vol \in Int /\ w.stock \in Int
    BY <1>7, <2>1, DispatchedLitres DEF IssueWork
  <2>6. depot' >= DepotInit - Loaded(Dispatched)'
    <3> HIDE DEF w
    <3>1. QED BY <1>6, <2>1, <2>3, <2>4, <2>5 DEF NoLess
  <2>7. QED BY <1>5, <2>1, <2>2, <2>6
<1>8. ASSUME NEW r \in Requests, AcceptCommit(r) PROVE BooksOnlyLag' /\ NoneDelivered'
  <2>w. PICK w : w = work[r]
    OBVIOUS
  <2>b. PICK c : c = leg[w.token].batch
    OBVIOUS
  <2>1. /\ w \in AcceptWork /\ pc[r] = "stock" /\ c \in Batches /\ w.token \notin Received
        /\ Received' = Received \cup {w.token} /\ measured'[w.token] = w.vol
        /\ UNCHANGED depot
    BY <1>3, <1>8, <2>w, <2>b, Receiving DEF Legs
  <2>2. w.vol >= 0 /\ w.vol \in Int /\ w.delivered \in Int /\ w.stock \in Int
    BY <2>1 DEF NothingNegative, AcceptWork
  <2>3. /\ batch'[c].delivered = w.delivered + w.vol
        /\ \A b \in Batches \ {c} : batch'[b] = batch[b]
        /\ w.at \in Tanked => tank'[w.at] = w.stock + w.vol
        /\ \A s \in Tanked \ {w.at} : tank'[s] = tank[s]
    BY <1>3, <1>8, <2>w, <2>b, <2>1 DEF AcceptCommit, TypeOK
  <2>4. /\ Measured(ReceivedFor(c))' = Measured(ReceivedFor(c)) + w.vol
        /\ Measured(ReceivedIn(w.at))' = Measured(ReceivedIn(w.at)) + w.vol
    BY <1>8, <2>w, <2>b, ReceptionCounts
  <2>5. /\ w.delivered >= 0 /\ w.delivered <= Measured(ReceivedFor(c))
        /\ w.at \in Tanked => w.stock <= TankInit[w.at] + Measured(ReceivedIn(w.at))
    BY <1>2, <2>w, <2>b, <2>1 DEF ReadsLag, ReadLags, LockSteps
  <2>6. ASSUME NEW b \in Batches
        PROVE  batch'[b].delivered <= Measured(ReceivedFor(b))' /\ batch'[b].delivered >= 0
    <3>1. batch[b].delivered \in Int /\ NoLess(Measured(ReceivedFor(b))', Measured(ReceivedFor(b)))
      BY <1>1, <1>3 DEF ExplainsMore, TypeOK
    <3>2. CASE b = c
      BY <2>2, <2>3, <2>4, <2>5, <3>1, <3>2 DEF NoLess
    <3>3. CASE b # c
      BY <1>2, <2>3, <3>1, <3>3 DEF BooksOnlyLag, NoneDelivered, NoLess
    <3>4. QED BY <3>2, <3>3
  <2>7. ASSUME NEW s \in Tanked PROVE tank'[s] <= TankInit[s] + Measured(ReceivedIn(s))'
    <3>1. /\ tank[s] \in Int /\ TankInit[s] \in Int
          /\ NoLess(Measured(ReceivedIn(s))', Measured(ReceivedIn(s)))
      BY <1>1, <1>3, ConstantsAssumption DEF ExplainsMore, TypeOK
    <3>2. CASE s = w.at
      BY <2>2, <2>3, <2>4, <2>5, <3>1, <3>2 DEF NoLess
    <3>3. CASE s # w.at
      BY <1>2, <2>3, <3>1, <3>3 DEF BooksOnlyLag, NoLess
    <3>4. QED BY <3>2, <3>3
  <2>8. depot' >= DepotInit - Loaded(Dispatched)'
    BY <1>2, <1>6, <2>1 DEF BooksOnlyLag, NoLess
  <2>9. QED BY <2>6, <2>7, <2>8 DEF BooksOnlyLag, NoneDelivered
<1>9. ASSUME UNCHANGED <<tank, depot>>, \A b \in Batches : batch'[b].delivered = batch[b].delivered
      PROVE  BooksOnlyLag' /\ NoneDelivered'
  <2>1. depot >= DepotInit - Loaded(Dispatched)
    BY <1>2 DEF BooksOnlyLag
  <2>2. depot' >= DepotInit - Loaded(Dispatched)'
    BY <1>6, <1>9, <2>1 DEF NoLess
  <2>3. QED BY <1>5, <1>9, <2>2
<1>10. BooksOnlyLag' /\ NoneDelivered'
  <2>1. CASE \E r \in Requests : IssueCommit(r) \/ AcceptCommit(r)
    BY <1>7, <1>8, <2>1
  <2>2. CASE ~ \E r \in Requests : IssueCommit(r) \/ AcceptCommit(r)
    <3>1. UNCHANGED <<tank, depot>>
      BY <2>2, NoEvent
    <3>2. \A b \in Batches : batch'[b].delivered = batch[b].delivered
      BY <1>3, <2>2, OnlyAudits
    <3>3. QED BY <1>9, <3>1, <3>2
  <2>3. QED BY <2>1, <2>2
<1>11. QED BY <1>4, <1>10

\* In the beginning nothing is booked, nothing happened, and nothing was read.
LEMMA LagInit == Init => LagInv
<1> SUFFICES ASSUME Init PROVE BooksOnlyLag /\ NoneDelivered /\ ReadsLag
  BY DEF LagInv
<1>1. Dispatched = {} /\ Received = {} /\ OpenTrips = {}
  BY NoTripYet
<1>2. ASSUME NEW S, S \subseteq {} PROVE Measured(S) = 0
  BY <1>2, SumEmpty DEF Measured
<1>3. Loaded({}) = 0
  <2>1. DOMAIN [t \in {} |-> leg[t].vol] = {}
    OBVIOUS
  <2>2. QED BY <2>1, SumEmpty DEF Loaded, SumFunction
<1>4. /\ \A b : Measured(ReceivedFor(b)) = 0
      /\ \A s : Measured(ReceivedIn(s)) = 0
      /\ Loaded(Dispatched) = 0
  BY <1>1, <1>2, <1>3 DEF ReceivedFor, ReceivedIn
<1>5. \A b \in Batches : batch[b].delivered = 0
  BY DEF Init
<1>6. tank = TankInit /\ depot = DepotInit
  BY DEF Init
<1>7. BooksOnlyLag /\ NoneDelivered
  BY <1>4, <1>5, <1>6, ConstantsAssumption DEF BooksOnlyLag, NoneDelivered
<1>8. ReadsLag
  BY NothingRead DEF Init, ReadsLag, Reading, LockSteps
<1>9. QED BY <1>7, <1>8

\* Racing requests may lose an update, and then batch, tank and depot lag behind the
\* custody events; whatever races, expires, aborts or is on hold, they never run
\* ahead of them (BooksOnlyLag), as long as no station reported less than nothing.
THEOREM BooksOnlyLagHolds == Spec => [](NothingNegative => BooksOnlyLag)
<1>1. LagInv => (NothingNegative => BooksOnlyLag)
  BY DEF LagInv
<1>2. QED BY <1>1, LagInit, LagStep, EventsCorrect, PTL DEF Spec

\* A batch that declares litres is RECEIVED only with all of them.
CompleteInv ==
    \A b \in Batches : batch[b].status = "RECEIVED" /\ Declared[b] > 0
                         => batch[b].delivered >= Declared[b]

\* A dispatch brings no batch to RECEIVED, and a reception only with the litres it
\* counts; nothing takes litres off.
LEMMA CompleteStep == TypeOK /\ CompleteInv /\ [Next]_vars => CompleteInv'
<1> SUFFICES ASSUME TypeOK, CompleteInv, [Next]_vars PROVE CompleteInv'
  OBVIOUS
<1>1. ASSUME NEW r \in Requests, IssueCommit(r) PROVE CompleteInv'
  <2>1. /\ work[r].batch \in Batches
        /\ batch' = [batch EXCEPT ![work[r].batch].status = DispatchedStatus(@, work[r].status)]
    BY <1>1 DEF IssueCommit, TypeOK, WorkFits, IssueSteps, IssueWork
  <2>2. ASSUME NEW b \in Batches
        PROVE  /\ batch'[b].delivered = batch[b].delivered
               /\ batch'[b].status \in {batch[b].status, "IN_TRANSIT"}
    BY <2>1 DEF TypeOK, DispatchedStatus
  <2>3. QED BY <2>2 DEF CompleteInv
<1>2. ASSUME NEW r \in Requests, AcceptCommit(r) PROVE CompleteInv'
  <2> DEFINE w == work[r]
             c == leg[w.token].batch
  <2>1. batch' = [batch EXCEPT ![c] = [status |-> NextBatchStatus(c, w),
                                       delivered |-> w.delivered + w.vol]]
    BY <1>2 DEF AcceptCommit
  <2>2. w \in AcceptWork /\ leg[w.token] \in Legs /\ c \in Batches
    BY <1>2, ConstantsAssumption DEF AcceptCommit, TypeOK, WorkFits, AcceptSteps, AcceptWork, Legs
  <2>3. w.delivered + w.vol \in Int /\ Declared[c] \in Int
    BY <2>2, ConstantsAssumption DEF AcceptWork
  <2>4. NextBatchStatus(c, w) = "RECEIVED" /\ Declared[c] > 0 => w.delivered + w.vol >= Declared[c]
    BY <2>3 DEF NextBatchStatus
  <2>5. /\ batch'[c].status = NextBatchStatus(c, w) /\ batch'[c].delivered = w.delivered + w.vol
        /\ \A b \in Batches \ {c} : batch'[b] = batch[b]
    BY <2>1, <2>2 DEF TypeOK
  <2> HIDE DEF c, w
  <2>6. QED BY <2>4, <2>5 DEF CompleteInv
<1>3. CASE ~ \E r \in Requests : IssueCommit(r) \/ AcceptCommit(r)
  BY <1>3, OnlyAudits DEF CompleteInv, AsRead
<1>4. QED BY <1>1, <1>2, <1>3

\* A batch that came to RECEIVED has all its litres (ReceivedBatchIsComplete), from
\* whatever old count a reception computed them;
\* where a batch declares none, as long as no station reported less than nothing.
THEOREM ReceivedBatchIsCompleteHolds ==
  ASSUME "RECEIVED" \notin InitStatus
  PROVE  Spec => []((NothingNegative \/ \A b \in Batches : Declared[b] > 0)
                      => ReceivedBatchIsComplete)
<1>1. Init => CompleteInv
  BY DEF Init, CompleteInv
<1>2. TypeOK /\ CompleteInv /\ LagInv
        => ((NothingNegative \/ \A b \in Batches : Declared[b] > 0) => ReceivedBatchIsComplete)
  <2> SUFFICES ASSUME TypeOK, CompleteInv, LagInv, NEW b \in Batches, batch[b].status = "RECEIVED",
                      NothingNegative \/ Declared[b] > 0
               PROVE  batch[b].delivered >= Declared[b]
    BY DEF ReceivedBatchIsComplete
  <2>1. Declared[b] \in Nat
    BY ConstantsAssumption
  <2>2. CASE Declared[b] > 0
    BY <2>2 DEF CompleteInv
  <2>3. CASE Declared[b] = 0
    BY <2>3 DEF LagInv, NoneDelivered
  <2>4. QED BY <2>1, <2>2, <2>3
<1>3. TypeOK /\ CompleteInv /\ [Next]_vars => CompleteInv'
  BY CompleteStep
<1>4. EventsInv => TypeOK
  BY DEF EventsInv
<1>5. EventsInv /\ EventsInv' /\ LagInv /\ [Next]_vars => LagInv'
  BY LagStep
<1>6. QED BY <1>1, <1>2, <1>3, <1>4, <1>5, LagInit, EventsCorrect, PTL DEF Spec

-----------------------------------------------------------------------------
(* Requests that do not overlap.  Tokens still expire, and audits still open, *)
(* between the steps of the one under way.                                    *)

OneAtATime == \A r, q \in Requests : pc[r] # "idle" /\ pc[q] # "idle" => r = q

\* What an issue read, and what its checks found, still holds.
IssueFresh(step, w) ==
    /\ batch[w.batch].delivered = w.delivered
    /\ AsRead(batch[w.batch].status, w.status)
    /\ step # "quota" =>
         w.vol <= RemainingBatchLiters(Declared[w.batch], w.delivered, Reserved(w.batch))
    /\ step \in {"trip", "load", "withdraw"} => w.row = cistern[w.cistern]
    /\ step \in {"load", "withdraw"} => \A t \in OpenTrips : leg[t].cistern # w.cistern
    /\ step = "withdraw" => w.stock = depot

\* What an accept read still holds.
AcceptFresh(step, w) ==
    LET trip == leg[w.token] IN
    /\ batch[trip.batch].delivered = w.delivered
    /\ AsRead(batch[trip.batch].status, w.status)
    /\ step \in {"unload", "stock"} =>
         w.row = IF trip.cistern = None THEN None ELSE cistern[trip.cistern]
    /\ step = "stock" /\ w.at \in Tanked => w.stock = tank[w.at]

Fresh(step, w) ==
    /\ step \in IssueSteps => IssueFresh(step, w)
    /\ step \in LockSteps => AcceptFresh(step, w)

FreshInv == \A r \in Requests : Fresh(pc[r], work[r])

\* A handler at another step has read nothing it relies on.
LEMMA NothingRelied == \A step, w : step \notin IssueSteps \cup LockSteps => Fresh(step, w)
BY DEF Fresh

\* What a handler has just read is fresh.
LEMMA NewFresh ==
  ASSUME EventsInv, FreshInv, [Next]_vars, NEW q \in Requests,
         ~ \E r \in Requests : IssueCommit(r) \/ AcceptCommit(r)
  PROVE  Fresh(pc'[q], work'[q])
<1>0. TypeOK /\ Fresh(pc[q], work[q])
  BY DEF EventsInv, FreshInv
<1>1. CASE UNCHANGED <<pc, work>>
  BY <1>0, <1>1
<1>2. ASSUME NEW r \in Requests, NEW step, NEW w, Goto(r, step, w), Fresh(step, w)
      PROVE  Fresh(pc'[q], work'[q])
  BY <1>0, <1>2, Movers
<1>3. ASSUME NEW r \in Requests, Return(r) PROVE Fresh(pc'[q], work'[q])
  <2>1. Fresh("idle", None)
    BY NothingRelied DEF IssueSteps, LockSteps
  <2>2. QED BY <1>2, <1>3, <2>1 DEF Return
<1>4. ASSUME NEW r \in Requests, NEW step \in {"mint", "check", "consume"}, NEW w, Goto(r, step, w)
      PROVE  Fresh(pc'[q], work'[q])
  <2>1. Fresh(step, w)
    BY NothingRelied DEF IssueSteps, LockSteps
  <2>2. QED BY <1>2, <1>4, <2>1
<1>5. ASSUME NEW r \in Requests, NEW b \in Batches, NEW c \in Cisterns, NEW s \in Stations,
             NEW v \in Volumes, NEW u \in Users, IssueStart(r, b, c, s, v, u)
      PROVE  Fresh(pc'[q], work'[q])
  <2> DEFINE w == [batch |-> b, cistern |-> c, station |-> s, vol |-> v,
                   user |-> u, status |-> batch[b].status,
                   delivered |-> batch[b].delivered, row |-> None, stock |-> 0]
  <2>1. Fresh("quota", w)
    BY DEF Fresh, IssueFresh, AsRead, LockSteps
  <2>2. Goto(r, "quota", w)
    BY <1>5 DEF IssueStart
  <2> HIDE DEF w
  <2>3. QED BY <1>2, <2>1, <2>2
<1>6. ASSUME NEW r \in Requests, Arrive(r) PROVE Fresh(pc'[q], work'[q])
  BY <1>4, <1>5, <1>6 DEF Arrive, AcceptStart, AcceptEmbedded
<1>7. ASSUME NEW r \in Requests,
             AcceptMint(r) \/ AcceptCheck(r) \/ AcceptUnmeasured(r) \/ AcceptOverflow(r) \/ Abort(r)
      PROVE  Fresh(pc'[q], work'[q])
  BY <1>3, <1>4, <1>7 DEF AcceptMint, AcceptCheck, AcceptUnmeasured, AcceptOverflow, Abort
<1>8. ASSUME NEW r \in Requests, pc[r] \in IssueSteps
      PROVE  work[r] \in IssueWork /\ IssueFresh(pc[r], work[r])
  BY <1>0, <1>8 DEF TypeOK, WorkFits, FreshInv, Fresh
<1>9. ASSUME NEW r \in Requests, IssueQuota(r) PROVE Fresh(pc'[q], work'[q])
  <2> DEFINE w == work[r]
  <2>1. pc[r] = "quota" /\ IssueFresh("quota", w)
    BY <1>8, <1>9 DEF IssueQuota, IssueSteps
  <2>2. \/ Return(r)
        \/ /\ w.vol <= RemainingBatchLiters(Declared[w.batch], w.delivered, Reserved(w.batch))
           /\ Goto(r, "cistern", w)
    BY <1>9 DEF IssueQuota
  <2> HIDE DEF w
  <2>3. w.vol <= RemainingBatchLiters(Declared[w.batch], w.delivered, Reserved(w.batch))
          => Fresh("cistern", w)
    BY <2>1 DEF Fresh, IssueFresh, LockSteps
  <2>4. QED BY <1>2, <1>3, <2>2, <2>3
<1>10. ASSUME NEW r \in Requests, IssueCistern(r) PROVE Fresh(pc'[q], work'[q])
  <2> DEFINE w == [work[r] EXCEPT !.row = cistern[work[r].cistern]]
  <2>1. work[r] \in IssueWork /\ IssueFresh("cistern", work[r])
    BY <1>8, <1>10 DEF IssueCistern, IssueSteps
  <2>2. /\ w.row = cistern[w.cistern] /\ w.batch = work[r].batch /\ w.delivered = work[r].delivered
        /\ w.status = work[r].status /\ w.vol = work[r].vol
    BY <2>1 DEF IssueWork
  <2>3. Return(r) \/ Goto(r, "trip", w)
    BY <1>10 DEF IssueCistern
  <2> HIDE DEF w
  <2>4. Fresh("trip", w)
    BY <2>1, <2>2 DEF Fresh, IssueFresh, LockSteps
  <2>5. QED BY <1>2, <1>3, <2>3, <2>4
<1>11. ASSUME NEW r \in Requests, IssueTrip(r) PROVE Fresh(pc'[q], work'[q])
  <2> DEFINE w == work[r]
  <2>1. IssueFresh("trip", w)
    BY <1>8, <1>11 DEF IssueTrip, IssueSteps
  <2>2. Return(r) \/ (~TripInTheWay(w.cistern, w.user) /\ Goto(r, "load", w))
    BY <1>11 DEF IssueTrip
  <2> HIDE DEF w
  <2>3. ~TripInTheWay(w.cistern, w.user) => Fresh("load", w)
    BY <2>1 DEF Fresh, IssueFresh, LockSteps, TripInTheWay
  <2>4. QED BY <1>2, <1>3, <2>2, <2>3
<1>12. ASSUME NEW r \in Requests, IssueLoad(r) PROVE Fresh(pc'[q], work'[q])
  <2> DEFINE w == [work[r] EXCEPT !.stock = depot]
  <2>1. work[r] \in IssueWork /\ IssueFresh("load", work[r])
    BY <1>8, <1>12 DEF IssueLoad, IssueSteps
  <2>2. /\ w.stock = depot /\ w.batch = work[r].batch /\ w.delivered = work[r].delivered
        /\ w.status = work[r].status /\ w.vol = work[r].vol
        /\ w.row = work[r].row /\ w.cistern = work[r].cistern
    BY <2>1 DEF IssueWork
  <2>3. Return(r) \/ Goto(r, "withdraw", w)
    BY <1>12 DEF IssueLoad
  <2> HIDE DEF w
  <2>4. Fresh("withdraw", w)
    BY <2>1, <2>2 DEF Fresh, IssueFresh, LockSteps
  <2>5. QED BY <1>2, <1>3, <2>3, <2>4
<1>13. ASSUME NEW r \in Requests, pc[r] \in LockSteps \cup {"consume"}
       PROVE  work[r] \in AcceptWork /\ (pc[r] \in LockSteps => AcceptFresh(pc[r], work[r]))
  BY <1>0, <1>13 DEF TypeOK, WorkFits, AcceptSteps, LockSteps, FreshInv, Fresh
<1>14. ASSUME NEW r \in Requests, AcceptConsume(r) PROVE Fresh(pc'[q], work'[q])
  <2> DEFINE row == batch[leg[work[r].token].batch]
             w == [work[r] EXCEPT !.status = row.status, !.delivered = row.delivered]
  <2>1. work[r] \in AcceptWork
    BY <1>13, <1>14 DEF AcceptConsume
  <2>2. w.delivered = row.delivered /\ w.status = row.status /\ w.token = work[r].token
    BY <2>1 DEF AcceptWork
  <2>3. Return(r) \/ Goto(r, "settle", w)
    BY <1>14 DEF AcceptConsume
  <2>4. Fresh("settle", w)
    BY <2>2 DEF Fresh, AcceptFresh, AsRead, IssueSteps
  <2> HIDE DEF w
  <2>5. QED BY <1>2, <1>3, <2>3, <2>4
<1>15. ASSUME NEW r \in Requests, AcceptSettle(r) PROVE Fresh(pc'[q], work'[q])
  <2> DEFINE c == leg[work[r].token].cistern
             w == [work[r] EXCEPT !.row = IF c = None THEN None ELSE cistern[c]]
  <2>1. work[r] \in AcceptWork /\ AcceptFresh("settle", work[r])
    BY <1>13, <1>15 DEF AcceptSettle, LockSteps
  <2>2. /\ w.delivered = work[r].delivered /\ w.status = work[r].status /\ w.token = work[r].token
        /\ w.row = IF c = None THEN None ELSE cistern[c]
    BY <2>1 DEF AcceptWork
  <2>3. Goto(r, "unload", w)
    BY <1>15 DEF AcceptSettle
  <2>4. Fresh("unload", w)
    BY <2>1, <2>2 DEF Fresh, AcceptFresh, IssueSteps
  <2> HIDE DEF w
  <2>5. QED BY <1>2, <2>3, <2>4
<1>16. ASSUME NEW r \in Requests, AcceptUnload(r) PROVE Fresh(pc'[q], work'[q])
  <2> DEFINE s == work[r].at
             w == [work[r] EXCEPT !.stock = IF s \in Tanked THEN tank[s] ELSE 0]
  <2>1. work[r] \in AcceptWork /\ AcceptFresh("unload", work[r])
    BY <1>13, <1>16 DEF AcceptUnload, LockSteps
  <2>2. /\ w.delivered = work[r].delivered /\ w.status = work[r].status /\ w.token = work[r].token
        /\ w.row = work[r].row /\ w.at = s /\ w.stock = IF s \in Tanked THEN tank[s] ELSE 0
    BY <2>1 DEF AcceptWork
  <2>3. Goto(r, "stock", w)
    BY <1>16 DEF AcceptUnload
  <2>4. Fresh("stock", w)
    BY <2>1, <2>2 DEF Fresh, AcceptFresh, IssueSteps
  <2> HIDE DEF w
  <2>5. QED BY <1>2, <2>3, <2>4
<1>17. CASE \/ \E t \in Tokens : Expire(t) \/ Elapse(t)
            \/ \E b \in Audited : AuditCreate(b)
  BY <1>1, <1>17 DEF Expire, Elapse, AuditCreate
<1>18. QED
  BY <1>1, <1>6, <1>7, <1>9, <1>10, <1>11, <1>12, <1>14, <1>15, <1>16, <1>17 DEF Next, Step, vars

\* What is fresh stays so through any step but a dispatch or a reception.
LEMMA FreshStays ==
  ASSUME TypeOK', UNCHANGED <<eventVars, cistern, tank, depot>>,
         \A b \in Batches : /\ batch'[b].delivered = batch[b].delivered
                            /\ AsRead(batch'[b].status, batch[b].status),
         NEW q \in Requests, Fresh(pc'[q], work'[q])
  PROVE  Fresh(pc[q], work[q])'
<1>s. PICK step : step = pc'[q]
  OBVIOUS
<1>w. PICK w : w = work'[q]
  OBVIOUS
<1>1. OpenTrips' = OpenTrips /\ UNCHANGED <<leg, cistern, tank, depot>>
  BY SameTrips
<1>2. \A b : Reserved(b)' = Reserved(b)
  BY <1>1 DEF Reserved, Loaded
<1>3. ASSUME step \in IssueSteps PROVE IssueFresh(step, w)'
  <2>1. IssueFresh(step, w) /\ w.batch \in Batches
    BY <1>3, <1>s, <1>w DEF Fresh, TypeOK, WorkFits, IssueWork
  <2>2. batch'[w.batch].delivered = w.delivered /\ AsRead(batch'[w.batch].status, w.status)
    BY <2>1 DEF IssueFresh, AsRead
  <2>3. QED BY <1>1, <1>2, <2>1, <2>2 DEF IssueFresh
<1>4. ASSUME step \in LockSteps PROVE AcceptFresh(step, w)'
  <2>1. AcceptFresh(step, w) /\ leg'[w.token] \in Legs
    BY <1>4, <1>s, <1>w, ConstantsAssumption
    DEF Fresh, TypeOK, WorkFits, AcceptWork, LockSteps, AcceptSteps
  <2>2. PICK b : b = leg[w.token].batch
    OBVIOUS
  <2>3. b \in Batches /\ leg'[w.token].batch = b
    BY <1>1, <2>1, <2>2 DEF Legs
  <2>4. batch'[b].delivered = w.delivered /\ AsRead(batch'[b].status, w.status)
    BY <2>1, <2>2, <2>3 DEF AcceptFresh, AsRead
  <2>5. QED BY <1>1, <2>1, <2>2, <2>3, <2>4 DEF AcceptFresh
<1>5. Fresh(step, w)'
  BY <1>3, <1>4 DEF Fresh
<1>6. QED BY <1>s, <1>w, <1>5 DEF Fresh, IssueFresh, AcceptFresh

\* After a dispatch or a reception nobody is under way.
LEMMA AllIdle ==
  ASSUME TypeOK, OneAtATime, NEW r \in Requests, pc[r] # "idle", Return(r)
  PROVE  \A q \in Requests : pc'[q] = "idle"
BY Movers DEF OneAtATime, Return

\* No two requests under way: what the one that is has read stays fresh.
LEMMA FreshStep ==
  ASSUME EventsInv, TypeOK', OneAtATime, FreshInv, [Next]_vars
  PROVE  FreshInv'
<1>1. CASE \E r \in Requests : IssueCommit(r) \/ AcceptCommit(r)
  <2>1. \A q \in Requests : pc'[q] = "idle"
    BY <1>1, AllIdle DEF IssueCommit, AcceptCommit, EventsInv
  <2>2. QED BY <2>1 DEF FreshInv, Fresh, IssueSteps, LockSteps
<1>2. CASE ~ \E r \in Requests : IssueCommit(r) \/ AcceptCommit(r)
  <2>1. \A q \in Requests : Fresh(pc'[q], work'[q])
    BY <1>2, NewFresh
  <2>2. UNCHANGED <<eventVars, cistern, tank, depot>>
    BY <1>2, NoEvent
  <2>3. \A b \in Batches : /\ batch'[b].delivered = batch[b].delivered
                           /\ AsRead(batch'[b].status, batch[b].status)
    BY <1>2, OnlyAudits DEF EventsInv
  <2>4. \A q \in Requests : Fresh(pc[q], work[q])'
    BY <2>1, <2>2, <2>3, FreshStays
  <2>5. QED BY <2>4 DEF FreshInv
<1>3. QED BY <1>1, <1>2

\* With one request at a time, batch, tank and depot stay exactly what the events
\* explain.
LEMMA ExactStep ==
  ASSUME EventsInv, FreshInv, BooksExact, [Next]_vars
  PROVE  BooksExact'
<1>1. TypeOK /\ TripInv
  BY DEF EventsInv
<1>2. ASSUME NEW r \in Requests, IssueCommit(r) PROVE BooksExact'
  <2>w. PICK w : w = work[r]
    OBVIOUS
  <2>1. /\ w \in IssueWork /\ pc[r] = "withdraw" /\ depot' = w.stock - w.vol /\ UNCHANGED tank
        /\ batch' = [batch EXCEPT ![w.batch].status = DispatchedStatus(@, w.status)]
    BY <1>1, <1>2, <2>w, Dispatching
  <2>2. \A b \in Batches : batch'[b].delivered = batch[b].delivered
    BY <1>1, <2>1 DEF TypeOK
  <2>3. w.stock = depot
    BY <2>w, <2>1 DEF FreshInv, Fresh, IssueFresh, IssueSteps
  <2>4. /\ \A b : Measured(ReceivedFor(b))' = Measured(ReceivedFor(b))
        /\ \A s : Measured(ReceivedIn(s))' = Measured(ReceivedIn(s))
        /\ Loaded(Dispatched)' = Loaded(Dispatched) + w.vol
    BY <1>2, <2>w, DispatchCounts
  <2>5. w.vol \in Int /\ depot \in Int /\ DepotInit \in Int /\ Loaded(Dispatched) \in Int
    BY <1>1, <1>2, <2>w, DispatchedLitres, ExplanationTypes, ConstantsAssumption DEF TypeOK
  <2>6. depot' = DepotInit - Loaded(Dispatched)'
    BY <2>1, <2>3, <2>4, <2>5 DEF BooksExact
  <2>7. QED BY <2>1, <2>2, <2>4, <2>6 DEF BooksExact
<1>3. ASSUME NEW r \in Requests, AcceptCommit(r) PROVE BooksExact'
  <2>w. PICK w : w = work[r]
    OBVIOUS
  <2>b. PICK c : c = leg[w.token].batch
    OBVIOUS
  <2>1. /\ w \in AcceptWork /\ pc[r] = "stock" /\ c \in Batches /\ UNCHANGED depot
    BY <1>1, <1>3, <2>w, <2>b, Receiving DEF Legs
  <2>2. /\ batch'[c].delivered = w.delivered + w.vol
        /\ \A b \in Batches \ {c} : batch'[b] = batch[b]
        /\ w.at \in Tanked => tank'[w.at] = w.stock + w.vol
        /\ \A s \in Tanked \ {w.at} : tank'[s] = tank[s]
    BY <1>1, <1>3, <2>w, <2>b, <2>1 DEF AcceptCommit, TypeOK
  <2>3. w.delivered = batch[c].delivered /\ (w.at \in Tanked => w.stock = tank[w.at])
    BY <2>w, <2>b, <2>1 DEF FreshInv, Fresh, AcceptFresh, LockSteps
  <2>4. /\ \A b : Measured(ReceivedFor(b))' =
             Measured(ReceivedFor(b)) + (IF b = c THEN w.vol ELSE 0)
        /\ \A s : Measured(ReceivedIn(s))' =
             Measured(ReceivedIn(s)) + (IF s = w.at THEN w.vol ELSE 0)
        /\ Loaded(Dispatched)' = Loaded(Dispatched)
    BY <1>3, <2>w, <2>b, ReceptionCounts
  <2>5. w.vol \in Int
    BY <2>1 DEF AcceptWork
  <2>6. ASSUME NEW b \in Batches PROVE batch'[b].delivered = Measured(ReceivedFor(b))'
    <3>1. batch[b].delivered = Measured(ReceivedFor(b)) /\ Measured(ReceivedFor(b)) \in Int
      BY ExplanationTypes DEF BooksExact
    <3>2. CASE b = c
      BY <2>2, <2>3, <2>4, <2>5, <3>1, <3>2
    <3>3. CASE b # c
      BY <2>2, <2>4, <3>1, <3>3
    <3>4. QED BY <3>2, <3>3
  <2>7. ASSUME NEW s \in Tanked PROVE tank'[s] = TankInit[s] + Measured(ReceivedIn(s))'
    <3>1. /\ tank[s] = TankInit[s] + Measured(ReceivedIn(s))
          /\ Measured(ReceivedIn(s)) \in Int /\ TankInit[s] \in Int
      BY ExplanationTypes, ConstantsAssumption DEF BooksExact
    <3>2. CASE s = w.at
      BY <2>2, <2>3, <2>4, <2>5, <3>1, <3>2
    <3>3. CASE s # w.at
      BY <2>2, <2>4, <3>1, <3>3
    <3>4. QED BY <3>2, <3>3
  <2>8. depot' = DepotInit - Loaded(Dispatched)'
    BY <2>1, <2>4 DEF BooksExact
  <2>9. QED BY <2>6, <2>7, <2>8 DEF BooksExact
<1>4. CASE ~ \E r \in Requests : IssueCommit(r) \/ AcceptCommit(r)
  <2>1. UNCHANGED <<eventVars, tank, depot>>
    BY <1>4, NoEvent
  <2>2. \A b \in Batches : batch'[b].delivered = batch[b].delivered
    BY <1>1, <1>4, OnlyAudits
  <2>3. /\ \A b : Measured(ReceivedFor(b))' = Measured(ReceivedFor(b))
        /\ \A s : Measured(ReceivedIn(s))' = Measured(ReceivedIn(s))
        /\ Loaded(Dispatched)' = Loaded(Dispatched)
    BY <2>1, SameTrips DEF Measured, Loaded
  <2>4. QED BY <2>1, <2>2, <2>3 DEF BooksExact
<1>5. QED BY <1>2, <1>3, <1>4

\* With one request at a time a cistern has one open trip, and carries it.
LEMMA AboardStep ==
  ASSUME EventsInv, FreshInv, OneOpenTrip, OpenTripIsAboard, [Next]_vars
  PROVE  OneOpenTrip' /\ OpenTripIsAboard'
<1>1. TypeOK /\ TripInv /\ StockInv
  BY DEF EventsInv
<1>0. ASSUME NEW t \in OpenTrips PROVE t \in Tokens /\ leg[t] \in Legs
  BY <1>0, <1>1, OpenIsDispatched DEF TypeOK, Dispatched
<1>2. ASSUME NEW r \in Requests, IssueCommit(r) PROVE OneOpenTrip' /\ OpenTripIsAboard'
  <2>w. PICK w : w = work[r]
    OBVIOUS
  <2>1. w \in IssueWork /\ pc[r] = "withdraw" /\ w.row \in CisternRows
    BY <1>1, <1>2, <2>w, Dispatching
  <2>2. PICK t \in Tokens :
          /\ t \notin OpenTrips /\ OpenTrips' = OpenTrips \cup {t}
          /\ \A u \in Tokens \ {t} : leg'[u] = leg[u]
          /\ leg'[t] = [batch |-> w.batch, cistern |-> w.cistern,
                        station |-> w.station, vol |-> w.vol]
          /\ cistern' = [cistern EXCEPT ![w.cistern] =
               [load |-> w.row.load + w.vol, status |-> "IN_TRANSIT", batch |-> w.batch,
                driver |-> IF w.row.driver = None THEN w.user ELSE w.row.driver]]
    BY <1>1, <1>2, <2>w, Dispatching, Zenon
  <2>3. \A u \in OpenTrips : leg'[u] = leg[u] /\ leg[u].cistern # w.cistern
    <3>1. \A u \in OpenTrips : leg[u].cistern # w.cistern
      BY <2>w, <2>1 DEF FreshInv, Fresh, IssueFresh, IssueSteps
    <3>2. QED BY <1>0, <2>2, <3>1
  <2>4. w.row.load \in Nat /\ w.vol \in Nat /\ w.cistern \in Cisterns
    <3>1. ReadFits("withdraw", w) /\ w.row # None
      BY <1>1, <1>2, <2>w, <2>1, Dispatching DEF StockInv
    <3>2. w.row.load \in 0..CisternCap[w.cistern]
      BY <3>1 DEF ReadFits, IssueSteps
    <3>3. w.vol \in Nat
      BY <1>2, <2>w, DispatchedLitres
    <3>4. QED BY <2>1, <3>2, <3>3 DEF IssueWork
  <2>5. cistern'[w.cistern] = [load |-> w.row.load + w.vol, status |-> "IN_TRANSIT", batch |-> w.batch,
             driver |-> IF w.row.driver = None THEN w.user ELSE w.row.driver]
        /\ \A c \in Cisterns \ {w.cistern} : cistern'[c] = cistern[c]
    BY <1>1, <2>2, <2>4 DEF TypeOK
  <2>6. OneOpenTrip'
    BY <2>2, <2>3 DEF OneOpenTrip
  <2>7. ASSUME NEW u \in OpenTrips'
        PROVE  LET row == cistern'[leg'[u].cistern] IN
               row.load >= leg'[u].vol /\ row.status = "IN_TRANSIT" /\ row.batch = leg'[u].batch
    <3>1. CASE u = t
      <4>1. leg'[u].cistern = w.cistern /\ leg'[u].vol = w.vol /\ leg'[u].batch = w.batch
        BY <2>2, <3>1
      <4>2. cistern'[w.cistern].load >= w.vol
        BY <2>4, <2>5
      <4>3. QED BY <2>5, <4>1, <4>2
    <3>2. CASE u # t
      <4>1. u \in OpenTrips
        BY <2>2, <3>2
      <4>2. leg[u].cistern \in Cisterns
        BY <1>1, <4>1, OpenIsDispatched DEF EventsInv, LegsInv
      <4>3. cistern'[leg[u].cistern] = cistern[leg[u].cistern]
        BY <2>3, <2>5, <4>1, <4>2
      <4>4. QED BY <2>3, <4>1, <4>3 DEF OpenTripIsAboard
    <3>3. QED BY <3>1, <3>2
  <2>8. QED BY <2>6, <2>7 DEF OpenTripIsAboard
<1>3. ASSUME NEW r \in Requests, AcceptCommit(r) PROVE OneOpenTrip' /\ OpenTripIsAboard'
  <2>w. PICK w : w = work[r]
    OBVIOUS
  <2>c. PICK c : c = leg[w.token].cistern
    OBVIOUS
  <2>1. /\ OpenTrips' = OpenTrips \ {w.token} /\ UNCHANGED leg
        /\ w.token \notin Paper => w.token \in OpenTrips
        /\ pc[r] = "stock" /\ w.token \in Tokens
    BY <1>1, <1>3, <2>w, Receiving
  <2>2. OneOpenTrip'
    BY <2>1 DEF OneOpenTrip
  <2>3. cistern' = IF Unloads(w) THEN [cistern EXCEPT ![c] = Unloaded(cistern[c], w)] ELSE cistern
    BY <1>3, <2>w, <2>c DEF AcceptCommit
  <2>4. Unloads(w) => c # None
    BY <1>1, <2>w, <2>c, <2>1 DEF Unloads, TypeOK, WorkFits, AcceptSteps
  <2>5. ASSUME NEW u \in OpenTrips' PROVE cistern'[leg[u].cistern] = cistern[leg[u].cistern]
    <3>1. u \in OpenTrips /\ u # w.token
      BY <2>1
    <3>2. Unloads(w) => leg[u].cistern # c
      <4>1. CASE w.token \in Paper
        <5>1. leg[w.token].cistern = None
          BY <4>1 DEF EventsInv, LegsInv
        <5>2. QED BY <2>4, <2>c, <5>1
      <4>2. CASE w.token \notin Paper
        BY <2>1, <2>c, <3>1, <4>2 DEF OneOpenTrip
      <4>3. QED BY <4>1, <4>2
    <3>3. cistern \in [Cisterns -> CisternRows]
      BY <1>1 DEF TypeOK
    <3>4. QED BY <2>3, <3>2, <3>3
  <2>6. QED BY <2>1, <2>2, <2>5 DEF OpenTripIsAboard
<1>4. CASE ~ \E r \in Requests : IssueCommit(r) \/ AcceptCommit(r)
  <2>1. OpenTrips' = OpenTrips /\ UNCHANGED <<leg, cistern>>
    BY <1>4, NoEvent, SameTrips
  <2>2. QED BY <2>1 DEF OneOpenTrip, OpenTripIsAboard
<1>5. QED BY <1>2, <1>3, <1>4

\* What a batch has reserved grows with a dispatch of the batch...
LEMMA ReservedOpens ==
  ASSUME EventsInv, NEW r \in Requests, IssueCommit(r), NEW b
  PROVE  /\ Reserved(b) \in Int
         /\ Reserved(b)' = Reserved(b) + (IF b = work[r].batch THEN work[r].vol ELSE 0)
         /\ ReceivedFor(b)' = ReceivedFor(b)
<1>w. PICK w : w = work[r]
  OBVIOUS
<1>1. PICK t \in Tokens :
        /\ t \notin OpenTrips /\ OpenTrips' = OpenTrips \cup {t}
        /\ t \notin Received /\ Received' = Received
        /\ \A u \in Tokens \ {t} : leg'[u] = leg[u]
        /\ leg'[t] = [batch |-> w.batch, cistern |-> w.cistern,
                      station |-> w.station, vol |-> w.vol]
  BY <1>w, Dispatching, Zenon DEF EventsInv
<1>2. leg'[t].batch = w.batch /\ leg'[t].vol = w.vol /\ w.vol \in Int
  BY <1>1, <1>w, DispatchedLitres
<1>3. PICK S : S = {u \in OpenTrips : leg[u].batch = b}
  OBVIOUS
<1>4. S \subseteq Dispatched /\ S \subseteq Tokens /\ t \notin S
  BY <1>1, <1>3, OpenIsDispatched DEF EventsInv, OpenTrips
<1>5. IsFiniteSet(S) /\ Loaded(S) \in Int
  BY <1>4, BooksAreNumbers
<1>6. \A u \in S : leg'[u] = leg[u] /\ leg[u].vol \in Int
  BY <1>1, <1>4 DEF EventsInv, TypeOK, Dispatched, Legs
<1>7. Reserved(b) = VolumesOf(leg, S) /\ VolumesOf(leg, S) \in Int
  BY <1>3, <1>5, LoadedIs DEF Reserved
<1>8. PICK N : N = {u \in OpenTrips' : leg'[u].batch = b}
  OBVIOUS
<1>9. Reserved(b)' = VolumesOf(leg', N)
  BY <1>8 DEF Reserved, Loaded, VolumesOf
<1>10. N = IF b = w.batch THEN S \cup {t} ELSE S
  <2>1. \A u \in OpenTrips : u \in Tokens \ {t}
    BY <1>1 DEF OpenTrips
  <2>2. QED BY <1>1, <1>2, <1>3, <1>8, <2>1
<1>14. ReceivedFor(b)' = ReceivedFor(b)
  BY <1>1 DEF ReceivedFor, Received
<1>11. CASE b = w.batch
  BY <1>w, <1>2, <1>4, <1>5, <1>6, <1>7, <1>9, <1>10, <1>11, VolumesAdd, <1>14
<1>12. CASE b # w.batch
  <2>1. VolumesOf(leg', S) = VolumesOf(leg, S)
    BY <1>6, VolumesSame
  <2>2. QED BY <1>w, <1>7, <1>9, <1>10, <1>12, <1>14, <2>1
<1>13. QED BY <1>11, <1>12

\* ...and shrinks with the reception of one of its trips.
LEMMA ReservedCloses ==
  ASSUME EventsInv, NEW r \in Requests, AcceptCommit(r), NEW b
  PROVE  LET w == work[r]
             t == w.token
         IN /\ Reserved(b) \in Int
            /\ Reserved(b)' = Reserved(b) - (IF t \in OpenTrips /\ b = leg[t].batch
                                            THEN leg[t].vol ELSE 0)
            /\ ReceivedFor(b)' = IF b = leg[t].batch THEN ReceivedFor(b) \cup {t}
                                                      ELSE ReceivedFor(b)
<1>w. PICK w : w = work[r]
  OBVIOUS
<1>t. PICK t : t = w.token
  OBVIOUS
<1>1. /\ OpenTrips' = OpenTrips \ {t} /\ UNCHANGED leg
      /\ t \notin Received /\ Received' = Received \cup {t}
  BY <1>w, <1>t, Receiving DEF EventsInv
<1>2. PICK S : S = {u \in OpenTrips : leg[u].batch = b}
  OBVIOUS
<1>3. S \subseteq Dispatched
  BY <1>2, OpenIsDispatched DEF EventsInv
<1>4. IsFiniteSet(S) /\ Loaded(S) \in Int
  BY <1>3, BooksAreNumbers
<1>5. \A u \in S : leg[u].vol \in Int
  BY <1>3 DEF EventsInv, TypeOK, Dispatched, Legs
<1>6. Reserved(b) = VolumesOf(leg, S) /\ VolumesOf(leg, S) \in Int
  BY <1>2, <1>4, LoadedIs DEF Reserved
<1>7. Reserved(b)' = VolumesOf(leg, S \ {t})
  <2>1. {u \in OpenTrips' : leg'[u].batch = b} = S \ {t}
    BY <1>1, <1>2
  <2>2. Reserved(b)' = VolumesOf(leg', {u \in OpenTrips' : leg'[u].batch = b})
    BY DEF Reserved, Loaded, VolumesOf
  <2>3. QED BY <1>1, <2>1, <2>2
<1>8. ReceivedFor(b)' = IF b = leg[t].batch THEN ReceivedFor(b) \cup {t} ELSE ReceivedFor(b)
  BY <1>1 DEF ReceivedFor
<1>9. CASE t \in S
  <2>1. VolumesOf(leg, S \ {t}) = VolumesOf(leg, S) - leg[t].vol
    BY <1>4, <1>5, <1>9, VolumesTake
  <2>2. t \in OpenTrips /\ b = leg[t].batch
    BY <1>2, <1>9
  <2>3. QED BY <1>w, <1>t, <1>6, <1>7, <1>8, <2>1, <2>2
<1>10. CASE t \notin S
  <2>1. S \ {t} = S /\ ~ (t \in OpenTrips /\ b = leg[t].batch)
    BY <1>2, <1>10
  <2>2. VolumesOf(leg, S \ {t}) = VolumesOf(leg, S) - 0
    BY <1>6, <2>1
  <2>3. Reserved(b)' = Reserved(b) - (IF t \in OpenTrips /\ b = leg[t].batch THEN leg[t].vol ELSE 0)
    BY <1>6, <1>7, <2>1, <2>2
  <2>4. QED BY <1>w, <1>t, <1>6, <1>8, <2>3
<1>11. QED BY <1>9, <1>10

\* With one request at a time a dispatch stays within what is left, and a
\* reception hands its reservation over to the delivered count.
LEMMA QuotaStep ==
  ASSUME EventsInv, FreshInv, QuotaRespected, [Next]_vars
  PROVE  QuotaRespected'
<1>1. TypeOK /\ TripInv
  BY DEF EventsInv
<1>0. ASSUME NEW b \in Batches PROVE batch[b].delivered \in Int /\ Declared[b] \in Nat
  BY <1>1, ConstantsAssumption DEF TypeOK
<1>2. ASSUME NEW r \in Requests, IssueCommit(r) PROVE QuotaRespected'
  <2>w. PICK w : w = work[r]
    OBVIOUS
  <2>1. /\ w \in IssueWork /\ pc[r] = "withdraw" /\ UNCHANGED measured
        /\ batch' = [batch EXCEPT ![w.batch].status = DispatchedStatus(@, w.status)]
    BY <1>1, <1>2, <2>w, Dispatching
  <2>2. \A b \in Batches : batch'[b].delivered = batch[b].delivered
    BY <1>1, <2>1 DEF TypeOK
  <2>3. /\ batch[w.batch].delivered = w.delivered /\ w.batch \in Batches
        /\ w.vol <= RemainingBatchLiters(Declared[w.batch], w.delivered, Reserved(w.batch))
    BY <2>w, <2>1 DEF FreshInv, Fresh, IssueFresh, IssueSteps, IssueWork
  <2>4. w.vol \in Nat /\ w.vol > 0
    BY <1>2, <2>w, DispatchedLitres
  <2>5. \A b : /\ Reserved(b) \in Int
               /\ Reserved(b)' = Reserved(b) + (IF b = w.batch THEN w.vol ELSE 0)
               /\ ReceivedFor(b)' = ReceivedFor(b)
    BY <1>2, <2>w, ReservedOpens
  <2>6. ASSUME NEW b \in Batches, \A t \in ReceivedFor(b)' : t \notin Paper /\ measured'[t] <= leg'[t].vol
        PROVE  batch'[b].delivered + Reserved(b)' <= Declared[b]
    <3>1. CASE b = w.batch
      <4>1. w.vol <= Declared[b] - batch[b].delivered - Reserved(b)
        BY <1>0, <2>3, <2>4, <2>5, <3>1 DEF RemainingBatchLiters
      <4>2. QED BY <1>0, <2>2, <2>4, <2>5, <3>1, <4>1
    <3>2. CASE b # w.batch
      <4>1. \A t \in ReceivedFor(b) : leg'[t] = leg[t]
        <5>1. PICK t \in Tokens : t \notin Received /\ \A u \in Tokens \ {t} : leg'[u] = leg[u]
          BY <1>1, <1>2, Dispatching, Zenon
        <5>2. QED BY <5>1 DEF ReceivedFor, Received
      <4>2. \A t \in ReceivedFor(b) : t \notin Paper /\ measured[t] <= leg[t].vol
        BY <2>1, <2>5, <2>6, <4>1
      <4>3. batch[b].delivered + Reserved(b) <= Declared[b]
        BY <4>2 DEF QuotaRespected
      <4>4. Reserved(b)' = Reserved(b)
        BY <2>5, <3>2
      <4>5. QED BY <2>2, <4>3, <4>4
    <3>3. QED BY <3>1, <3>2
  <2>7. QED BY <2>6 DEF QuotaRespected
<1>3. ASSUME NEW r \in Requests, AcceptCommit(r) PROVE QuotaRespected'
  <2>w. PICK w : w = work[r]
    OBVIOUS
  <2>t. PICK t : t = w.token
    OBVIOUS
  <2>c. PICK c : c = leg[t].batch
    OBVIOUS
  <2>1. /\ w \in AcceptWork /\ pc[r] = "stock" /\ c \in Batches /\ leg[t] \in Legs
        /\ UNCHANGED leg /\ measured'[t] = w.vol /\ t \in Tokens /\ t \notin Received
        /\ \A u \in Tokens \ {t} : measured'[u] = measured[u]
        /\ t \notin Paper => t \in OpenTrips
    BY <1>1, <1>3, <2>w, <2>t, <2>c, Receiving DEF Legs
  <2>2. batch'[c].delivered = w.delivered + w.vol /\ \A b \in Batches \ {c} : batch'[b] = batch[b]
    BY <1>1, <1>3, <2>w, <2>t, <2>c, <2>1 DEF AcceptCommit, TypeOK
  <2>3. w.delivered = batch[c].delivered
    BY <2>w, <2>t, <2>c, <2>1 DEF FreshInv, Fresh, AcceptFresh, LockSteps
  <2>4. w.vol \in Int /\ leg[t].vol \in Int
    BY <2>1 DEF AcceptWork, Legs
  <2>5. \A b : /\ Reserved(b) \in Int
               /\ Reserved(b)' = Reserved(b) - (IF t \in OpenTrips /\ b = c THEN leg[t].vol ELSE 0)
               /\ ReceivedFor(b)' = IF b = c THEN ReceivedFor(b) \cup {t} ELSE ReceivedFor(b)
    BY <1>3, <2>w, <2>t, <2>c, ReservedCloses
  <2>6. ASSUME NEW b \in Batches, \A u \in ReceivedFor(b)' : u \notin Paper /\ measured'[u] <= leg'[u].vol
        PROVE  batch'[b].delivered + Reserved(b)' <= Declared[b]
    <3>1. \A u \in ReceivedFor(b) : u \in Tokens \ {t} /\ u \in ReceivedFor(b)'
      BY <2>1, <2>5 DEF ReceivedFor, Received
    <3>2. \A u \in ReceivedFor(b) : u \notin Paper /\ measured[u] <= leg[u].vol
      BY <2>1, <2>6, <3>1
    <3>3. batch[b].delivered + Reserved(b) <= Declared[b]
      BY <3>2 DEF QuotaRespected
    <3>4. CASE b = c
      <4>1. t \in ReceivedFor(b)'
        BY <2>5, <3>4
      <4>2. t \in OpenTrips /\ w.vol <= leg[t].vol
        BY <2>1, <2>6, <4>1
      <4>3. Reserved(b)' = Reserved(b) - leg[t].vol
        BY <2>5, <3>4, <4>2
      <4>4. QED BY <1>0, <2>2, <2>3, <2>4, <2>5, <3>3, <3>4, <4>2, <4>3
    <3>5. CASE b # c
      <4>1. Reserved(b)' = Reserved(b)
        BY <2>5, <3>5
      <4>2. QED BY <2>2, <3>3, <3>5, <4>1
    <3>6. QED BY <3>4, <3>5
  <2>7. QED BY <2>6 DEF QuotaRespected
<1>4. CASE ~ \E r \in Requests : IssueCommit(r) \/ AcceptCommit(r)
  <2>1. UNCHANGED eventVars
    BY <1>4, NoEvent
  <2>2. \A b \in Batches : batch'[b].delivered = batch[b].delivered
    BY <1>1, <1>4, OnlyAudits
  <2>3. /\ \A b : Reserved(b)' = Reserved(b) /\ ReceivedFor(b)' = ReceivedFor(b)
        /\ UNCHANGED <<leg, measured>>
    BY <2>1, SameTrips DEF Reserved, Loaded
  <2>4. QED BY <2>2, <2>3 DEF QuotaRespected
<1>5. QED BY <1>2, <1>3, <1>4

\* With one request at a time no status is computed from an old one.
LEMMA ForwardStep ==
  ASSUME EventsInv, FreshInv, [Next]_vars, NEW b \in Batches,
         batch[b].status \in {"RECEIVED", "DISTRIBUTING"}
  PROVE  batch'[b].status \notin {"AUTHORIZED", "IN_TRANSIT"}
<1>1. TypeOK /\ TripInv
  BY DEF EventsInv
<1>2. ASSUME NEW r \in Requests, IssueCommit(r) PROVE batch'[b].status = batch[b].status
  <2>w. PICK w : w = work[r]
    OBVIOUS
  <2>1. /\ w \in IssueWork /\ pc[r] = "withdraw"
        /\ batch' = [batch EXCEPT ![w.batch].status = DispatchedStatus(@, w.status)]
    BY <1>1, <1>2, <2>w, Dispatching
  <2>2. AsRead(batch[w.batch].status, w.status)
    BY <2>w, <2>1 DEF FreshInv, Fresh, IssueFresh, IssueSteps
  <2>3. b = w.batch => DispatchedStatus(batch[b].status, w.status) = batch[b].status
    BY <2>2 DEF AsRead, DispatchedStatus
  <2>4. QED BY <1>1, <2>1, <2>3 DEF TypeOK
<1>3. ASSUME NEW r \in Requests, AcceptCommit(r)
      PROVE  batch'[b].status \in {"RECEIVED", "DISTRIBUTING"}
  <2>w. PICK w : w = work[r]
    OBVIOUS
  <2>c. PICK c : c = leg[w.token].batch
    OBVIOUS
  <2>1. w \in AcceptWork /\ pc[r] = "stock" /\ c \in Batches
    BY <1>1, <1>3, <2>w, <2>c, Receiving DEF Legs
  <2>2. batch'[c].status = NextBatchStatus(c, w) /\ \A a \in Batches \ {c} : batch'[a] = batch[a]
    BY <1>1, <1>3, <2>w, <2>c, <2>1 DEF AcceptCommit, TypeOK
  <2>3. AsRead(batch[c].status, w.status)
    BY <2>w, <2>c, <2>1 DEF FreshInv, Fresh, AcceptFresh, LockSteps
  <2>4. NextBatchStatus(c, w) \in {"RECEIVED", "DISTRIBUTING", w.status}
    BY DEF NextBatchStatus
  <2>5. b = c => w.status = batch[b].status
    BY <2>3 DEF AsRead
  <2>6. QED BY <2>2, <2>4, <2>5
<1>4. CASE ~ \E r \in Requests : IssueCommit(r) \/ AcceptCommit(r)
  BY <1>1, <1>4, OnlyAudits DEF AsRead
<1>5. QED BY <1>2, <1>3, <1>4

\* In the beginning nothing was read, sent or counted.
LEMMA CalmInit == Init => FreshInv /\ BooksExact /\ OneOpenTrip /\ OpenTripIsAboard /\ QuotaRespected
<1> SUFFICES ASSUME Init
             PROVE  FreshInv /\ BooksExact /\ OneOpenTrip /\ OpenTripIsAboard /\ QuotaRespected
  OBVIOUS
<1>1. Dispatched = {} /\ Received = {} /\ OpenTrips = {}
  BY NoTripYet
<1>2. FreshInv
  BY NothingRelied DEF Init, FreshInv, IssueSteps, LockSteps
<1>3. ASSUME NEW S, S \subseteq {} PROVE Measured(S) = 0
  BY <1>3, SumEmpty DEF Measured
<1>4. ASSUME NEW S, S = {} PROVE Loaded(S) = 0
  <2>1. DOMAIN [t \in S |-> leg[t].vol] = {}
    BY <1>4
  <2>2. QED BY <2>1, SumEmpty DEF Loaded, SumFunction
<1>5. /\ \A b : Measured(ReceivedFor(b)) = 0 /\ Reserved(b) = 0
      /\ \A s : Measured(ReceivedIn(s)) = 0
      /\ Loaded(Dispatched) = 0
  <2>1. \A b : ReceivedFor(b) \subseteq {} /\ {t \in OpenTrips : leg[t].batch = b} = {}
    BY <1>1 DEF ReceivedFor
  <2>2. \A s : ReceivedIn(s) \subseteq {}
    BY <1>1 DEF ReceivedIn
  <2>3. QED BY <1>1, <1>3, <1>4, <2>1, <2>2 DEF Reserved
<1>6. \A b \in Batches : batch[b].delivered = 0
  BY DEF Init
<1>7. BooksExact
  BY <1>5, <1>6, ConstantsAssumption DEF Init, BooksExact
<1>8. QuotaRespected
  BY <1>5, <1>6, ConstantsAssumption DEF QuotaRespected
<1>9. OneOpenTrip /\ OpenTripIsAboard
  BY <1>1 DEF OneOpenTrip, OpenTripIsAboard
<1>10. QED BY <1>2, <1>7, <1>8, <1>9

\* As long as no two requests are under way together, what a request read is fresh.
LEMMA FreshAlways == Spec /\ []OneAtATime => []FreshInv
<1>1. EventsInv /\ EventsInv' /\ OneAtATime /\ FreshInv /\ [Next]_vars => FreshInv'
  BY FreshStep DEF EventsInv
<1>2. Init => FreshInv
  BY CalmInit
<1>3. QED BY <1>1, <1>2, EventsCorrect, PTL DEF Spec

\* As long as no two requests are under way together, no update is lost: batch, tank
\* and depot are exactly what the custody events explain (BooksExact), with tokens
\* that expire, audits that open and requests that die at any moment.
THEOREM BooksExactHolds == Spec /\ []OneAtATime => []BooksExact
<1>1. EventsInv /\ FreshInv /\ BooksExact /\ [Next]_vars => BooksExact'
  BY ExactStep
<1>2. Init => BooksExact
  BY CalmInit
<1>3. QED BY <1>1, <1>2, EventsCorrect, FreshAlways, PTL DEF Spec

\* Under the same condition a cistern has at most one open trip (OneOpenTrip), and
\* carries its litres until they are received (OpenTripIsAboard).
THEOREM OpenTripsHold == Spec /\ []OneAtATime => [](OneOpenTrip /\ OpenTripIsAboard)
<1>1. EventsInv /\ FreshInv /\ (OneOpenTrip /\ OpenTripIsAboard) /\ [Next]_vars
        => (OneOpenTrip /\ OpenTripIsAboard)'
  BY AboardStep
<1>2. Init => OneOpenTrip /\ OpenTripIsAboard
  BY CalmInit
<1>3. QED BY <1>1, <1>2, EventsCorrect, FreshAlways, PTL DEF Spec

\* Under the same condition what is delivered and what is on the road never exceed
\* what the batch declares (QuotaRespected), whatever is dispatched and received.
THEOREM QuotaRespectedHolds == Spec /\ []OneAtATime => []QuotaRespected
<1>1. EventsInv /\ FreshInv /\ QuotaRespected /\ [Next]_vars => QuotaRespected'
  BY QuotaStep
<1>2. Init => QuotaRespected
  BY CalmInit
<1>3. QED BY <1>1, <1>2, EventsCorrect, FreshAlways, PTL DEF Spec

\* Under the same condition no request puts a batch that went on back to AUTHORIZED
\* or IN_TRANSIT (NeverBackToTransit).
THEOREM NeverBackToTransitHolds == Spec /\ []OneAtATime => NeverBackToTransit
<1> DEFINE Forward == \A b \in Batches : batch[b].status \in {"RECEIVED", "DISTRIBUTING"} =>
                         batch'[b].status \notin {"AUTHORIZED", "IN_TRANSIT"}
<1>1. EventsInv /\ FreshInv /\ [Next]_vars => [Forward]_vars
  BY ForwardStep
<1>2. QED BY <1>1, EventsCorrect, FreshAlways, PTL DEF Spec, NeverBackToTransit

=============================================================================
