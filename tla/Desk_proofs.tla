------------------------------ MODULE Desk_proofs ------------------------------
(***************************************************************************)
(* The office, for any clerks, any number of requests at a time, any typed *)
(* codes and any quantities: the next code is free, every reception out of *)
(* tolerance has its anomaly, and a status goes back only for a reason.    *)
(***************************************************************************)
EXTENDS Desk, FiniteSetTheorems, TLAPS

Steps == {"idle", "look", "insert", "edit", "record", "follow", "raise", "customs", "case",
          "hold", "mark", "remove"}

\* What a request at its next call has read fits that call.
Fits(step, w) ==
    /\ step \in Steps
    /\ step \in {"look", "insert"} => w.code \in Nat \ {0}
    /\ step = "edit" => w.about.to \in BatchStatuses
    /\ step = "record" => w.about.kind \in Kinds /\ w.about.move \in Moves
    /\ step = "customs" => w.about \in Moves
    /\ step = "mark" => w.status \in ReviewStatuses

HandlersOK ==
    /\ DOMAIN pc = Clerks /\ DOMAIN work = Clerks
    /\ \A k \in Clerks : Fits(pc[k], work[k])

EventRows == [batch : Nat, kind : Kinds \cup {"CUSTOMS"}, declared : Int, measured : Int]
AnomalyRows == [batch : Nat, event : Nat \cup {Nil}, status : {"OPEN"} \cup ReviewStatuses,
                severity : {"HIGH", "MEDIUM"}]

TablesOK ==
    /\ batch \in Seq(BatchRows \cup {Nil})
    /\ event \in Seq(EventRows)
    /\ anomaly \in Seq(AnomalyRows)
    /\ orphaned \subseteq Nat

\* While every code was counted, codes are at most the number of the batches; a code in
\* hand may be one more.
CodeInv ==
    ~irregular =>
      /\ \A i \in DOMAIN batch : batch[i] # Nil /\ batch[i].code <= Len(batch)
      /\ \A k \in Clerks : pc[k] \in {"look", "insert"} /\ ~work[k].typed =>
                            work[k].code <= Len(batch) + 1

Follows(k) == pc[k] \in {"follow", "raise"}

\* An event that is followed up has no anomaly, and is followed up by one request.
FollowInv ==
    /\ \A k \in Clerks : Follows(k) => work[k].event \in DOMAIN event \ orphaned
    /\ \A k \in Clerks, e \in DOMAIN event :
         Follows(k) /\ work[k].event = e =>
           /\ work[k].id = event[e].batch /\ event[e].kind = "RECEIVED"
           /\ About(e) = {}
           /\ pc[k] = "raise" => OutOfTolerance(e)
    /\ \A k, q \in Clerks : Follows(k) /\ Follows(q) /\ k # q => work[k].event # work[q].event

\* Events and anomalies are about rows, and an event nobody follows up any more has the
\* anomalies it should have.
EventInv ==
    /\ \A e \in DOMAIN event : event[e].batch \in DOMAIN batch
    /\ \A a \in DOMAIN anomaly : anomaly[a].event # Nil => anomaly[a].event \in DOMAIN event
    /\ orphaned \subseteq DOMAIN event /\ \A e \in orphaned : About(e) = {}
    /\ \A e \in DOMAIN event \ orphaned :
         (\A k \in Clerks : Follows(k) => work[k].event # e) =>
           IF OutOfTolerance(e) THEN event[e].batch \in Live => \E a : About(e) = {a}
           ELSE About(e) = {}

DeskInv == HandlersOK /\ TablesOK /\ CodeInv /\ FollowInv /\ EventInv

-------------------------------------------------------------------------------
(* The tables of the office and the requests at it. *)

\* A table with a row more, and one with a row replaced.
LEMMA AppendKeeps ==
    ASSUME NEW S, NEW s \in Seq(S), NEW x \in S
    PROVE  /\ Append(s, x) \in Seq(S)
           /\ Len(Append(s, x)) = Len(s) + 1 /\ Len(s) \in Nat
           /\ DOMAIN Append(s, x) = DOMAIN s \cup {Len(s) + 1}
           /\ DOMAIN s = 1..Len(s) /\ Len(s) + 1 \notin DOMAIN s
           /\ Append(s, x)[Len(s) + 1] = x
           /\ \A i \in DOMAIN s : Append(s, x)[i] = s[i]
  OBVIOUS

\* A row that is written over leaves the table as long as it was and the other rows alone.
LEMMA ExceptKeeps ==
    ASSUME NEW S, NEW s \in Seq(S), NEW r \in DOMAIN s, NEW x \in S
    PROVE  /\ [s EXCEPT ![r] = x] \in Seq(S)
           /\ Len([s EXCEPT ![r] = x]) = Len(s)
           /\ DOMAIN [s EXCEPT ![r] = x] = DOMAIN s
           /\ \A i \in DOMAIN s : [s EXCEPT ![r] = x][i] = IF i = r THEN x ELSE s[i]
  OBVIOUS

\* The statuses that the office writes by itself.
LEMMA StageNames ==
    /\ {"DRAFT", "IN_TRANSIT", "AT_BORDER", "CUSTOMS", "RECEIVED", "SAMPLING", "LAB_ANALYSIS",
        "CERTIFIED", "STORED", "DISTRIBUTING", "DELIVERED"} \subseteq BatchStatuses
    /\ "AUDIT_REQUIRED" \in BatchStatuses
<1>1. /\ FORWARD[1] = "DRAFT" /\ FORWARD[3] = "IN_TRANSIT" /\ FORWARD[4] = "AT_BORDER"
      /\ FORWARD[5] = "CUSTOMS" /\ FORWARD[6] = "RECEIVED" /\ FORWARD[7] = "SAMPLING"
      /\ FORWARD[8] = "LAB_ANALYSIS" /\ FORWARD[9] = "CERTIFIED" /\ FORWARD[10] = "STORED"
      /\ FORWARD[11] = "DISTRIBUTING" /\ FORWARD[12] = "DELIVERED"
  BY DEF FORWARD
<1>2. {FORWARD[1], FORWARD[3], FORWARD[4], FORWARD[5], FORWARD[6], FORWARD[7], FORWARD[8],
       FORWARD[9], FORWARD[10], FORWARD[11], FORWARD[12]} \subseteq BatchStatuses
  BY DEF BatchStatuses, Stages
<1>3. QED BY <1>1, <1>2 DEF BatchStatuses

\* A new status keeps the code of a batch.
LEMMA StatusKept ==
    ASSUME TablesOK, NEW i \in Live, NEW s \in BatchStatuses, SetStatus(i, s)
    PROVE  /\ batch' \in Seq(BatchRows \cup {Nil}) /\ Len(batch') = Len(batch)
           /\ DOMAIN batch' = DOMAIN batch
           /\ \A j \in DOMAIN batch : /\ j # i => batch'[j] = batch[j]
                                      /\ (batch'[j] = Nil) = (batch[j] = Nil)
                                      /\ batch[j] # Nil => batch'[j].code = batch[j].code
           /\ batch'[i].status = s
<1> DEFINE row == [batch[i] EXCEPT !.status = s]
<1>1. batch[i] \in BatchRows /\ i \in DOMAIN batch
  BY DEF TablesOK, Live
<1>2. row \in BatchRows /\ row.code = batch[i].code /\ row.status = s
  BY <1>1 DEF BatchRows
<1>3. batch' = [batch EXCEPT ![i] = row]
  BY DEF SetStatus
<1>4. row # Nil /\ batch[i] # Nil
  BY <1>1, <1>2, DeskAssumption
<1> HIDE DEF row
<1>5. /\ batch' \in Seq(BatchRows \cup {Nil}) /\ Len(batch') = Len(batch)
      /\ DOMAIN batch' = DOMAIN batch
      /\ \A j \in DOMAIN batch : batch'[j] = IF j = i THEN row ELSE batch[j]
  <2>1. batch \in Seq(BatchRows \cup {Nil}) /\ row \in BatchRows \cup {Nil}
    BY <1>2 DEF TablesOK
  <2>2. QED BY <1>1, <1>3, <2>1, ExceptKeeps
<1>6. QED BY <1>1, <1>2, <1>4, <1>5

\* What every step of a request does to the requests.
LEMMA GotoFits ==
    ASSUME HandlersOK, NEW k \in Clerks, NEW step, NEW w, Goto(k, step, w), Fits(step, w)
    PROVE  /\ HandlersOK'
           /\ \A q \in Clerks : /\ pc'[q] = IF q = k THEN step ELSE pc[q]
                                /\ work'[q] = IF q = k THEN w ELSE work[q]
  BY DEF HandlersOK, Goto

\* A request that returns carries nothing, which fits.
LEMMA ReturnFits ==
    ASSUME HandlersOK, NEW k \in Clerks, Return(k)
    PROVE  /\ HandlersOK'
           /\ \A q \in Clerks : /\ pc'[q] = IF q = k THEN "idle" ELSE pc[q]
                                /\ work'[q] = IF q = k THEN Nil ELSE work[q]
<1>1. Fits("idle", Nil)
  BY DEF Fits, Steps
<1>2. QED BY <1>1, GotoFits DEF Return

\* The tolerance, without its maximum: beyond 20 litres and beyond half a per cent.
LEMMA BeyondTolerance ==
    ASSUME NEW x \in Int, NEW apart \in Nat
    PROVE  ~(apart <= demoToleranceLiters(x)) <=> apart > 20 /\ 200 * apart > x
<1>1. CASE x > 4000
  <2>1. /\ x \div 200 \in Int /\ x \div 200 >= 20
        /\ 200 * (x \div 200) <= x /\ x < 200 * (x \div 200) + 200
    BY <1>1
  <2>2. QED BY <1>1, <2>1 DEF demoToleranceLiters
<1>2. CASE ~(x > 4000)
  BY <1>2 DEF demoToleranceLiters
<1>3. QED BY <1>1, <1>2

\* The code's tolerance is the one the property speaks of: half a percent, at least 20.
LEMMA ToleranceIsMeant ==
    ASSUME TablesOK, NEW e \in DOMAIN event, event[e].kind = "RECEIVED"
    PROVE  (reconcileMovement(event[e].declared, event[e].measured) = "ANOMALY")
             <=> OutOfTolerance(e)
<1> DEFINE x == event[e].declared
           y == event[e].measured
<1>1. x \in Int /\ y \in Int
  <2>1. event[e] \in EventRows
    BY DEF TablesOK
  <2>2. QED BY <2>1 DEF EventRows
<1>2. CASE NoLitres \in {x, y}
  BY <1>2 DEF reconcileMovement, OutOfTolerance
<1>3. CASE NoLitres \notin {x, y} /\ x = y
  <2>1. Abs(y - x) = 0
    BY <1>1, <1>3 DEF Abs
  <2>2. QED BY <1>3, <2>1 DEF reconcileMovement, OutOfTolerance
<1>4. CASE NoLitres \notin {x, y} /\ x # y
  <2>1. Abs(y - x) \in Nat
    BY <1>1 DEF Abs
  <2>2. (reconcileMovement(x, y) = "ANOMALY") <=> ~(Abs(y - x) <= demoToleranceLiters(x))
    BY <1>4 DEF reconcileMovement
  <2>3. OutOfTolerance(e) <=> Abs(y - x) > 20 /\ 200 * Abs(y - x) > x
    BY <1>4 DEF OutOfTolerance
  <2>4. QED BY <1>1, <2>1, <2>2, <2>3, BeyondTolerance
<1>5. QED BY <1>2, <1>3, <1>4

-------------------------------------------------------------------------------
(* What a step leaves alone. *)

\* The requests that register, and those that follow up, are as they were.
SameCodes == \A q \in Clerks : pc'[q] \in {"look", "insert"} =>
               pc[q] \in {"look", "insert"} /\ work'[q] = work[q]
SameFollowers == \A q \in Clerks : Follows(q) \/ Follows(q)' =>
                   pc'[q] = pc[q] /\ work'[q] = work[q]

\* No batch came or went, and codes are as they were.
SameBatches ==
    /\ Len(batch') = Len(batch) /\ DOMAIN batch' = DOMAIN batch
    /\ \A j \in DOMAIN batch : /\ (batch'[j] = Nil) = (batch[j] = Nil)
                               /\ batch[j] # Nil => batch'[j].code = batch[j].code

\* No batch came back, and anomalies are about the events they were about.
SameEvents ==
    /\ UNCHANGED <<event, orphaned>>
    /\ DOMAIN batch \subseteq DOMAIN batch' /\ Live' \cap DOMAIN batch \subseteq Live
    /\ \A e \in DOMAIN event : About(e)' = About(e)
    /\ \A a \in DOMAIN anomaly' : anomaly'[a].event # Nil => anomaly'[a].event \in DOMAIN event

\* Codes stay below the number of batches as long as neither batches nor drafts change.
LEMMA CodesStay ==
    ASSUME CodeInv, SameBatches, SameCodes, irregular => irregular'
    PROVE  CodeInv'
<1> SUFFICES ASSUME ~irregular'
             PROVE  /\ \A i \in DOMAIN batch' : batch'[i] # Nil /\ batch'[i].code <= Len(batch')
                    /\ \A k \in Clerks : pc'[k] \in {"look", "insert"} /\ ~work'[k].typed =>
                                          work'[k].code <= Len(batch') + 1
  BY DEF CodeInv
<1>1. /\ \A i \in DOMAIN batch : batch[i] # Nil /\ batch[i].code <= Len(batch)
      /\ \A k \in Clerks : pc[k] \in {"look", "insert"} /\ ~work[k].typed =>
                            work[k].code <= Len(batch) + 1
  BY DEF CodeInv
<1>2. QED BY <1>1 DEF SameBatches, SameCodes

\* Every event is followed up as before while neither events nor their followers change.
LEMMA FollowersStay ==
    ASSUME FollowInv, EventInv, SameEvents, SameFollowers
    PROVE  FollowInv' /\ EventInv'
<1>1. \A e \in DOMAIN event : OutOfTolerance(e)' = OutOfTolerance(e)
  BY DEF SameEvents, OutOfTolerance
<1>2. FollowInv'
  <2>1. \A k \in Clerks : Follows(k)' => Follows(k) /\ pc'[k] = pc[k] /\ work'[k] = work[k]
    BY DEF SameFollowers, Follows
  <2>2. ASSUME NEW k \in Clerks, NEW e \in DOMAIN event', Follows(k)', work'[k].event = e
        PROVE  /\ work'[k].id = event'[e].batch /\ event'[e].kind = "RECEIVED"
               /\ About(e)' = {}
               /\ pc'[k] = "raise" => OutOfTolerance(e)'
    <3>1. Follows(k) /\ pc'[k] = pc[k] /\ work'[k] = work[k] /\ e \in DOMAIN event
      BY <2>1, <2>2 DEF SameEvents
    <3>2. /\ work[k].id = event[e].batch /\ event[e].kind = "RECEIVED" /\ About(e) = {}
          /\ pc[k] = "raise" => OutOfTolerance(e)
      BY <2>2, <3>1 DEF FollowInv
    <3>3. About(e)' = {} /\ OutOfTolerance(e)' = OutOfTolerance(e)
      BY <1>1, <3>1, <3>2 DEF SameEvents
    <3>4. QED BY <3>1, <3>2, <3>3 DEF SameEvents
  <2>4. \A k \in Clerks : Follows(k)' => work'[k].event \in DOMAIN event' \ orphaned'
    BY <2>1 DEF FollowInv, SameEvents
  <2>3. \A k, q \in Clerks : Follows(k)' /\ Follows(q)' /\ k # q => work'[k].event # work'[q].event
    BY <2>1 DEF FollowInv
  <2>5. QED BY <2>2, <2>3, <2>4 DEF FollowInv
<1>3. EventInv'
  <2>1. \A e \in DOMAIN event' : event'[e].batch \in DOMAIN batch'
    BY DEF EventInv, SameEvents
  <2>2. orphaned' \subseteq DOMAIN event' /\ \A e \in orphaned' : About(e)' = {}
    BY DEF EventInv, SameEvents
  <2>3. ASSUME NEW e \in DOMAIN event' \ orphaned',
               \A k \in Clerks : Follows(k)' => work'[k].event # e
        PROVE  IF OutOfTolerance(e)' THEN event'[e].batch \in Live' => \E a : About(e)' = {a}
               ELSE About(e)' = {}
    <3>1. e \in DOMAIN event \ orphaned /\ \A k \in Clerks : Follows(k) => work[k].event # e
      BY <2>3 DEF SameEvents, SameFollowers, Follows
    <3>2. IF OutOfTolerance(e) THEN event[e].batch \in Live => \E a : About(e) = {a}
          ELSE About(e) = {}
      BY <3>1 DEF EventInv
    <3>3. About(e)' = About(e) /\ OutOfTolerance(e)' = OutOfTolerance(e)
          /\ event'[e].batch = event[e].batch /\ event[e].batch \in DOMAIN batch
      BY <1>1, <3>1 DEF SameEvents, EventInv
    <3>4. event'[e].batch \in Live' => event[e].batch \in Live
      BY <3>3 DEF SameEvents
    <3>5. QED BY <3>2, <3>3, <3>4
  <2>4. QED BY <2>1, <2>2, <2>3 DEF EventInv, SameEvents
<1>4. QED BY <1>2, <1>3

-------------------------------------------------------------------------------
(* The steps. *)

\* Tables that stay as they are.
LEMMA TablesStay ==
    ASSUME DeskInv, UNCHANGED <<batch, event, anomaly, orphaned>>
    PROVE  TablesOK' /\ SameBatches /\ SameEvents
<1>1. \A e \in DOMAIN event : About(e)' = About(e)
  BY DEF About
<1>2. Live' = Live
  BY DEF Live
<1>3. QED BY <1>1, <1>2 DEF DeskInv, TablesOK, SameBatches, SameEvents, EventInv

\* A request that reads, or one that writes nothing these invariants speak of.
LEMMA ReadSteps ==
    ASSUME DeskInv, NEW k \in Clerks,
           \/ \E given \in GivenCodes \cup {Nil} : CreateStart(k, given)
           \/ CreateLook(k) \/ OpenCase(k)
           \/ \E i \in Live :
                \/ \E s \in Edits : Read(k, i, "edit", [to |-> s])
                \/ \E kind \in Kinds, move \in Moves :
                     Read(k, i, "record", [kind |-> kind, move |-> move])
                \/ \E move \in Moves : Read(k, i, "customs", move)
                \/ \E a \in {x \in DOMAIN anomaly : Of(x)} \cup {Nil} :
                     Read(k, i, "case", [anomaly |-> a])
                \/ Read(k, i, "remove", Nil)
           \/ \E c \in DOMAIN case, s \in ReviewStatuses : CaseStatus(k, c, s)
           \/ ~Follows(k) /\ Die(k)
    PROVE  DeskInv'
<1>0. /\ HandlersOK /\ TablesOK /\ CodeInv /\ FollowInv /\ EventInv
  BY DEF DeskInv
<1>1. UNCHANGED <<batch, event, anomaly, irregular, orphaned>> /\ ~Follows(k)
  BY DEF CreateStart, CreateLook, OpenCase, Read, CaseStatus, Die, Follows, rows
<1>2. TablesOK' /\ SameBatches /\ SameEvents
  BY <1>1, TablesStay
<1>3. ASSUME NEW step \in Steps, NEW w, Goto(k, step, w), Fits(step, w),
             step \notin {"follow", "raise", "look", "insert"}
      PROVE  DeskInv'
  <2>1. /\ HandlersOK'
        /\ \A q \in Clerks : /\ pc'[q] = IF q = k THEN step ELSE pc[q]
                             /\ work'[q] = IF q = k THEN w ELSE work[q]
    BY <1>0, <1>3, GotoFits
  <2>2. SameCodes /\ SameFollowers
    BY <1>1, <1>3, <2>1 DEF SameCodes, SameFollowers, Follows
  <2>3. CodeInv' /\ FollowInv' /\ EventInv'
    BY <1>0, <1>1, <1>2, <2>2, CodesStay, FollowersStay
  <2>4. QED BY <1>2, <2>1, <2>3 DEF DeskInv
<1>4. CASE Return(k)
  <2>1. Fits("idle", Nil) /\ "idle" \in Steps
    BY DEF Fits, Steps
  <2>2. QED BY <1>3, <1>4, <2>1 DEF Return
<1>5. ASSUME NEW given \in GivenCodes \cup {Nil}, CreateStart(k, given) PROVE DeskInv'
  <2> DEFINE w == [code |-> IF given # Nil THEN given ELSE NextCode, typed |-> given # Nil]
  <2>1. Goto(k, "look", w)
    BY <1>5 DEF CreateStart
  <2>2. DOMAIN batch = 1..Len(batch) /\ Len(batch) \in Nat
    BY <1>0 DEF TablesOK
  <2>3. IsFiniteSet(1..Len(batch)) /\ Cardinality(1..Len(batch)) = Len(batch)
    BY <2>2, FS_Interval
  <2>4. IsFiniteSet(Live) /\ Cardinality(Live) \in Nat /\ Cardinality(Live) <= Len(batch)
    <3>1. Live \subseteq 1..Len(batch)
      BY <2>2 DEF Live
    <3>2. IsFiniteSet(Live) /\ Cardinality(Live) <= Cardinality(1..Len(batch))
      BY <2>3, <3>1, FS_Subset
    <3>3. Cardinality(Live) \in Nat
      BY <3>2, FS_CardinalityType
    <3>4. QED BY <2>3, <3>2, <3>3
  <2>5. w.code \in Nat \ {0} /\ (~w.typed => w.code <= Len(batch) + 1)
    <3>1. NextCode \in Nat \ {0} /\ NextCode <= Len(batch) + 1
      BY <2>2, <2>4 DEF NextCode
    <3>2. w.typed = (given # Nil) /\ w.code = IF given # Nil THEN given ELSE NextCode
      OBVIOUS
    <3>3. QED BY <3>1, <3>2, DeskAssumption
  <2>6. Fits("look", w)
    BY <2>5 DEF Fits, Steps
  <2> HIDE DEF w
  <2>7. /\ HandlersOK'
        /\ \A q \in Clerks : /\ pc'[q] = IF q = k THEN "look" ELSE pc[q]
                             /\ work'[q] = IF q = k THEN w ELSE work[q]
    BY <1>0, <2>1, <2>6, GotoFits
  <2>8. SameFollowers
    BY <1>1, <2>7 DEF SameFollowers, Follows
  <2>9. CodeInv'
    BY <1>0, <1>1, <2>5, <2>7 DEF CodeInv
  <2>10. QED BY <1>0, <1>2, <2>7, <2>8, <2>9, FollowersStay DEF DeskInv
<1>6. ASSUME CreateLook(k), Goto(k, "insert", work[k]) PROVE DeskInv'
  <2>1. pc[k] = "look" /\ Fits("insert", work[k])
    BY <1>0, <1>6 DEF CreateLook, HandlersOK, Fits, Steps
  <2>2. /\ HandlersOK'
        /\ \A q \in Clerks : /\ pc'[q] = IF q = k THEN "insert" ELSE pc[q]
                             /\ work'[q] = IF q = k THEN work[k] ELSE work[q]
    BY <1>0, <1>6, <2>1, GotoFits
  <2>3. SameFollowers
    BY <1>1, <2>2 DEF SameFollowers, Follows
  <2>4. SameCodes
    BY <2>1, <2>2 DEF SameCodes
  <2>5. CodeInv'
    BY <1>0, <1>1, <1>2, <2>4, CodesStay
  <2>6. QED BY <1>0, <1>2, <2>2, <2>3, <2>5, FollowersStay DEF DeskInv
<1>7. ASSUME NEW i \in Live,
             \/ \E s \in Edits : Read(k, i, "edit", [to |-> s])
             \/ \E kind \in Kinds, move \in Moves :
                  Read(k, i, "record", [kind |-> kind, move |-> move])
             \/ \E move \in Moves : Read(k, i, "customs", move)
             \/ \E a \in {x \in DOMAIN anomaly : Of(x)} \cup {Nil} :
                  Read(k, i, "case", [anomaly |-> a])
             \/ Read(k, i, "remove", Nil)
      PROVE  DeskInv'
  <2>1. PICK step, w : /\ step \in {"edit", "record", "customs", "case", "remove"}
                           /\ Goto(k, step, w) /\ Fits(step, w)
    <3>1. ASSUME NEW s \in Edits, Read(k, i, "edit", [to |-> s])
          PROVE  \E w : Goto(k, "edit", w) /\ Fits("edit", w)
      BY <3>1, DeskAssumption DEF Read, Fits, Steps
    <3>2. ASSUME NEW kind \in Kinds, NEW move \in Moves,
                 Read(k, i, "record", [kind |-> kind, move |-> move])
          PROVE  \E w : Goto(k, "record", w) /\ Fits("record", w)
      BY <3>2 DEF Read, Fits, Steps
    <3>3. ASSUME NEW move \in Moves, Read(k, i, "customs", move)
          PROVE  \E w : Goto(k, "customs", w) /\ Fits("customs", w)
      BY <3>3 DEF Read, Fits, Steps
    <3>4. ASSUME NEW a, Read(k, i, "case", [anomaly |-> a])
          PROVE  \E w : Goto(k, "case", w) /\ Fits("case", w)
      BY <3>4 DEF Read, Fits, Steps
    <3>5. ASSUME Read(k, i, "remove", Nil)
          PROVE  \E w : Goto(k, "remove", w) /\ Fits("remove", w)
      BY <3>5 DEF Read, Fits, Steps
    <3>6. QED BY <1>7, <3>1, <3>2, <3>3, <3>4, <3>5
  <2>2. QED BY <1>3, <2>1 DEF Fits
<1>8. ASSUME OpenCase(k) PROVE DeskInv'
  <2>1. CASE Goto(k, "hold", work[k])
    <3>1. Fits("hold", work[k]) /\ "hold" \in Steps
      BY DEF Fits, Steps
    <3>2. QED BY <1>3, <2>1, <3>1
  <2>2. QED BY <1>4, <1>8, <2>1 DEF OpenCase
<1>9. ASSUME NEW c \in DOMAIN case, NEW s \in ReviewStatuses, CaseStatus(k, c, s) PROVE DeskInv'
  <2>1. CASE Goto(k, "mark", [anomaly |-> case[c].anomaly, status |-> s])
    <3>1. Fits("mark", [anomaly |-> case[c].anomaly, status |-> s]) /\ "mark" \in Steps
      BY DEF Fits, Steps
    <3>2. QED BY <1>3, <2>1, <3>1
  <2>2. QED BY <1>4, <1>9, <2>1 DEF CaseStatus
<1>10. QED BY <1>4, <1>5, <1>6, <1>7, <1>8, <1>9 DEF CreateLook, Die

\* A request that returns was no follow-up: nothing else of the requests changes.
LEMMA ReturnStays ==
    ASSUME HandlersOK, NEW k \in Clerks, Return(k), ~Follows(k)
    PROVE  HandlersOK' /\ SameCodes /\ SameFollowers
<1>1. /\ HandlersOK'
      /\ \A q \in Clerks : /\ pc'[q] = IF q = k THEN "idle" ELSE pc[q]
                           /\ work'[q] = IF q = k THEN Nil ELSE work[q]
  BY ReturnFits
<1>2. QED BY <1>1 DEF SameCodes, SameFollowers, Follows

\* A status that is set disturbs neither codes nor follow-ups.
LEMMA StatusStays ==
    ASSUME TablesOK, EventInv, NEW i \in Live, NEW s \in BatchStatuses, SetStatus(i, s),
           UNCHANGED <<event, anomaly, orphaned>>
    PROVE  TablesOK' /\ SameBatches /\ SameEvents
<1>1. TablesOK' /\ SameBatches
  BY StatusKept DEF TablesOK, SameBatches
<1>2. Live' = Live
  BY <1>1 DEF Live, SameBatches
<1>3. \A e \in DOMAIN event : About(e)' = About(e)
  BY DEF About
<1>4. QED BY <1>1, <1>2, <1>3 DEF SameBatches, SameEvents, EventInv

\* A request that writes a batch.
LEMMA BatchSteps ==
    ASSUME DeskInv, NEW k \in Clerks, CreateInsert(k) \/ Edit(k) \/ Hold(k) \/ Remove(k)
    PROVE  DeskInv'
<1>0. HandlersOK /\ TablesOK /\ CodeInv /\ FollowInv /\ EventInv
  BY DEF DeskInv
<1>1. /\ Return(k) /\ ~Follows(k) /\ UNCHANGED <<event, anomaly, orphaned>>
  BY DEF CreateInsert, Edit, Hold, Remove, Follows
<1>2. HandlersOK' /\ SameCodes /\ SameFollowers
  BY <1>0, <1>1, ReturnStays
<1>3. CASE UNCHANGED <<batch, irregular>>
  <2>1. TablesOK' /\ SameBatches /\ SameEvents
    BY <1>1, <1>3, TablesStay
  <2>2. QED BY <1>0, <1>2, <1>3, <2>1, CodesStay, FollowersStay DEF DeskInv
<1>4. ASSUME NEW i \in Live, NEW s \in BatchStatuses, SetStatus(i, s), UNCHANGED irregular
      PROVE  DeskInv'
  <2>1. TablesOK' /\ SameBatches /\ SameEvents
    BY <1>0, <1>1, <1>4, StatusStays
  <2>2. QED BY <1>0, <1>2, <1>4, <2>1, CodesStay, FollowersStay DEF DeskInv
<1>5. ASSUME NEW s \in Edits \cup {"DRAFT"}, pc[k] = "insert",
             batch' = Append(batch, [code |-> work[k].code, status |-> s]),
             irregular' = (irregular \/ work[k].typed), work[k].code \notin Codes
      PROVE  DeskInv'
  <2> DEFINE row == [code |-> work[k].code, status |-> s]
  <2>1. "DRAFT" \in BatchStatuses
    BY StageNames
  <2>2. row \in BatchRows
    BY <1>0, <1>5, <2>1, DeskAssumption DEF HandlersOK, Fits, BatchRows
  <2>3. row # Nil /\ row.code = work[k].code
    BY <2>2, DeskAssumption
  <2> HIDE DEF row
  <2>4. batch \in Seq(BatchRows \cup {Nil}) /\ row \in BatchRows \cup {Nil}
    BY <1>0, <2>2 DEF TablesOK
  <2>5. /\ batch' \in Seq(BatchRows \cup {Nil}) /\ Len(batch') = Len(batch) + 1
        /\ DOMAIN batch' = DOMAIN batch \cup {Len(batch) + 1} /\ Len(batch) \in Nat
        /\ DOMAIN batch = 1..Len(batch)
        /\ batch'[Len(batch) + 1] = row
        /\ \A j \in DOMAIN batch : batch'[j] = batch[j]
    BY <1>5, <2>4, AppendKeeps DEF row
  <2>6. TablesOK'
    BY <1>0, <1>1, <2>5 DEF TablesOK
  <2>7. Live' \cap DOMAIN batch \subseteq Live
    BY <2>5 DEF Live
  <2>8. \A e \in DOMAIN event : About(e)' = About(e)
    BY <1>1 DEF About
  <2>9. SameEvents
    BY <1>0, <1>1, <2>5, <2>7, <2>8 DEF SameEvents, EventInv
  <2>10. CodeInv'
    <3> SUFFICES ASSUME ~irregular'
                 PROVE  /\ \A i \in DOMAIN batch' : batch'[i] # Nil /\ batch'[i].code <= Len(batch')
                        /\ \A q \in Clerks : pc'[q] \in {"look", "insert"} /\ ~work'[q].typed =>
                                              work'[q].code <= Len(batch') + 1
      BY DEF CodeInv
    <3>1. ~irregular /\ ~work[k].typed
      BY <1>5
    <3>2. /\ \A i \in DOMAIN batch : batch[i] # Nil /\ batch[i].code <= Len(batch)
          /\ \A q \in Clerks : pc[q] \in {"look", "insert"} /\ ~work[q].typed =>
                                work[q].code <= Len(batch) + 1
      BY <1>0, <3>1 DEF CodeInv
    <3>3. \A i \in DOMAIN batch : batch[i].code \in Nat
      BY <2>4, <3>2 DEF BatchRows
    <3>4. row.code <= Len(batch')
      BY <1>5, <2>3, <2>5, <3>1, <3>2
    <3>5. \A i \in DOMAIN batch' : batch'[i] # Nil /\ batch'[i].code <= Len(batch')
      BY <2>3, <2>5, <3>2, <3>3, <3>4
    <3>6. ASSUME NEW q \in Clerks, pc'[q] \in {"look", "insert"}, ~work'[q].typed
          PROVE  work'[q].code <= Len(batch') + 1
      <4>1. pc[q] \in {"look", "insert"} /\ work'[q] = work[q]
        BY <1>2, <3>6 DEF SameCodes
      <4>2. work[q].code <= Len(batch) + 1 /\ work[q].code \in Nat
        BY <1>0, <3>2, <3>6, <4>1 DEF HandlersOK, Fits
      <4>3. QED BY <2>5, <4>1, <4>2
    <3>7. QED BY <3>5, <3>6
  <2>11. QED BY <1>0, <1>2, <2>6, <2>9, <2>10, FollowersStay DEF DeskInv
<1>6. CASE CreateInsert(k)
  BY <1>3, <1>5, <1>6 DEF CreateInsert
<1>7. CASE Edit(k)
  <2>1. work[k].about.to \in BatchStatuses
    BY <1>0, <1>7 DEF Edit, HandlersOK, Fits
  <2>2. QED BY <1>3, <1>4, <1>7, <2>1 DEF Edit
<1>8. CASE Hold(k)
  <2>1. "AUDIT_REQUIRED" \in BatchStatuses
    BY DEF BatchStatuses
  <2>2. QED BY <1>3, <1>4, <1>8, <2>1 DEF Hold
<1>9. ASSUME work[k].id \in Live, batch' = [batch EXCEPT ![work[k].id] = Nil], irregular' = TRUE
      PROVE  DeskInv'
  <2>1. batch \in Seq(BatchRows \cup {Nil}) /\ work[k].id \in DOMAIN batch
    BY <1>0, <1>9 DEF TablesOK, Live
  <2>2. /\ batch' \in Seq(BatchRows \cup {Nil}) /\ DOMAIN batch' = DOMAIN batch
        /\ \A j \in DOMAIN batch : batch'[j] = IF j = work[k].id THEN Nil ELSE batch[j]
    BY <1>9, <2>1, ExceptKeeps
  <2>3. Live' \subseteq Live
    BY <2>2 DEF Live
  <2>4. \A e \in DOMAIN event : About(e)' = About(e)
    BY <1>1 DEF About
  <2>5. TablesOK' /\ SameEvents
    BY <1>0, <1>1, <2>2, <2>3, <2>4 DEF TablesOK, SameEvents, EventInv
  <2>6. CodeInv'
    BY <1>9 DEF CodeInv
  <2>7. QED BY <1>0, <1>2, <2>5, <2>6, FollowersStay DEF DeskInv
<1>10. CASE Remove(k)
  BY <1>3, <1>9, <1>10 DEF Remove
<1>11. QED BY <1>6, <1>7, <1>8, <1>10

\* An anomaly more, or one with another status.
LEMMA AnomalyKept ==
    ASSUME TablesOK, NEW x \in AnomalyRows, anomaly' = Append(anomaly, x)
    PROVE  /\ anomaly' \in Seq(AnomalyRows)
           /\ DOMAIN anomaly' = DOMAIN anomaly \cup {Len(anomaly) + 1}
           /\ Len(anomaly) + 1 \notin DOMAIN anomaly
           /\ anomaly'[Len(anomaly) + 1] = x
           /\ \A a \in DOMAIN anomaly : anomaly'[a] = anomaly[a]
  BY AppendKeeps DEF TablesOK

\* A new status of an anomaly changes no other column of any.
LEMMA MarkKept ==
    ASSUME TablesOK, NEW a, NEW s \in ReviewStatuses, anomaly' = [anomaly EXCEPT ![a].status = s]
    PROVE  /\ anomaly' \in Seq(AnomalyRows) /\ DOMAIN anomaly' = DOMAIN anomaly
           /\ \A b \in DOMAIN anomaly : anomaly'[b].event = anomaly[b].event
<1>0. anomaly \in Seq(AnomalyRows)
  BY DEF TablesOK
<1>1. CASE a \in DOMAIN anomaly
  <2> DEFINE row == [anomaly[a] EXCEPT !.status = s]
  <2>1. anomaly[a] \in AnomalyRows
    BY <1>0, <1>1
  <2>2. row \in AnomalyRows /\ row.event = anomaly[a].event
    BY <2>1 DEF AnomalyRows
  <2>3. anomaly' = [anomaly EXCEPT ![a] = row]
    OBVIOUS
  <2> HIDE DEF row
  <2>4. /\ anomaly' \in Seq(AnomalyRows) /\ DOMAIN anomaly' = DOMAIN anomaly
        /\ \A b \in DOMAIN anomaly : anomaly'[b] = IF b = a THEN row ELSE anomaly[b]
    BY <1>0, <1>1, <2>2, <2>3, ExceptKeeps
  <2>5. QED BY <2>2, <2>4
<1>2. CASE a \notin DOMAIN anomaly
  <2>1. anomaly' = anomaly
    BY <1>0, <1>2
  <2>2. QED BY <1>0, <2>1
<1>3. QED BY <1>1, <1>2

\* Anomalies that nobody's follow-up raised.
LEMMA AnomalySteps ==
    ASSUME DeskInv, NEW k \in Clerks,
           \/ Mark(k)
           \/ \E i \in Live : AddAnomaly(k, i)
           \/ \E a \in DOMAIN anomaly, s \in ReviewStatuses : AnomalyStatus(k, a, s)
    PROVE  DeskInv'
<1>0. HandlersOK /\ TablesOK /\ CodeInv /\ FollowInv /\ EventInv
  BY DEF DeskInv
<1>1. UNCHANGED <<batch, event, irregular, orphaned>>
  BY DEF Mark, AddAnomaly, AnomalyStatus
<1>2. HandlersOK' /\ SameCodes /\ SameFollowers
  <2>1. CASE UNCHANGED <<pc, work>>
    BY <1>0, <2>1 DEF HandlersOK, SameCodes, SameFollowers
  <2>2. CASE Mark(k)
    <3>1. Return(k) /\ ~Follows(k)
      BY <2>2 DEF Mark, Follows
    <3>2. QED BY <1>0, <3>1, ReturnStays
  <2>3. QED BY <2>1, <2>2 DEF AddAnomaly, AnomalyStatus
<1>3. SameBatches
  BY <1>1 DEF SameBatches
<1>4. ASSUME anomaly' \in Seq(AnomalyRows),
             \A e \in DOMAIN event : About(e)' = About(e),
             \A a \in DOMAIN anomaly' : anomaly'[a].event # Nil => anomaly'[a].event \in DOMAIN event
      PROVE  DeskInv'
  <2>1. Live' = Live
    BY <1>1 DEF Live
  <2>2. TablesOK' /\ SameEvents
    BY <1>0, <1>1, <1>4, <2>1 DEF TablesOK, SameEvents
  <2>3. QED BY <1>0, <1>1, <1>2, <1>3, <2>2, CodesStay, FollowersStay DEF DeskInv
<1>5. ASSUME NEW a, NEW s \in ReviewStatuses, anomaly' = [anomaly EXCEPT ![a].status = s]
      PROVE  DeskInv'
  <2>1. /\ anomaly' \in Seq(AnomalyRows) /\ DOMAIN anomaly' = DOMAIN anomaly
        /\ \A b \in DOMAIN anomaly : anomaly'[b].event = anomaly[b].event
    BY <1>0, <1>5, MarkKept
  <2>2. \A e \in DOMAIN event : About(e)' = About(e)
    BY <2>1 DEF About
  <2>3. QED BY <1>0, <1>4, <2>1, <2>2 DEF EventInv
<1>6. CASE Mark(k)
  <2>1. work[k].status \in ReviewStatuses
    BY <1>0, <1>6 DEF Mark, HandlersOK, Fits
  <2>2. CASE UNCHANGED anomaly
    <3>1. TablesOK' /\ SameEvents
      BY <1>1, <2>2, TablesStay
    <3>2. QED BY <1>0, <1>1, <1>2, <1>3, <3>1, CodesStay, FollowersStay DEF DeskInv
  <2>3. QED BY <1>5, <1>6, <2>1, <2>2 DEF Mark
<1>7. ASSUME NEW i \in Live, AddAnomaly(k, i) PROVE DeskInv'
  <2> DEFINE x == [batch |-> i, event |-> Nil, status |-> "OPEN", severity |-> "MEDIUM"]
  <2>1. i \in Nat
    BY <1>0 DEF Live, TablesOK
  <2>2. x \in AnomalyRows /\ x.event = Nil
    BY <2>1 DEF AnomalyRows
  <2>3. anomaly' = Append(anomaly, x)
    BY <1>7 DEF AddAnomaly
  <2> HIDE DEF x
  <2>4. /\ anomaly' \in Seq(AnomalyRows)
        /\ DOMAIN anomaly' = DOMAIN anomaly \cup {Len(anomaly) + 1}
        /\ Len(anomaly) + 1 \notin DOMAIN anomaly
        /\ anomaly'[Len(anomaly) + 1] = x
        /\ \A a \in DOMAIN anomaly : anomaly'[a] = anomaly[a]
    BY <1>0, <2>2, <2>3, AnomalyKept
  <2>5. \A e \in DOMAIN event : e # Nil
    BY <1>0, DeskAssumption DEF TablesOK
  <2>6. \A e \in DOMAIN event : About(e)' = About(e)
    BY <2>2, <2>4, <2>5 DEF About
  <2>7. QED BY <1>0, <1>4, <2>2, <2>4, <2>6 DEF EventInv
<1>8. QED BY <1>5, <1>6, <1>7 DEF AnomalyStatus

\* A new event: nobody follows it up yet, and no anomaly is about it.
LEMMA EventKept ==
    ASSUME DeskInv, NEW w, NEW kind \in Kinds \cup {"CUSTOMS"}, NEW move \in Moves, w.id \in Live,
           event' = Append(event, Event(w, kind, move)), UNCHANGED <<anomaly, orphaned>>,
           DOMAIN batch' = DOMAIN batch, Live' = Live
    PROVE  /\ event' \in Seq(EventRows)
           /\ DOMAIN event' = DOMAIN event \cup {Len(event) + 1}
           /\ Len(event) + 1 = Len(event') /\ Len(event) + 1 \notin DOMAIN event
           /\ Len(event) + 1 \notin orphaned
           /\ event'[Len(event) + 1].kind = kind /\ event'[Len(event) + 1].batch = w.id
           /\ \A e \in DOMAIN event : event'[e] = event[e] /\ OutOfTolerance(e)' = OutOfTolerance(e)
           /\ \A e \in DOMAIN event' : About(e)' = About(e)
           /\ About(Len(event) + 1) = {}
<1> DEFINE row == Event(w, kind, move)
<1>0. TablesOK /\ EventInv
  BY DEF DeskInv
<1>1. w.id \in Nat
  BY <1>0 DEF Live, TablesOK
<1>2. row \in EventRows /\ row.kind = kind /\ row.batch = w.id
  BY <1>1, DeskAssumption DEF Event, EventRows
<1> HIDE DEF row
<1>3. /\ event' \in Seq(EventRows) /\ Len(event') = Len(event) + 1
      /\ DOMAIN event' = DOMAIN event \cup {Len(event) + 1}
      /\ Len(event) + 1 \notin DOMAIN event /\ Len(event) \in Nat
      /\ event'[Len(event) + 1] = row
      /\ \A e \in DOMAIN event : event'[e] = event[e]
  BY <1>0, <1>2, AppendKeeps DEF TablesOK, row
<1>4. Len(event) + 1 \notin orphaned
  BY <1>0, <1>3 DEF EventInv
<1>5. \A e \in DOMAIN event : OutOfTolerance(e)' = OutOfTolerance(e)
  BY <1>3 DEF OutOfTolerance
<1>6. \A e \in DOMAIN event' : About(e)' = About(e)
  BY DEF About
<1>7. About(Len(event) + 1) = {}
  BY <1>0, <1>3, DeskAssumption DEF About, EventInv
<1>8. QED BY <1>2, <1>3, <1>4, <1>5, <1>6, <1>7

\* A request that records an event.
LEMMA EventSteps ==
    ASSUME DeskInv, NEW k \in Clerks, Record(k) \/ Customs(k)
    PROVE  DeskInv'
<1>0. HandlersOK /\ TablesOK /\ CodeInv /\ FollowInv /\ EventInv
  BY DEF DeskInv
<1>1. UNCHANGED <<anomaly, irregular, orphaned>> /\ ~Follows(k)
  BY DEF Record, Customs, Follows
<1>2. CASE UNCHANGED <<batch, event>> /\ Return(k)
  <2>1. TablesOK' /\ SameBatches /\ SameEvents
    BY <1>1, <1>2, TablesStay
  <2>2. HandlersOK' /\ SameCodes /\ SameFollowers
    BY <1>0, <1>1, <1>2, ReturnStays
  <2>3. QED BY <1>0, <1>1, <2>1, <2>2, CodesStay, FollowersStay DEF DeskInv
<1>3. ASSUME NEW kind \in Kinds \cup {"CUSTOMS"}, NEW move \in Moves, work[k].id \in Live,
             event' = Append(event, Event(work[k], kind, move)),
             UNCHANGED batch \/ \E s \in BatchStatuses : SetStatus(work[k].id, s),
             IF kind = "RECEIVED"
             THEN Goto(k, "follow", [id |-> work[k].id, event |-> Len(event')])
             ELSE Return(k)
      PROVE  DeskInv'
  <2> DEFINE n == Len(event) + 1
             id == work[k].id
  <2>1. batch' \in Seq(BatchRows \cup {Nil}) /\ SameBatches
    BY <1>0, <1>3, StatusKept DEF TablesOK, SameBatches
  <2>2. DOMAIN batch' = DOMAIN batch /\ Live' = Live
    BY <2>1 DEF Live, SameBatches
  <2>3. /\ event' \in Seq(EventRows)
        /\ DOMAIN event' = DOMAIN event \cup {n}
        /\ n = Len(event') /\ n \notin DOMAIN event /\ n \notin orphaned
        /\ event'[n].kind = kind /\ event'[n].batch = id
        /\ \A e \in DOMAIN event : event'[e] = event[e] /\ OutOfTolerance(e)' = OutOfTolerance(e)
        /\ \A e \in DOMAIN event' : About(e)' = About(e)
        /\ About(n) = {}
    BY <1>1, <1>3, <2>2, EventKept
  <2>4. TablesOK'
    BY <1>0, <1>1, <2>1, <2>3 DEF TablesOK
  <2>5. /\ HandlersOK'
        /\ \A q \in Clerks \ {k} : pc'[q] = pc[q] /\ work'[q] = work[q]
        /\ kind = "RECEIVED" => /\ pc'[k] = "follow"
                                /\ work'[k].event = n /\ work'[k].id = id
        /\ kind # "RECEIVED" => pc'[k] = "idle"
    <3>1. CASE kind = "RECEIVED"
      <4> DEFINE w == [id |-> id, event |-> Len(event')]
      <4>1. Fits("follow", w) /\ w.event = n /\ w.id = id
        BY <2>3 DEF Fits, Steps
      <4>2. Goto(k, "follow", w)
        BY <1>3, <3>1
      <4> HIDE DEF w
      <4>3. QED BY <1>0, <3>1, <4>1, <4>2, GotoFits
    <3>2. CASE kind # "RECEIVED"
      BY <1>0, <1>3, <3>2, ReturnFits
    <3>3. QED BY <3>1, <3>2
  <2> HIDE DEF n, id
  <2>6. /\ \A q \in Clerks \ {k} : Follows(q)' <=> Follows(q)
        /\ Follows(k)' => kind = "RECEIVED" /\ pc'[k] = "follow" /\ work'[k].event = n
    BY <2>5 DEF Follows
  <2>7. SameCodes
    BY <2>5 DEF SameCodes
  <2>8. CodeInv'
    BY <1>0, <1>1, <2>1, <2>7, CodesStay
  <2>9. \A q \in Clerks : Follows(q) => work[q].event \in DOMAIN event \ orphaned
    BY <1>0 DEF FollowInv
  <2>10. FollowInv'
    <3>1. \A q \in Clerks : Follows(q)' => work'[q].event \in DOMAIN event' \ orphaned'
      BY <1>1, <2>3, <2>5, <2>6, <2>9
    <3>2. ASSUME NEW q \in Clerks, NEW e \in DOMAIN event', Follows(q)', work'[q].event = e
          PROVE  /\ work'[q].id = event'[e].batch /\ event'[e].kind = "RECEIVED"
                 /\ About(e)' = {}
                 /\ pc'[q] = "raise" => OutOfTolerance(e)'
      <4>1. CASE q = k
        BY <2>3, <2>5, <2>6, <3>2, <4>1
      <4>2. CASE q # k
        <5>1. Follows(q) /\ pc'[q] = pc[q] /\ work'[q] = work[q]
          BY <2>5, <2>6, <3>2, <4>2
        <5>2. e \in DOMAIN event
          BY <2>9, <3>2, <5>1
        <5>3. /\ work[q].id = event[e].batch /\ event[e].kind = "RECEIVED" /\ About(e) = {}
              /\ pc[q] = "raise" => OutOfTolerance(e)
          BY <1>0, <3>2, <5>1, <5>2 DEF FollowInv
        <5>4. QED BY <2>3, <3>2, <5>1, <5>2, <5>3
      <4>3. QED BY <4>1, <4>2
    <3>3. ASSUME NEW q \in Clerks, NEW r \in Clerks, Follows(q)', Follows(r)', q # r
          PROVE  work'[q].event # work'[r].event
      <4>1. CASE q # k /\ r # k
        BY <1>0, <2>5, <2>6, <3>3, <4>1 DEF FollowInv
      <4>2. CASE q = k
        <5>1. Follows(r) /\ work'[r] = work[r]
          BY <2>5, <2>6, <3>3, <4>2
        <5>2. work[r].event \in DOMAIN event
          BY <2>9, <5>1
        <5>3. work'[q].event = n
          BY <2>6, <3>3, <4>2
        <5>4. QED BY <2>3, <5>1, <5>2, <5>3
      <4>3. CASE r = k
        <5>1. Follows(q) /\ work'[q] = work[q]
          BY <2>5, <2>6, <3>3, <4>3
        <5>2. work[q].event \in DOMAIN event
          BY <2>9, <5>1
        <5>3. work'[r].event = n
          BY <2>6, <3>3, <4>3
        <5>4. QED BY <2>3, <5>1, <5>2, <5>3
      <4>4. QED BY <4>1, <4>2, <4>3
    <3>4. QED BY <3>1, <3>2, <3>3 DEF FollowInv
  <2>11. EventInv'
    <3>1. \A e \in DOMAIN event' : event'[e].batch \in DOMAIN batch'
      BY <1>0, <1>3, <2>2, <2>3 DEF EventInv, Live, id
    <3>2. \A a \in DOMAIN anomaly' : anomaly'[a].event # Nil => anomaly'[a].event \in DOMAIN event'
      BY <1>0, <1>1, <2>3 DEF EventInv
    <3>3. orphaned' \subseteq DOMAIN event' /\ \A e \in orphaned' : About(e)' = {}
      BY <1>0, <1>1, <2>3 DEF EventInv
    <3>4. ASSUME NEW e \in DOMAIN event' \ orphaned',
                 \A q \in Clerks : Follows(q)' => work'[q].event # e
          PROVE  IF OutOfTolerance(e)' THEN event'[e].batch \in Live' => \E a : About(e)' = {a}
                 ELSE About(e)' = {}
      <4>1. CASE e = n
        <5>1. kind # "RECEIVED"
          BY <2>5, <3>4, <4>1 DEF Follows
        <5>2. ~OutOfTolerance(e)'
          BY <2>3, <4>1, <5>1 DEF OutOfTolerance
        <5>3. QED BY <2>3, <3>4, <4>1, <5>2
      <4>2. CASE e # n
        <5>1. e \in DOMAIN event \ orphaned
          BY <1>1, <2>3, <3>4, <4>2
        <5>2. \A q \in Clerks : Follows(q) => work[q].event # e
          BY <1>1, <2>5, <2>6, <3>4
        <5>3. IF OutOfTolerance(e) THEN event[e].batch \in Live => \E a : About(e) = {a}
              ELSE About(e) = {}
          BY <1>0, <5>1, <5>2 DEF EventInv
        <5>4. QED BY <2>2, <2>3, <3>4, <5>1, <5>3
      <4>3. QED BY <4>1, <4>2
    <3>5. QED BY <3>1, <3>2, <3>3, <3>4 DEF EventInv
  <2>12. QED BY <2>4, <2>5, <2>8, <2>10, <2>11 DEF DeskInv
<1>4. CASE Record(k)
  <2> DEFINE kind == work[k].about.kind
  <2>1. kind \in Kinds /\ work[k].about.move \in Moves
    BY <1>0, <1>4 DEF Record, HandlersOK, Fits
  <2>2. kind \in DOMAIN EVENT_TO_STATUS => EVENT_TO_STATUS[kind] \in BatchStatuses
    BY StageNames DEF EVENT_TO_STATUS
  <2>3. QED BY <1>2, <1>3, <1>4, <2>1, <2>2 DEF Record
<1>5. CASE Customs(k)
  <2>1. work[k].about \in Moves
    BY <1>0, <1>5 DEF Customs, HandlersOK, Fits
  <2>2. QED BY <1>2, <1>3, <1>5, <2>1, StageNames DEF Customs
<1>6. QED BY <1>4, <1>5

\* A follow-up that ends: its event has the anomaly it should have, or is orphaned.
LEMMA FollowUpEnds ==
    ASSUME DeskInv, NEW k \in Clerks, Follows(k), Return(k), NEW e, e = work[k].event,
           UNCHANGED <<batch, event, irregular>>, anomaly' \in Seq(AnomalyRows),
           \A f \in DOMAIN event : f # e => About(f)' = About(f),
           \A a \in DOMAIN anomaly' : anomaly'[a].event # Nil => anomaly'[a].event \in DOMAIN event,
           \/ orphaned' = orphaned \cup {e} /\ About(e)' = {}
           \/ /\ orphaned' = orphaned
              /\ IF OutOfTolerance(e) THEN event[e].batch \in Live => \E a : About(e)' = {a}
                 ELSE About(e)' = {}
    PROVE  DeskInv'
<1>0. HandlersOK /\ TablesOK /\ CodeInv /\ FollowInv /\ EventInv
  BY DEF DeskInv
<1>1. /\ HandlersOK'
      /\ \A q \in Clerks : /\ pc'[q] = IF q = k THEN "idle" ELSE pc[q]
                           /\ work'[q] = IF q = k THEN Nil ELSE work[q]
  BY <1>0, ReturnFits
<1>2. e \in DOMAIN event \ orphaned
  BY <1>0 DEF FollowInv
<1>3. /\ Live' = Live /\ \A f : OutOfTolerance(f)' <=> OutOfTolerance(f)
  BY DEF Live, OutOfTolerance
<1>4. TablesOK'
  <2>1. e \in Nat
    BY <1>0, <1>2 DEF TablesOK
  <2>2. orphaned' \subseteq Nat
    BY <1>0, <2>1 DEF TablesOK
  <2>3. QED BY <1>0, <2>2 DEF TablesOK
<1>5. SameBatches /\ SameCodes
  BY <1>1 DEF SameBatches, SameCodes
<1>6. CodeInv'
  BY <1>0, <1>5, CodesStay
<1>7. \A q \in Clerks : Follows(q)' => /\ q # k /\ Follows(q) /\ pc'[q] = pc[q] /\ work'[q] = work[q]
                                      /\ work[q].event # e
  <2>1. \A q \in Clerks : Follows(q)' => q # k /\ Follows(q) /\ pc'[q] = pc[q] /\ work'[q] = work[q]
    BY <1>1 DEF Follows
  <2>2. QED BY <1>0, <2>1 DEF FollowInv
<1>8. FollowInv'
  <2>1. \A q \in Clerks : Follows(q)' => work'[q].event \in DOMAIN event' \ orphaned'
    BY <1>0, <1>7 DEF FollowInv
  <2>2. ASSUME NEW q \in Clerks, NEW f \in DOMAIN event', Follows(q)', work'[q].event = f
        PROVE  /\ work'[q].id = event'[f].batch /\ event'[f].kind = "RECEIVED"
               /\ About(f)' = {}
               /\ pc'[q] = "raise" => OutOfTolerance(f)'
    <3>1. Follows(q) /\ pc'[q] = pc[q] /\ work'[q] = work[q] /\ f # e /\ f \in DOMAIN event
      BY <1>7, <2>2
    <3>2. /\ work[q].id = event[f].batch /\ event[f].kind = "RECEIVED" /\ About(f) = {}
          /\ pc[q] = "raise" => OutOfTolerance(f)
      BY <1>0, <2>2, <3>1 DEF FollowInv
    <3>3. QED BY <1>3, <3>1, <3>2
  <2>3. \A q, r \in Clerks : Follows(q)' /\ Follows(r)' /\ q # r => work'[q].event # work'[r].event
    BY <1>0, <1>7 DEF FollowInv
  <2>4. QED BY <2>1, <2>2, <2>3 DEF FollowInv
<1>9. EventInv'
  <2>1. orphaned' \subseteq DOMAIN event' /\ \A f \in orphaned' : About(f)' = {}
    BY <1>0, <1>2 DEF EventInv
  <2>2. ASSUME NEW f \in DOMAIN event' \ orphaned',
               \A q \in Clerks : Follows(q)' => work'[q].event # f
        PROVE  IF OutOfTolerance(f)' THEN event'[f].batch \in Live' => \E a : About(f)' = {a}
               ELSE About(f)' = {}
    <3>1. CASE f = e
      BY <1>3, <2>2, <3>1
    <3>2. CASE f # e
      <4>1. f \in DOMAIN event \ orphaned
        BY <2>2
      <4>2. \A q \in Clerks : Follows(q) => work[q].event # f
        <5> SUFFICES ASSUME NEW q \in Clerks, Follows(q) PROVE work[q].event # f
          OBVIOUS
        <5>1. CASE q = k
          BY <3>2, <5>1
        <5>2. CASE q # k
          <6>1. Follows(q)' /\ work'[q] = work[q]
            BY <1>1, <5>2 DEF Follows
          <6>2. QED BY <2>2, <6>1
        <5>3. QED BY <5>1, <5>2
      <4>3. IF OutOfTolerance(f) THEN event[f].batch \in Live => \E a : About(f) = {a}
            ELSE About(f) = {}
        BY <1>0, <4>1, <4>2 DEF EventInv
      <4>4. QED BY <1>3, <3>2, <4>1, <4>3
    <3>3. QED BY <3>1, <3>2
  <2>3. QED BY <1>0, <2>1, <2>2 DEF EventInv
<1>10. QED BY <1>1, <1>4, <1>6, <1>8, <1>9 DEF DeskInv

\* A request that follows up.
LEMMA FollowSteps ==
    ASSUME DeskInv, NEW k \in Clerks, FollowUp(k) \/ Raise(k) \/ (Follows(k) /\ Die(k))
    PROVE  DeskInv'
<1>0. HandlersOK /\ TablesOK /\ CodeInv /\ FollowInv /\ EventInv
  BY DEF DeskInv
<1>1. Follows(k) /\ UNCHANGED <<batch, event, irregular>>
  BY DEF FollowUp, Raise, Follows, Die, rows
<1> DEFINE n == work[k].event
<1>2. PICK e : e = n
  OBVIOUS
<1>3. /\ e \in DOMAIN event /\ work[k].id = event[e].batch /\ event[e].kind = "RECEIVED"
      /\ About(e) = {} /\ (pc[k] = "raise" => OutOfTolerance(e))
  BY <1>0, <1>1, <1>2 DEF FollowInv
<1>4. (reconcileMovement(event[e].declared, event[e].measured) = "ANOMALY") <=> OutOfTolerance(e)
  BY <1>0, <1>3, ToleranceIsMeant
<1>5. ASSUME UNCHANGED anomaly
      PROVE  \A f : About(f)' = About(f)
  BY <1>5 DEF About
<1>6. CASE Follows(k) /\ Die(k)
  <2>1. UNCHANGED anomaly /\ orphaned' = orphaned \cup {e} /\ Return(k)
    BY <1>2, <1>6 DEF Die, Follows
  <2>2. anomaly' \in Seq(AnomalyRows)
    BY <1>0, <2>1 DEF TablesOK
  <2>3. \A a \in DOMAIN anomaly' : anomaly'[a].event # Nil => anomaly'[a].event \in DOMAIN event
    BY <1>0, <2>1 DEF EventInv
  <2>4. \A f : About(f)' = About(f)
    BY <1>5, <2>1
  <2>5. QED BY <1>1, <1>2, <1>3, <2>1, <2>2, <2>3, <2>4, FollowUpEnds
<1>7. CASE FollowUp(k)
  <2>1. UNCHANGED <<anomaly, orphaned>> /\ pc[k] = "follow"
    BY <1>7 DEF FollowUp, rows
  <2>2. \A f : About(f)' = About(f)
    BY <1>5, <2>1
  <2>3. CASE ~OutOfTolerance(e)
    <3>1. Return(k)
      BY <1>2, <1>4, <1>7, <2>3 DEF FollowUp
    <3>2. anomaly' \in Seq(AnomalyRows)
      BY <1>0, <2>1 DEF TablesOK
    <3>3. \A a \in DOMAIN anomaly' : anomaly'[a].event # Nil => anomaly'[a].event \in DOMAIN event
      BY <1>0, <2>1 DEF EventInv
    <3>4. QED BY <1>1, <1>2, <1>3, <2>1, <2>2, <2>3, <3>1, <3>2, <3>3, FollowUpEnds
  <2>4. CASE OutOfTolerance(e)
    <3>1. Goto(k, "raise", work[k])
      BY <1>2, <1>3, <1>4, <1>7, <2>4 DEF FollowUp
    <3>2. Fits("raise", work[k])
      BY DEF Fits, Steps
    <3>3. /\ HandlersOK'
          /\ \A q \in Clerks : /\ pc'[q] = IF q = k THEN "raise" ELSE pc[q]
                               /\ work'[q] = IF q = k THEN work[k] ELSE work[q]
      BY <1>0, <3>1, <3>2, GotoFits
    <3>4. TablesOK' /\ SameBatches /\ SameEvents
      BY <1>1, <2>1, TablesStay
    <3>5. SameCodes
      BY <3>3 DEF SameCodes
    <3>6. CodeInv'
      BY <1>0, <1>1, <3>4, <3>5, CodesStay
    <3>7. \A q \in Clerks : (Follows(q)' <=> Follows(q)) /\ work'[q] = work[q]
      BY <1>1, <3>3 DEF Follows
    <3>8. Live' = Live /\ \A f : OutOfTolerance(f)' <=> OutOfTolerance(f)
      BY <1>1 DEF Live, OutOfTolerance
    <3>9. EventInv'
      BY <1>0, <1>1, <2>1, <2>2, <3>7, <3>8 DEF EventInv
    <3>10. FollowInv'
      <4>1. \A q \in Clerks : Follows(q)' => work'[q].event \in DOMAIN event' \ orphaned'
        BY <1>0, <1>1, <2>1, <3>7 DEF FollowInv
      <4>2. ASSUME NEW q \in Clerks, NEW f \in DOMAIN event', Follows(q)', work'[q].event = f
            PROVE  /\ work'[q].id = event'[f].batch /\ event'[f].kind = "RECEIVED"
                   /\ About(f)' = {}
                   /\ pc'[q] = "raise" => OutOfTolerance(f)'
        <5>1. Follows(q) /\ work[q].event = f /\ work'[q].id = work[q].id
          BY <3>7, <4>2
        <5>2. /\ work[q].id = event[f].batch /\ event[f].kind = "RECEIVED" /\ About(f) = {}
              /\ pc[q] = "raise" => OutOfTolerance(f)
          BY <1>0, <1>1, <4>2, <5>1 DEF FollowInv
        <5>3. pc'[q] = "raise" => OutOfTolerance(f)
          BY <1>2, <2>4, <3>3, <5>1, <5>2
        <5>4. QED BY <1>1, <2>2, <3>8, <5>1, <5>2, <5>3
      <4>3. \A q, r \in Clerks : Follows(q)' /\ Follows(r)' /\ q # r =>
                                work'[q].event # work'[r].event
        BY <1>0, <3>7 DEF FollowInv
      <4>4. QED BY <4>1, <4>2, <4>3 DEF FollowInv
    <3>11. QED BY <3>3, <3>4, <3>6, <3>9, <3>10 DEF DeskInv
  <2>5. QED BY <2>3, <2>4
<1>8. CASE Raise(k)
  <2>1. Return(k) /\ orphaned' = orphaned /\ OutOfTolerance(e)
    BY <1>3, <1>8 DEF Raise
  <2>2. CASE work[k].id \notin Live
    <3>1. UNCHANGED anomaly
      BY <1>8, <2>2 DEF Raise
    <3>2. \A f : About(f)' = About(f)
      BY <1>5, <3>1
    <3>3. anomaly' \in Seq(AnomalyRows)
      BY <1>0, <3>1 DEF TablesOK
    <3>4. \A a \in DOMAIN anomaly' : anomaly'[a].event # Nil => anomaly'[a].event \in DOMAIN event
      BY <1>0, <3>1 DEF EventInv
    <3>5. QED BY <1>1, <1>2, <1>3, <2>1, <2>2, <3>2, <3>3, <3>4, FollowUpEnds
  <2>3. CASE work[k].id \in Live
    <3> DEFINE x == [batch |-> work[k].id, event |-> e, status |-> "OPEN",
                     severity |-> Severity(event[e].declared, event[e].measured)]
               a == Len(anomaly) + 1
    <3>1. anomaly' = Append(anomaly, x)
      BY <1>2, <1>8, <2>3 DEF Raise
    <3>2. x \in AnomalyRows /\ x.event = e
      <4>1. work[k].id \in Nat /\ e \in Nat
        BY <1>0, <1>3, <2>3 DEF Live, TablesOK
      <4>2. Severity(event[e].declared, event[e].measured) \in {"HIGH", "MEDIUM"}
        BY DEF Severity
      <4>3. QED BY <4>1, <4>2 DEF AnomalyRows
    <3> HIDE DEF x
    <3>3. /\ anomaly' \in Seq(AnomalyRows)
          /\ DOMAIN anomaly' = DOMAIN anomaly \cup {a}
          /\ a \notin DOMAIN anomaly
          /\ anomaly'[a] = x
          /\ \A b \in DOMAIN anomaly : anomaly'[b] = anomaly[b]
      BY <1>0, <3>1, <3>2, AnomalyKept
    <3>4. \A f \in DOMAIN event : f # e => About(f)' = About(f)
      BY <3>2, <3>3 DEF About
    <3>5. About(e)' = {a}
      BY <1>3, <3>2, <3>3 DEF About
    <3>6. \A b \in DOMAIN anomaly' : anomaly'[b].event # Nil => anomaly'[b].event \in DOMAIN event
      BY <1>0, <1>3, <3>2, <3>3 DEF EventInv
    <3>7. \E b : About(e)' = {b}
      BY <3>5
    <3>8. QED BY <1>1, <1>2, <2>1, <3>3, <3>4, <3>6, <3>7, FollowUpEnds
  <2>4. QED BY <2>2, <2>3
<1>9. QED BY <1>6, <1>7, <1>8

\* An empty office.
LEMMA DeskInitially == DeskInit => DeskInv
<1> SUFFICES ASSUME DeskInit PROVE DeskInv
  OBVIOUS
<1>1. HandlersOK
  BY DEF DeskInit, HandlersOK, Fits, Steps
<1>2. TablesOK
  BY DEF DeskInit, TablesOK
<1>3. CodeInv /\ FollowInv
  BY DEF DeskInit, CodeInv, FollowInv, Follows
<1>4. EventInv
  BY DEF DeskInit, EventInv
<1>5. QED BY <1>1, <1>2, <1>3, <1>4 DEF DeskInv

\* Every step of the office keeps its invariant.
LEMMA DeskStep == ASSUME DeskInv, [DeskNext]_dvars PROVE DeskInv'
<1>1. ASSUME NEW k \in Clerks, Begin(k) PROVE DeskInv'
  BY <1>1, ReadSteps, AnomalySteps DEF Begin
<1>2. ASSUME NEW k \in Clerks, Continue(k) \/ Die(k) PROVE DeskInv'
  BY <1>2, ReadSteps, BatchSteps, AnomalySteps, EventSteps, FollowSteps DEF Continue
<1>3. CASE UNCHANGED dvars
  <2>1. UNCHANGED <<batch, event, anomaly, case, irregular, orphaned, pc, work>>
    BY <1>3 DEF dvars, rows
  <2>2. HandlersOK' /\ SameCodes /\ SameFollowers
    BY <2>1 DEF DeskInv, HandlersOK, SameCodes, SameFollowers
  <2>3. TablesOK' /\ SameBatches /\ SameEvents
    BY <2>1, TablesStay
  <2>4. QED BY <2>1, <2>2, <2>3, CodesStay, FollowersStay DEF DeskInv
<1>4. QED BY <1>1, <1>2, <1>3 DEF DeskNext

\* So it holds forever.
LEMMA DeskInvariant == DeskSpec => []DeskInv
BY DeskInitially, DeskStep, PTL DEF DeskSpec

-------------------------------------------------------------------------------
(* The theorems. *)

\* As long as codes are counted and no batch is removed, the code generateBatchCode
\* makes is free, however many clerks register at once (common/batch-code.ts).
THEOREM CodeIsFresh == DeskSpec => []FreshCode
<1>1. DeskInv => FreshCode
  <2> SUFFICES ASSUME DeskInv, ~irregular PROVE NextCode \notin Codes
    BY DEF FreshCode
  <2>1. /\ \A i \in DOMAIN batch : batch[i] # Nil /\ batch[i].code <= Len(batch)
        /\ batch \in Seq(BatchRows \cup {Nil})
    BY DEF DeskInv, CodeInv, TablesOK
  <2>2. Live = 1..Len(batch) /\ Len(batch) \in Nat
    BY <2>1 DEF Live
  <2>3. NextCode = Len(batch) + 1
    BY <2>2, FS_Interval DEF NextCode
  <2>4. \A i \in Live : batch[i].code \in Nat /\ batch[i].code <= Len(batch)
    BY <2>1, <2>2 DEF BatchRows
  <2>5. QED BY <2>2, <2>3, <2>4 DEF Codes
<1>2. QED BY <1>1, DeskInvariant, PTL

\* Every reception out of tolerance has exactly one anomaly as soon as its request is
\* over, unless the request died, and no other event has one (custody.service.ts).
THEOREM AnomalyAlwaysFollows == DeskSpec => []AnomalyFollows
<1>1. DeskInv => AnomalyFollows
  <2> SUFFICES ASSUME DeskInv, NEW e \in DOMAIN event, event[e].batch \in Live
               PROVE  LET busy == \E k \in Clerks : /\ pc[k] \in {"follow", "raise"}
                                                  /\ work[k].event = e
                      IN Cardinality(About(e)) =
                           IF OutOfTolerance(e) /\ ~busy /\ e \notin orphaned THEN 1 ELSE 0
    BY DEF AnomalyFollows
  <2> DEFINE busy == \E k \in Clerks : pc[k] \in {"follow", "raise"} /\ work[k].event = e
  <2>1. FollowInv /\ EventInv
    BY DEF DeskInv
  <2>2. CASE busy \/ e \in orphaned
    <3>1. About(e) = {}
      BY <2>1, <2>2 DEF FollowInv, EventInv, Follows
    <3>2. QED BY <2>2, <3>1, FS_EmptySet
  <2>3. CASE ~busy /\ e \notin orphaned
    <3>1. IF OutOfTolerance(e) THEN \E a : About(e) = {a} ELSE About(e) = {}
      BY <2>1, <2>3 DEF EventInv, Follows
    <3>2. QED BY <2>3, <3>1, FS_EmptySet, FS_Singleton
  <2>4. QED BY <2>2, <2>3
<1>2. QED BY <1>1, DeskInvariant, PTL

\* A status goes back only through customs, from a hold, or where a request wrote over a
\* status it had not read, whoever else is at work (common/batch-status.ts).
THEOREM NeverBackForNothing == DeskSpec => BackOnlyForAReason
<1>1. DeskInv /\ [DeskNext]_dvars => [StatusExplained]_dvars
  <2> SUFFICES ASSUME DeskInv, NEW k \in Clerks, Begin(k) \/ Continue(k) \/ Die(k),
                      NEW i \in Live, i \in DOMAIN batch', batch'[i] # Nil
               PROVE  \/ CanTransition(batch[i].status, batch'[i].status)
                      \/ \E q \in Clerks : /\ pc[q] # "idle" /\ pc'[q] # pc[q]
                                          /\ \/ pc[q] = "customs"
                                             \/ work[q].status # batch[i].status
    BY DEF DeskNext, StatusExplained
  <2>1. TablesOK /\ HandlersOK /\ i \in DOMAIN batch
    BY DEF DeskInv, Live
  <2>2. CASE batch'[i] = batch[i]
    BY <2>2 DEF CanTransition
  <2>3. ASSUME NEW j \in Live, NEW s \in BatchStatuses, SetStatus(j, s), batch'[i] # batch[i]
        PROVE  i = j /\ batch'[i].status = s
    BY <2>1, <2>3, StatusKept
  <2>4. ASSUME Edit(k) \/ Record(k) \/ Customs(k) PROVE pc[k] # "idle" /\ pc'[k] # pc[k]
    BY <2>1, <2>4 DEF Edit, Record, Customs, Goto, Return, HandlersOK
  <2>5. CASE Edit(k)
    <3>1. work[k].about.to \in BatchStatuses
      BY <2>1, <2>5 DEF Edit, HandlersOK, Fits
    <3>2. QED BY <2>2, <2>3, <2>4, <2>5, <3>1 DEF Edit
  <2>6. CASE Record(k)
    <3> DEFINE kind == work[k].about.kind
    <3>1. kind \in DOMAIN EVENT_TO_STATUS => EVENT_TO_STATUS[kind] \in BatchStatuses
      BY StageNames DEF EVENT_TO_STATUS
    <3>2. QED BY <2>2, <2>3, <2>4, <2>6, <3>1 DEF Record, MayRecord
  <2>7. CASE Customs(k)
    BY <2>4, <2>7 DEF Customs
  <2>8. CASE Hold(k)
    BY <2>2, <2>3, <2>8, StageNames DEF Hold, CanTransition
  <2>9. CASE CreateInsert(k)
    <3>1. UNCHANGED batch \/ \E x : batch' = Append(batch, x)
      BY <2>9 DEF CreateInsert
    <3>2. \A x : Append(batch, x)[i] = batch[i]
      BY <2>1 DEF TablesOK
    <3>3. QED BY <2>2, <3>1, <3>2
  <2>10. CASE Remove(k)
    <3>1. batch'[i] = batch[i]
      BY <2>1, <2>10 DEF Remove, TablesOK
    <3>2. QED BY <2>2, <3>1
  <2>11. CASE UNCHANGED batch
    BY <2>2, <2>11
  <2>12. QED
    BY <2>5, <2>6, <2>7, <2>8, <2>9, <2>10, <2>11
    DEF Begin, Continue, Die, CreateStart, CreateLook, Read, AddAnomaly, CaseStatus, AnomalyStatus,
        FollowUp, Raise, OpenCase, Mark, rows
<1>2. QED BY <1>1, DeskInvariant, PTL DEF DeskSpec, BackOnlyForAReason
===============================================================================
