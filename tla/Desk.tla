--------------------------------- MODULE Desk ---------------------------------
(***************************************************************************)
(* The office: batches are registered, edited, taken through custody and   *)
(* customs, audited and removed (batches, custody, customs, audits and     *)
(* anomalies services).  Only the custody QR and the sticker write the     *)
(* batch elsewhere; here everybody works at a desk.                        *)
(*                                                                         *)
(* A request of clerk k is pc[k], its next database call, and work[k],     *)
(* what it has read.  A batch is known by its row (an id), which a removal *)
(* leaves empty for ever; codes may come back.                             *)
(***************************************************************************)
EXTENDS Integers, Sequences, FiniteSets, BatchStatus, Reconcile

CONSTANTS Clerks,
          MaxRequests, \* bound: requests ever begun
          GivenCodes,  \* codes somebody types instead of taking the next
          Edits,       \* statuses somebody sets by hand
          Kinds,       \* kinds of custody events
          Moves,       \* the two quantities of an event
          Nil

BatchRows == [code : Nat \ {0}, status : BatchStatuses]

ASSUME DeskAssumption ==
    /\ MaxRequests \in Nat
    /\ GivenCodes \subseteq Nat \ {0} /\ Edits \subseteq BatchStatuses
    /\ Moves \subseteq [declared : Int, measured : Int]
    /\ Nil \notin Nat \cup BatchRows

VARIABLES batch,      \* rows: [code, status], Nil once removed
          event,      \* the custody events that carry quantities
          anomaly,    \* rows: the event each is about, if any, and its status
          case,       \* audit cases
          irregular,  \* history: a code was typed, or a batch removed
          orphaned,   \* history: events whose request died before its follow-up
          begun,      \* requests begun so far
          pc, work

rows == <<batch, event, anomaly, case, irregular, orphaned>>
dvars == <<rows, begun, pc, work>>

DeskInit ==
    /\ batch = << >> /\ event = << >> /\ anomaly = << >> /\ case = << >>
    /\ irregular = FALSE /\ orphaned = {} /\ begun = 0
    /\ pc = [k \in Clerks |-> "idle"] /\ work = [k \in Clerks |-> Nil]

Live == {i \in DOMAIN batch : batch[i] # Nil}
Codes == {batch[i].code : i \in Live}

Goto(k, step, w) == /\ pc' = [pc EXCEPT ![k] = step]
                    /\ work' = [work EXCEPT ![k] = w]
Return(k) == Goto(k, "idle", Nil)

-------------------------------------------------------------------------------
(* Registering a batch. *)

\* Slip: only the batches still in DRAFT are counted.
NextCodeOfDrafts == Cardinality({i \in Live : batch[i].status = "DRAFT"}) + 1

\* The number after the count of the year's batches.
NextCode == Cardinality(Live) + 1

\* The code is typed, or counted.
CreateStart(k, given) ==
    /\ pc[k] = "idle"
    /\ Goto(k, "look", [code |-> IF given # Nil THEN given ELSE NextCode,
                        typed |-> given # Nil])
    /\ UNCHANGED rows

\* A code in use is refused.
CreateLook(k) ==
    /\ pc[k] = "look"
    /\ IF work[k].code \in Codes THEN Return(k) ELSE Goto(k, "insert", work[k])
    /\ UNCHANGED rows

\* The row is inserted, with the status that was asked for or in DRAFT, unless the
\* unique code was taken meanwhile.
CreateInsert(k) ==
    /\ pc[k] = "insert"
    /\ IF work[k].code \in Codes THEN UNCHANGED <<batch, irregular>>
       ELSE /\ \E s \in Edits \cup {"DRAFT"} :
                 batch' = Append(batch, [code |-> work[k].code, status |-> s])
            /\ irregular' = (irregular \/ work[k].typed)
    /\ Return(k)
    /\ UNCHANGED <<event, anomaly, case, orphaned>>

-------------------------------------------------------------------------------
(* Writers of the status.  Each reads the row first and decides on that. *)

\* findBatchOrThrow
Read(k, i, step, about) ==
    /\ pc[k] = "idle" /\ i \in Live
    /\ Goto(k, step, [id |-> i, status |-> batch[i].status, about |-> about])
    /\ UNCHANGED rows

SetStatus(i, s) == batch' = [batch EXCEPT ![i].status = s]

\* Slip: an edit is not asked whether it may.
EditUnchecked(k) ==
    /\ pc[k] = "edit"
    /\ LET w == work[k] IN
         IF w.id \in Live THEN SetStatus(w.id, w.about.to) ELSE UNCHANGED batch
    /\ Return(k)
    /\ UNCHANGED <<event, anomaly, case, irregular, orphaned>>

\* update: the transition must be legal from the status that was read.
Edit(k) ==
    /\ pc[k] = "edit"
    /\ LET w == work[k] IN
         IF w.id \in Live /\ CanTransition(w.status, w.about.to)
         THEN SetStatus(w.id, w.about.to)
         ELSE UNCHANGED batch
    /\ Return(k)
    /\ UNCHANGED <<event, anomaly, case, irregular, orphaned>>

EVENT_TO_STATUS ==
    [IN_TRANSIT |-> "IN_TRANSIT", ENTERED_COUNTRY |-> "AT_BORDER", CUSTOMS |-> "CUSTOMS",
     RECEIVED |-> "RECEIVED", SAMPLED |-> "SAMPLING", LAB_ANALYSIS |-> "LAB_ANALYSIS",
     CERTIFIED |-> "CERTIFIED", STORED |-> "STORED", DISPATCHED |-> "DISTRIBUTING",
     DELIVERED |-> "DELIVERED"]

MayRecord(status, kind) ==
    /\ kind = "RECEIVED" => CanReceiveBatch(status)
    /\ kind \in DOMAIN EVENT_TO_STATUS => CanTransition(status, EVENT_TO_STATUS[kind])

Event(w, kind, move) == [batch |-> w.id, kind |-> kind,
                         declared |-> move.declared, measured |-> move.measured]

\* A custody event and the status it stands for; a reception has a follow-up.
Record(k) ==
    LET w == work[k]
        kind == w.about.kind
    IN
    /\ pc[k] = "record"
    /\ IF w.id \in Live /\ MayRecord(w.status, kind)
       THEN /\ event' = Append(event, Event(w, kind, w.about.move))
            /\ IF kind \in DOMAIN EVENT_TO_STATUS
               THEN SetStatus(w.id, EVENT_TO_STATUS[kind]) ELSE UNCHANGED batch
            /\ IF kind = "RECEIVED" THEN Goto(k, "follow", [id |-> w.id, event |-> Len(event')])
               ELSE Return(k)
       ELSE UNCHANGED <<batch, event>> /\ Return(k)
    /\ UNCHANGED <<anomaly, case, irregular, orphaned>>

About(e) == {a \in DOMAIN anomaly : anomaly[a].event = e}

\* Slip: one anomaly per batch is enough.
FollowUpOfBatch(k) ==
    LET e == work[k].event IN
    /\ pc[k] = "follow"
    /\ IF /\ reconcileMovement(event[e].declared, event[e].measured) = "ANOMALY"
          /\ \A a \in DOMAIN anomaly : anomaly[a].batch # work[k].id
       THEN Goto(k, "raise", work[k]) ELSE Return(k)
    /\ UNCHANGED rows

\* A difference beyond the tolerance that has no anomaly yet gets one.
FollowUp(k) ==
    LET e == work[k].event IN
    /\ pc[k] = "follow"
    /\ IF reconcileMovement(event[e].declared, event[e].measured) = "ANOMALY" /\ About(e) = {}
       THEN Goto(k, "raise", work[k]) ELSE Return(k)
    /\ UNCHANGED rows

\* (The row of a removed batch cannot be inserted.)
Raise(k) ==
    LET e == work[k].event IN
    /\ pc[k] = "raise"
    /\ anomaly' = IF work[k].id \notin Live THEN anomaly
                  ELSE Append(anomaly, [batch |-> work[k].id, event |-> e, status |-> "OPEN",
                         severity |-> Severity(event[e].declared, event[e].measured)])
    /\ Return(k)
    /\ UNCHANGED <<batch, event, case, irregular, orphaned>>

\* A customs event asks for nothing and puts the batch to CUSTOMS.
Customs(k) ==
    LET w == work[k] IN
    /\ pc[k] = "customs"
    /\ IF w.id \in Live
       THEN /\ event' = Append(event, Event(w, "CUSTOMS", w.about))
            /\ SetStatus(w.id, "CUSTOMS")
       ELSE UNCHANGED <<batch, event>>
    /\ Return(k)
    /\ UNCHANGED <<anomaly, case, irregular, orphaned>>

-------------------------------------------------------------------------------
(* Audits and anomalies. *)

\* A case is inserted, and the batch put on hold by a statement of its own.
OpenCase(k) ==
    LET w == work[k] IN
    /\ pc[k] = "case"
    /\ IF w.id \in Live
       THEN /\ case' = Append(case, [batch |-> w.id, anomaly |-> w.about.anomaly, status |-> "OPEN"])
            /\ Goto(k, "hold", w)
       ELSE UNCHANGED case /\ Return(k)
    /\ UNCHANGED <<batch, event, anomaly, irregular, orphaned>>

Hold(k) ==
    /\ pc[k] = "hold"
    /\ IF work[k].id \in Live THEN SetStatus(work[k].id, "AUDIT_REQUIRED") ELSE UNCHANGED batch
    /\ Return(k)
    /\ UNCHANGED <<event, anomaly, case, irregular, orphaned>>

Kept(c) == case[c].batch \in Live
Of(a) == anomaly[a].batch \in Live

\* The status of a case, and then that of the anomaly it is about.
CaseStatus(k, c, s) ==
    /\ pc[k] = "idle" /\ Kept(c)
    /\ case' = [case EXCEPT ![c].status = s]
    /\ IF case[c].anomaly # Nil /\ s # "OPEN"
       THEN Goto(k, "mark", [anomaly |-> case[c].anomaly, status |-> s]) ELSE Return(k)
    /\ UNCHANGED <<batch, event, anomaly, irregular, orphaned>>

Mark(k) ==
    LET w == work[k] IN
    /\ pc[k] = "mark"
    /\ anomaly' = IF Of(w.anomaly) THEN [anomaly EXCEPT ![w.anomaly].status = w.status] ELSE anomaly
    /\ Return(k)
    /\ UNCHANGED <<batch, event, case, irregular, orphaned>>

\* An anomaly somebody reports, and its status set by hand.
AddAnomaly(k, i) ==
    /\ pc[k] = "idle" /\ i \in Live
    /\ anomaly' = Append(anomaly, [batch |-> i, event |-> Nil, status |-> "OPEN",
                                   severity |-> "MEDIUM"])
    /\ UNCHANGED <<batch, event, case, irregular, orphaned, pc, work>>

AnomalyStatus(k, a, s) ==
    /\ pc[k] = "idle" /\ Of(a)
    /\ anomaly' = [anomaly EXCEPT ![a].status = s]
    /\ UNCHANGED <<batch, event, case, irregular, orphaned, pc, work>>

\* A removal takes everything of the batch with it (rows of a batch that is not
\* Live count as gone).
Remove(k) ==
    /\ pc[k] = "remove"
    /\ IF work[k].id \in Live
       THEN batch' = [batch EXCEPT ![work[k].id] = Nil] /\ irregular' = TRUE
       ELSE UNCHANGED <<batch, irregular>>
    /\ Return(k)
    /\ UNCHANGED <<event, anomaly, case, orphaned>>

\* The request dies between two calls; what it committed stays.
Die(k) ==
    /\ pc[k] # "idle"
    /\ orphaned' = IF pc[k] \in {"follow", "raise"} THEN orphaned \cup {work[k].event}
                   ELSE orphaned
    /\ Return(k)
    /\ UNCHANGED <<batch, event, anomaly, case, irregular>>

ReviewStatuses == {"UNDER_REVIEW", "RESOLVED", "FALSE_POSITIVE"}

Begin(k) ==
    \/ \E given \in GivenCodes \cup {Nil} : CreateStart(k, given)
    \/ \E i \in Live :
         \/ \E s \in Edits : Read(k, i, "edit", [to |-> s])
         \/ \E kind \in Kinds, move \in Moves : Read(k, i, "record", [kind |-> kind, move |-> move])
         \/ \E move \in Moves : Read(k, i, "customs", move)
         \/ \E a \in {x \in DOMAIN anomaly : Of(x)} \cup {Nil} : Read(k, i, "case", [anomaly |-> a])
         \/ Read(k, i, "remove", Nil)
         \/ AddAnomaly(k, i)
    \/ \E c \in DOMAIN case, s \in ReviewStatuses : CaseStatus(k, c, s)
    \/ \E a \in DOMAIN anomaly, s \in ReviewStatuses : AnomalyStatus(k, a, s)

Continue(k) == \/ CreateLook(k) \/ CreateInsert(k) \/ Edit(k) \/ Record(k) \/ FollowUp(k)
               \/ Raise(k) \/ Customs(k) \/ OpenCase(k) \/ Hold(k) \/ Mark(k) \/ Remove(k)

DeskNext == \E k \in Clerks : \/ begun < MaxRequests /\ begun' = begun + 1 /\ Begin(k)
                              \/ UNCHANGED begun /\ (Continue(k) \/ Die(k))

DeskSpec == DeskInit /\ [][DeskNext]_dvars

-------------------------------------------------------------------------------
(* Properties. *)

\* As long as no code was typed and no batch removed, the code generateBatchCode
\* makes is free, whoever registers at the same time: only an overlapping
\* registration can be refused.
FreshCode == ~irregular => NextCode \notin Codes

\* More than half a percent and more than 20 litres apart.
OutOfTolerance(e) ==
    LET apart == Abs(event[e].measured - event[e].declared) IN
    /\ event[e].kind = "RECEIVED" /\ NoLitres \notin {event[e].measured, event[e].declared}
    /\ apart > 20 /\ 200 * apart > event[e].declared

\* Every reception out of tolerance has exactly one anomaly as soon as its request
\* is over, unless the request died; no other event has one.
AnomalyFollows ==
    \A e \in DOMAIN event :
      event[e].batch \in Live =>
        LET busy == \E k \in Clerks : pc[k] \in {"follow", "raise"} /\ work[k].event = e IN
        Cardinality(About(e)) = IF OutOfTolerance(e) /\ ~busy /\ e \notin orphaned THEN 1 ELSE 0

\* The statuses this step sets may follow the ones they replace, or a request explains them.
StatusExplained ==
    \A i \in Live :
      i \in DOMAIN batch' /\ batch'[i] # Nil =>
        \/ CanTransition(batch[i].status, batch'[i].status)
        \/ \E k \in Clerks : /\ pc[k] # "idle" /\ pc'[k] # pc[k]
                             /\ pc[k] = "customs" \/ work[k].status # batch[i].status

\* A status goes back only through customs, from a hold, or where a request wrote
\* over a status it had not read.
BackOnlyForAReason == [][StatusExplained]_dvars
===============================================================================
