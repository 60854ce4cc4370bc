----------------------------- MODULE OfflineSync -----------------------------
(***************************************************************************)
(* Store-and-forward receptions: a phone without signal captures them in a *)
(* queue in its localStorage (apps/web, q/[token]/page.tsx and             *)
(* verify/page.tsx), uploads the whole queue when asked to, and            *)
(* custody-qr.service.ts syncOffline works through what it is sent, one    *)
(* event after the other.                                                  *)
(*                                                                         *)
(* Several uploads of the same queue may be under way: two pages share the *)
(* storage, and an upload whose answer is lost goes on in the server while *)
(* the user presses the button again.  Accepting a baton is taken from     *)
(* CustodyQr at the grain that matters here: its checks, and then its      *)
(* conditional ACTIVE -> CONSUMED.  Events of another kind than            *)
(* ACCEPT_BATON, which no page saves, would be recorded as applied without *)
(* an accept and are left out.                                             *)
(***************************************************************************)
EXTENDS Naturals, Sequences, FiniteSets, SequencesExt

CONSTANTS Events,    \* clientEventIds
          Tokens,    \* batons
          Uploads,   \* POST /custody-qr/sync requests the server runs at once
          Payloads,  \* subset of {"signed", "extended"}
          Refusals,  \* may accept refuse for role, station, readings, batch or stock?
          None

\* What a captured event names.
Captures == [token : Tokens, payload : Payloads]

ASSUME SyncAssumption ==
    /\ Refusals \in BOOLEAN /\ Payloads \subseteq {"signed", "extended"}
    /\ None \notin Tokens \cup Events \cup Captures

VARIABLES
    capture,   \* the event as captured: baton and kind of payload, None before
    queue,     \* fc-offline-queue in the phone's localStorage
    busy,      \* events captured while an upload was awaited
    row,       \* OfflineSyncEvent.status, "ABSENT" without a row
    died,      \* events some handler was working on when it died
    baton,     \* CustodyBaton.status
    elapsed,   \* has the time of the baton run out?
    step,      \* of each upload: the next call of the handler
    todo,      \* the events it has not finished
    verdict,   \* what it will write about the first of them
    awaited    \* is the page still waiting for its answer?

phoneVars == <<capture, queue, busy>>
batonVars == <<baton, elapsed>>
handlerVars == <<step, todo, verdict, awaited>>
vars == <<phoneVars, row, died, batonVars, handlerVars>>

Init ==
    /\ capture = [e \in Events |-> None]
    /\ queue = <<>> /\ busy = {} /\ died = {}
    /\ row = [e \in Events |-> "ABSENT"]
    /\ baton = [t \in Tokens |-> "ACTIVE"]
    /\ elapsed = [t \in Tokens |-> FALSE]
    /\ step = [u \in Uploads |-> "idle"]
    /\ todo = [u \in Uploads |-> <<>>]
    /\ verdict = [u \in Uploads |-> None]
    /\ awaited = [u \in Uploads |-> FALSE]

Captured == {e \in Events : capture[e] # None}
Current(u) == Head(todo[u])
TokenOf(e) == capture[e].token

-------------------------------------------------------------------------------
(* The phone. *)

\* "Guardar sin señal", or an online accept that failed.  The page adds the
\* measured litres and quality to the printed payload ("extended"); another
\* client may send the payload as printed.  The button works during an upload.
enqueueOffline(e, t, p) ==
    /\ capture[e] = None
    /\ capture' = [capture EXCEPT ![e] = [token |-> t, payload |-> p]]
    /\ queue' = Append(queue, e)
    /\ busy' = IF \E u \in Uploads : awaited[u] THEN busy \cup {e} ELSE busy
    /\ UNCHANGED <<row, died, batonVars, handlerVars>>

\* The whole queue is sent.
syncQueue(u) ==
    /\ step[u] = "idle" /\ queue # <<>>
    /\ step' = [step EXCEPT ![u] = "lookup"]
    /\ todo' = [todo EXCEPT ![u] = queue]
    /\ awaited' = [awaited EXCEPT ![u] = TRUE]
    /\ UNCHANGED <<phoneVars, row, died, batonVars, verdict>>

\* The page gives up waiting (no signal): the handler does not notice.
LoseAnswer(u) ==
    /\ awaited[u]
    /\ awaited' = [awaited EXCEPT ![u] = FALSE]
    /\ UNCHANGED <<phoneVars, row, died, batonVars, step, todo, verdict>>

\* Slip: the queue is emptied although nobody was waiting any more.
AnswerAlways(u) ==
    /\ step[u] = "lookup" /\ todo[u] = <<>>
    /\ queue' = <<>>
    /\ step' = [step EXCEPT ![u] = "idle"]
    /\ awaited' = [awaited EXCEPT ![u] = FALSE]
    /\ UNCHANGED <<capture, busy, row, died, batonVars, todo, verdict>>

\* The loop is over.  The page that gets the answer does not look into the
\* results: it empties the queue, whatever is in it by now.
Answer(u) ==
    /\ step[u] = "lookup" /\ todo[u] = <<>>
    /\ queue' = IF awaited[u] THEN <<>> ELSE queue
    /\ step' = [step EXCEPT ![u] = "idle"]
    /\ awaited' = [awaited EXCEPT ![u] = FALSE]
    /\ UNCHANGED <<capture, busy, row, died, batonVars, todo, verdict>>

-------------------------------------------------------------------------------
(* syncOffline: for each event, look it up, insert it, accept, record. *)

NextCall(u, call) ==
    /\ step' = [step EXCEPT ![u] = call]
    /\ UNCHANGED <<todo, verdict, awaited>>

NextEvent(u) ==
    /\ step' = [step EXCEPT ![u] = "lookup"]
    /\ todo' = [todo EXCEPT ![u] = Tail(@)]
    /\ verdict' = [verdict EXCEPT ![u] = None]
    /\ UNCHANGED awaited

Decide(u, status) ==
    /\ step' = [step EXCEPT ![u] = "record"]
    /\ verdict' = [verdict EXCEPT ![u] = status]
    /\ UNCHANGED <<todo, awaited>>

\* An event the server knows, in whatever status, is not worked on again.
Lookup(u) ==
    /\ step[u] = "lookup" /\ todo[u] # <<>>
    /\ IF row[Current(u)] = "ABSENT" THEN NextCall(u, "insert") ELSE NextEvent(u)
    /\ UNCHANGED <<phoneVars, row, died, batonVars>>

\* Slip: a row somebody else has just inserted is taken for one's own.
InsertOrReuse(u) ==
    /\ step[u] = "insert"
    /\ row' = [row EXCEPT ![Current(u)] = "PENDING"]
    /\ NextCall(u, "check")
    /\ UNCHANGED <<phoneVars, died, batonVars>>

\* The row is inserted as PENDING; clientEventId is unique, so of two uploads
\* that both missed it in Lookup one goes on and the other skips the event.
Insert(u) ==
    /\ step[u] = "insert"
    /\ IF row[Current(u)] = "ABSENT"
       THEN /\ row' = [row EXCEPT ![Current(u)] = "PENDING"]
            /\ NextCall(u, "check")
       ELSE NextEvent(u) /\ UNCHANGED row
    /\ UNCHANGED <<phoneVars, died, batonVars>>

\* accept, first half.  The signature covers exactly the printed payload.  A sync
\* always brings the payload along, and the time printed in it is looked at before
\* the row: an elapsed baton is refused, and marked only when its time runs out
\* between the two.  One already consumed is a conflict, which counts as applied.
\* Role, station or quality readings may be refused too.
Check(u) ==
    LET c == capture[Current(u)]
        t == c.token
    IN
    /\ step[u] = "check"
    /\ \/ (Refusals \/ c.payload = "extended") /\ Decide(u, "REJECTED") /\ UNCHANGED baton
       \/ /\ c.payload = "signed" /\ elapsed[t]
          /\ baton' \in {baton, [baton EXCEPT ![t] = IF @ = "ACTIVE" THEN "EXPIRED" ELSE @]}
          /\ Decide(u, "REJECTED")
       \/ /\ c.payload = "signed" /\ ~elapsed[t] /\ baton[t] = "CONSUMED"
          /\ Decide(u, "APPLIED") /\ UNCHANGED baton
       \/ /\ c.payload = "signed" /\ ~elapsed[t] /\ baton[t] = "ACTIVE"
          /\ NextCall(u, "consume") /\ UNCHANGED baton
    /\ UNCHANGED <<phoneVars, row, died, elapsed>>

\* Slip: every error of accept counts as a baton consumed before.
ConsumeOrForgive(u) ==
    LET t == TokenOf(Current(u)) IN
    /\ step[u] = "consume"
    /\ \/ /\ baton[t] = "ACTIVE"
          /\ baton' = [baton EXCEPT ![t] = "CONSUMED"]
          /\ Decide(u, "APPLIED")
       \/ Decide(u, "APPLIED") /\ UNCHANGED baton
    /\ UNCHANGED <<phoneVars, row, died, elapsed>>

\* accept, second half: the transaction.  A baton no longer ACTIVE is a
\* conflict, which counts as applied even when it has meanwhile expired.  The
\* reception itself may be refused and roll back (batch status, full tank); and
\* what follows the commit may fail, which reports a reception as rejected.
Consume(u) ==
    LET t == TokenOf(Current(u)) IN
    /\ step[u] = "consume"
    /\ \/ /\ baton[t] = "ACTIVE"
          /\ baton' = [baton EXCEPT ![t] = "CONSUMED"]
          /\ Decide(u, "APPLIED") \/ (Refusals /\ Decide(u, "REJECTED"))
       \/ baton[t] # "ACTIVE" /\ Decide(u, "APPLIED") /\ UNCHANGED baton
       \/ Refusals /\ baton[t] = "ACTIVE" /\ Decide(u, "REJECTED") /\ UNCHANGED baton
    /\ UNCHANGED <<phoneVars, row, died, elapsed>>

\* Slip: a rejection is answered, not recorded.
RecordApplied(u) ==
    /\ step[u] = "record"
    /\ row' = [row EXCEPT ![Current(u)] = IF verdict[u] = "APPLIED" THEN verdict[u] ELSE @]
    /\ NextEvent(u)
    /\ UNCHANGED <<phoneVars, died, batonVars>>

\* Slip: the status of the baton is written for the status of the event.
RecordBaton(u) ==
    /\ step[u] = "record"
    /\ row' = [row EXCEPT ![Current(u)] = baton[TokenOf(Current(u))]]
    /\ NextEvent(u)
    /\ UNCHANGED <<phoneVars, died, batonVars>>

Record(u) ==
    /\ step[u] = "record"
    /\ row' = [row EXCEPT ![Current(u)] = verdict[u]]
    /\ NextEvent(u)
    /\ UNCHANGED <<phoneVars, died, batonVars>>

Working(u) == step[u] \in {"check", "consume", "record"}

\* The handler stops where it is: the process dies, a database call fails, or
\* the request was refused before it got here.  The page keeps its queue.
Die(u) ==
    /\ step[u] # "idle"
    /\ died' = IF Working(u) THEN died \cup {Current(u)} ELSE died
    /\ step' = [step EXCEPT ![u] = "idle"]
    /\ todo' = [todo EXCEPT ![u] = <<>>]
    /\ verdict' = [verdict EXCEPT ![u] = None]
    /\ awaited' = [awaited EXCEPT ![u] = FALSE]
    /\ UNCHANGED <<phoneVars, row, batonVars>>

-------------------------------------------------------------------------------
(* Everybody else. *)

\* Somebody accepts the baton online.
AcceptElsewhere(t) ==
    /\ baton[t] = "ACTIVE" /\ ~elapsed[t]
    /\ baton' = [baton EXCEPT ![t] = "CONSUMED"]
    /\ UNCHANGED <<phoneVars, row, died, elapsed, handlerVars>>

\* Somebody looks at an elapsed baton.
Expire(t) ==
    /\ baton[t] = "ACTIVE" /\ elapsed[t]
    /\ baton' = [baton EXCEPT ![t] = "EXPIRED"]
    /\ UNCHANGED <<phoneVars, row, died, elapsed, handlerVars>>

Elapse(t) ==
    /\ ~elapsed[t]
    /\ elapsed' = [elapsed EXCEPT ![t] = TRUE]
    /\ UNCHANGED <<phoneVars, row, died, baton, handlerVars>>

Next ==
    \/ \E e \in Events, t \in Tokens, p \in Payloads : enqueueOffline(e, t, p)
    \/ \E u \in Uploads : \/ syncQueue(u) \/ LoseAnswer(u) \/ Answer(u) \/ Lookup(u)
                          \/ Insert(u) \/ Check(u) \/ Consume(u) \/ Record(u) \/ Die(u)
    \/ \E t \in Tokens : AcceptElsewhere(t) \/ Expire(t) \/ Elapse(t)

Spec == Init /\ [][Next]_vars

-------------------------------------------------------------------------------
(* Properties. *)

\* Queue, rows and handlers have the types of the code.
TypeOK ==
    /\ capture \in [Events -> Captures \cup {None}]
    /\ queue \in Seq(Events) /\ busy \subseteq Events /\ died \subseteq Events
    /\ row \in [Events -> {"ABSENT", "PENDING", "APPLIED", "REJECTED"}]
    /\ baton \in [Tokens -> {"ACTIVE", "CONSUMED", "EXPIRED"}]
    /\ elapsed \in [Tokens -> BOOLEAN]
    /\ step \in [Uploads -> {"idle", "lookup", "insert", "check", "consume", "record"}]
    /\ todo \in [Uploads -> Seq(Events)]
    /\ verdict \in [Uploads -> {"APPLIED", "REJECTED", None}]
    /\ awaited \in [Uploads -> BOOLEAN]
    /\ \A u \in Uploads : step[u] \notin {"idle", "lookup"} => todo[u] # <<>>

\* However often the queue is sent, and by however many pages at once, at most
\* one handler works on an event, and only while its row is PENDING.
OneWorkerPerEvent ==
    \A u, v \in Uploads :
      Working(u) => /\ row[Current(u)] = "PENDING"
                    /\ Working(v) /\ Current(v) = Current(u) => u = v

\* An event that is reported as applied leaves nothing to receive: its baton was
\* consumed or has expired.
AppliedIsOver ==
    \A e \in Events : row[e] = "APPLIED" => baton[TokenOf(e)] # "ACTIVE"

\* A PENDING event is being worked on, or its handler died: the latter stay
\* PENDING, because a retry skips every event that has a row.
PendingIsExplained ==
    \A e \in Events : row[e] = "PENDING" =>
      e \in died \/ \E u \in Uploads : Working(u) /\ Current(u) = e

\* A reception captured while no upload was awaited stays on the phone until the
\* server has a row for it, however many answers are lost.
KeptUntilKnown ==
    \A e \in Captured \ busy : e \in ToSet(queue) \/ row[e] # "ABSENT"

\* What was decided about an event is never decided again.
DecidedIsFinal ==
    [][\A e \in Events : row[e] \in {"APPLIED", "REJECTED"} => row'[e] = row[e]]_vars

\* Every captured reception stays on the phone until the server has a row for it.
NobodyLosesTheLink ==
    \A e \in Captured : e \in ToSet(queue) \/ row[e] # "ABSENT"

\* Where nothing speaks against a reception, it is rejected only if its baton is
\* over: consumed by somebody else, or out of time.
RejectedIsOver ==
    \A e \in Events :
      row[e] = "REJECTED" => baton[TokenOf(e)] # "ACTIVE" \/ elapsed[TokenOf(e)]

===============================================================================
