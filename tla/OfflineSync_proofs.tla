-------------------------- MODULE OfflineSync_proofs --------------------------
(***************************************************************************)
(* Proofs about OfflineSync, for any number of events, batons and uploads. *)
(***************************************************************************)
EXTENDS OfflineSync, TLAPS

\* A handler that is about to record has a verdict.
StepInv == \A u \in Uploads : step[u] = "record" => verdict[u] \in {"APPLIED", "REJECTED"}

\* What is queued, sent or stored was captured.
CaptureInv ==
    /\ \A e \in ToSet(queue) : capture[e] # None
    /\ \A u \in Uploads : \A e \in ToSet(todo[u]) : capture[e] # None
    /\ \A e \in Events : row[e] # "ABSENT" => capture[e] # None

\* What is about to be reported as applied is over already.
VerdictInv ==
    \A u \in Uploads :
      step[u] = "record" /\ verdict[u] = "APPLIED" => baton[TokenOf(Current(u))] # "ACTIVE"

\* An upload that is awaited was sent everything that was on the phone.
AwaitInv ==
    \A u \in Uploads, e \in Captured \ busy :
      awaited[u] => row[e] # "ABSENT" \/ e \in ToSet(todo[u])

\* The type of a queue and of what is left of it after its head.
LEMMA SeqFacts ==
  ASSUME NEW S, NEW s \in Seq(S)
  PROVE  /\ ToSet(s) \subseteq S
         /\ s # <<>> => /\ Head(s) \in S /\ Head(s) \in ToSet(s)
                        /\ Tail(s) \in Seq(S)
                        /\ ToSet(s) = {Head(s)} \cup ToSet(Tail(s))
         /\ \A e \in S : Append(s, e) \in Seq(S) /\ ToSet(Append(s, e)) = ToSet(s) \cup {e}
<1>1. ToSet(s) = {s[i] : i \in 1..Len(s)}
  BY DEF ToSet
<1>2. ToSet(s) \subseteq S
  BY <1>1
<1>3. ASSUME s # <<>>
      PROVE  /\ Head(s) \in S /\ Head(s) \in ToSet(s)
             /\ Tail(s) \in Seq(S)
             /\ ToSet(s) = {Head(s)} \cup ToSet(Tail(s))
  <2>1. Len(s) \in Nat /\ Len(s) >= 1 /\ Head(s) = s[1]
    BY <1>3
  <2>2. Tail(s) \in Seq(S) /\ Len(Tail(s)) = Len(s) - 1
    BY <1>3
  <2>3. \A i \in 1..(Len(s) - 1) : Tail(s)[i] = s[i + 1]
    BY <1>3
  <2>4. ToSet(Tail(s)) = {Tail(s)[i] : i \in 1..(Len(s) - 1)}
    <3>1. DOMAIN Tail(s) = 1..(Len(s) - 1)
      BY <2>1, <2>2
    <3>2. QED BY <3>1 DEF ToSet
  <2>5. ASSUME NEW e \in ToSet(s), e # Head(s) PROVE e \in ToSet(Tail(s))
    <3>1. PICK i \in 1..Len(s) : e = s[i]
      BY <1>1
    <3>2. i # 1 /\ i - 1 \in 1..(Len(s) - 1)
      BY <2>1, <2>5, <3>1
    <3>3. Tail(s)[i - 1] = e
      BY <2>3, <3>1, <3>2
    <3>4. QED BY <2>4, <3>2, <3>3
  <2>6. ASSUME NEW e \in ToSet(Tail(s)) PROVE e \in ToSet(s)
    <3>1. PICK i \in 1..(Len(s) - 1) : e = Tail(s)[i]
      BY <2>4
    <3>2. e = s[i + 1] /\ i + 1 \in 1..Len(s)
      BY <2>1, <2>3, <3>1
    <3>3. QED BY <1>1, <3>2
  <2>7. Head(s) \in ToSet(s) /\ Head(s) \in S
    BY <1>1, <2>1
  <2>8. QED BY <2>2, <2>5, <2>6, <2>7
<1>4. ASSUME NEW e \in S
      PROVE  Append(s, e) \in Seq(S) /\ ToSet(Append(s, e)) = ToSet(s) \cup {e}
  <2>1. /\ Append(s, e) \in Seq(S) /\ Len(Append(s, e)) = Len(s) + 1
        /\ \A i \in 1..Len(s) : Append(s, e)[i] = s[i]
        /\ Append(s, e)[Len(s) + 1] = e /\ Len(s) \in Nat
    OBVIOUS
  <2>2. ToSet(Append(s, e)) = {Append(s, e)[i] : i \in 1..(Len(s) + 1)}
    BY <2>1 DEF ToSet
  <2>3. 1..(Len(s) + 1) = (1..Len(s)) \cup {Len(s) + 1}
    BY <2>1
  <2>4. QED BY <1>1, <2>1, <2>2, <2>3
<1>5. QED BY <1>2, <1>3, <1>4

\* The same of the queue and of what each upload has left.
LEMMA QueueFacts ==
  ASSUME TypeOK
  PROVE  /\ ToSet(queue) \subseteq Events
         /\ \A e \in Events : ToSet(Append(queue, e)) = ToSet(queue) \cup {e}
         /\ ToSet(<<>>) = {}
         /\ \A u \in Uploads :
              /\ ToSet(todo[u]) \subseteq Events
              /\ todo[u] # <<>> => /\ Current(u) \in Events /\ Current(u) \in ToSet(todo[u])
                                   /\ Tail(todo[u]) \in Seq(Events)
                                   /\ ToSet(todo[u]) = {Current(u)} \cup ToSet(Tail(todo[u]))
<1>1. ToSet(<<>>) = {}
  BY DEF ToSet
<1>2. queue \in Seq(Events)
  BY DEF TypeOK
<1>3. \A u \in Uploads : todo[u] \in Seq(Events)
  BY DEF TypeOK
<1>4. QED BY <1>1, <1>2, <1>3, SeqFacts DEF Current

\* Every step of an upload leaves the other uploads alone.
LEMMA OtherUploads ==
  ASSUME TypeOK, NEW u \in Uploads,
         \/ syncQueue(u) \/ LoseAnswer(u) \/ Answer(u) \/ Lookup(u)
         \/ Insert(u) \/ Check(u) \/ Consume(u) \/ Record(u) \/ Die(u),
         NEW v \in Uploads \ {u}
  PROVE  /\ step'[v] = step[v] /\ todo'[v] = todo[v]
         /\ verdict'[v] = verdict[v] /\ awaited'[v] = awaited[v]
BY DEF TypeOK, handlerVars, syncQueue, LoseAnswer, Answer, Lookup, Insert, Check, Consume,
   Record, Die, NextCall, NextEvent, Decide

-------------------------------------------------------------------------------
(* Types. *)

HandlerTypes == {"idle", "lookup", "insert", "check", "consume", "record"}
WorkLeft == \A u \in Uploads : step[u] \notin {"idle", "lookup"} => todo[u] # <<>>

\* The empty queue and idle uploads have their types.
LEMMA TypeInit == Init => TypeOK /\ StepInv
<1> SUFFICES ASSUME Init PROVE TypeOK /\ StepInv
  OBVIOUS
<1>1. <<>> \in Seq(Events)
  OBVIOUS
<1>2. QED BY <1>1 DEF Init, TypeOK, StepInv

\* The calls a handler may go on with keep what its step says of it.
LEMMA TypeGoOn ==
  ASSUME TypeOK, StepInv, NEW u \in Uploads, todo[u] # <<>>,
         \/ \E call \in {"insert", "check", "consume"} : NextCall(u, call)
         \/ NextEvent(u)
         \/ \E status \in {"APPLIED", "REJECTED"} : Decide(u, status)
  PROVE  /\ step' \in [Uploads -> HandlerTypes] /\ todo' \in [Uploads -> Seq(Events)]
         /\ verdict' \in [Uploads -> {"APPLIED", "REJECTED", None}]
         /\ awaited' \in [Uploads -> BOOLEAN] /\ StepInv' /\ WorkLeft'
<1>1. Tail(todo[u]) \in Seq(Events)
  BY QueueFacts
<1>2. CASE \E call \in {"insert", "check", "consume"} : NextCall(u, call)
  BY <1>2 DEF TypeOK, StepInv, NextCall, HandlerTypes, WorkLeft
<1>3. CASE NextEvent(u)
  BY <1>1, <1>3 DEF TypeOK, StepInv, NextEvent, HandlerTypes, WorkLeft
<1>4. CASE \E status \in {"APPLIED", "REJECTED"} : Decide(u, status)
  BY <1>4 DEF TypeOK, StepInv, Decide, HandlerTypes, WorkLeft
<1>5. QED BY <1>2, <1>3, <1>4

\* No step breaks the types.
LEMMA TypeStep == TypeOK /\ StepInv /\ [Next]_vars => TypeOK' /\ StepInv'
<1> SUFFICES ASSUME TypeOK, StepInv, [Next]_vars PROVE TypeOK' /\ StepInv'
  OBVIOUS
<1>1. CASE UNCHANGED vars
  BY <1>1 DEF TypeOK, StepInv, vars, phoneVars, batonVars, handlerVars
<1>2. ASSUME NEW e \in Events, NEW t \in Tokens, NEW p \in Payloads, enqueueOffline(e, t, p)
      PROVE  TypeOK' /\ StepInv'
  <2>1. [token |-> t, payload |-> p] \in Captures
    BY DEF Captures
  <2>2. Append(queue, e) \in Seq(Events)
    BY DEF TypeOK
  <2>3. QED BY <1>2, <2>1, <2>2 DEF TypeOK, StepInv, enqueueOffline, batonVars, handlerVars
<1>3. ASSUME NEW u \in Uploads,
             syncQueue(u) \/ LoseAnswer(u) \/ Answer(u) \/ Die(u)
      PROVE  TypeOK' /\ StepInv'
  <2>1. <<>> \in Seq(Events)
    OBVIOUS
  <2>2. died' \subseteq Events
    BY <1>3, QueueFacts DEF TypeOK, StepInv, syncQueue, LoseAnswer, Answer, Die, Working
  <2>3. CASE syncQueue(u)
    BY <2>3 DEF TypeOK, StepInv, syncQueue, phoneVars, batonVars
  <2>4. CASE LoseAnswer(u)
    BY <2>4 DEF TypeOK, StepInv, LoseAnswer, phoneVars, batonVars
  <2>5. CASE Answer(u)
    BY <2>1, <2>5 DEF TypeOK, StepInv, Answer, batonVars
  <2>6. CASE Die(u)
    BY <2>1, <2>2, <2>6 DEF TypeOK, StepInv, Die, phoneVars, batonVars
  <2>7. QED BY <1>3, <2>3, <2>4, <2>5, <2>6
<1>4. ASSUME NEW u \in Uploads,
             Lookup(u) \/ Insert(u) \/ Check(u) \/ Consume(u) \/ Record(u)
      PROVE  TypeOK' /\ StepInv'
  <2>1. todo[u] # <<>> /\ Current(u) \in Events
    BY <1>4, QueueFacts DEF TypeOK, Lookup, Insert, Check, Consume, Record
  <2>2. /\ step' \in [Uploads -> HandlerTypes] /\ todo' \in [Uploads -> Seq(Events)]
        /\ verdict' \in [Uploads -> {"APPLIED", "REJECTED", None}]
        /\ awaited' \in [Uploads -> BOOLEAN] /\ StepInv' /\ WorkLeft'
    <3>1. \/ \E call \in {"insert", "check", "consume"} : NextCall(u, call)
          \/ NextEvent(u)
          \/ \E status \in {"APPLIED", "REJECTED"} : Decide(u, status)
      BY <1>4 DEF Lookup, Insert, Check, Consume, Record
    <3>2. QED BY <2>1, <3>1, TypeGoOn
  <2>3. row' \in [Events -> {"ABSENT", "PENDING", "APPLIED", "REJECTED"}]
    BY <1>4, <2>1 DEF TypeOK, StepInv, Lookup, Insert, Check, Consume, Record
  <2>4. baton' \in [Tokens -> {"ACTIVE", "CONSUMED", "EXPIRED"}]
    BY <1>4 DEF TypeOK, Lookup, Insert, Check, Consume, Record, batonVars
  <2>5. UNCHANGED <<capture, queue, busy, died, elapsed>>
    BY <1>4 DEF Lookup, Insert, Check, Consume, Record, phoneVars, batonVars
  <2>6. QED BY <2>2, <2>3, <2>4, <2>5 DEF TypeOK, HandlerTypes, WorkLeft
<1>5. ASSUME NEW t \in Tokens, AcceptElsewhere(t) \/ Expire(t) \/ Elapse(t)
      PROVE  TypeOK' /\ StepInv'
  BY <1>5 DEF TypeOK, StepInv, AcceptElsewhere, Expire, Elapse, phoneVars, handlerVars
<1>6. QED BY <1>1, <1>2, <1>3, <1>4, <1>5 DEF Next

\* In every reachable state queue, rows, batons and handlers have the types of
\* the code (TypeOK), for every instance of the constants.
THEOREM TypeCorrect == Spec => []TypeOK
<1>1. Spec => [](TypeOK /\ StepInv)
  BY TypeInit, TypeStep, PTL DEF Spec
<1>2. QED BY <1>1, PTL

-------------------------------------------------------------------------------
(* What a step does, seen from afar. *)

\* A capture is never changed, and the queue is only appended to or emptied.
LEMMA CaptureKept ==
  ASSUME TypeOK, [Next]_vars
  PROVE  /\ \A e \in Events : capture[e] # None => capture'[e] = capture[e]
         /\ busy \subseteq busy'
<1>1. ASSUME NEW e \in Events, NEW t \in Tokens, NEW p \in Payloads, enqueueOffline(e, t, p)
      PROVE  /\ \A f \in Events : capture[f] # None => capture'[f] = capture[f]
             /\ busy \subseteq busy'
  BY <1>1 DEF TypeOK, enqueueOffline
<1>2. ASSUME NEW u \in Uploads,
             \/ syncQueue(u) \/ LoseAnswer(u) \/ Answer(u) \/ Lookup(u)
             \/ Insert(u) \/ Check(u) \/ Consume(u) \/ Record(u) \/ Die(u)
      PROVE  capture' = capture /\ busy' = busy
  BY <1>2 DEF syncQueue, LoseAnswer, Answer, Lookup, Insert, Check, Consume, Record, Die, phoneVars
<1>3. ASSUME NEW t \in Tokens, AcceptElsewhere(t) \/ Expire(t) \/ Elapse(t)
      PROVE  capture' = capture /\ busy' = busy
  BY <1>3 DEF AcceptElsewhere, Expire, Elapse, phoneVars
<1>4. CASE UNCHANGED vars
  BY <1>4 DEF vars, phoneVars
<1>5. QED BY <1>1, <1>2, <1>3, <1>4 DEF Next

\* A baton that is over stays over.
LEMMA BatonOver ==
  ASSUME TypeOK, [Next]_vars, NEW t \in Tokens, baton[t] # "ACTIVE"
  PROVE  baton'[t] # "ACTIVE"
<1>1. ASSUME NEW e \in Events, NEW k \in Tokens, NEW p \in Payloads, enqueueOffline(e, k, p)
      PROVE  baton' = baton
  BY <1>1 DEF enqueueOffline, batonVars
<1>2. ASSUME NEW u \in Uploads,
             syncQueue(u) \/ LoseAnswer(u) \/ Answer(u) \/ Lookup(u)
               \/ Insert(u) \/ Record(u) \/ Die(u)
      PROVE  baton' = baton
  BY <1>2 DEF syncQueue, LoseAnswer, Answer, Lookup, Insert, Record, Die, batonVars
<1>3. ASSUME NEW u \in Uploads, Check(u) \/ Consume(u)
      PROVE  baton'[t] # "ACTIVE"
  BY <1>3 DEF TypeOK, Check, Consume
<1>4. ASSUME NEW k \in Tokens, AcceptElsewhere(k) \/ Expire(k) \/ Elapse(k)
      PROVE  baton'[t] # "ACTIVE"
  BY <1>4 DEF TypeOK, AcceptElsewhere, Expire, Elapse
<1>5. CASE UNCHANGED vars
  BY <1>5 DEF vars, batonVars
<1>6. QED BY <1>1, <1>2, <1>3, <1>4, <1>5 DEF Next

\* The events an upload has left only become fewer, once it has started.
LEMMA TodoShrinks ==
  ASSUME TypeOK, NEW u \in Uploads,
         \/ LoseAnswer(u) \/ Answer(u) \/ Lookup(u)
         \/ Insert(u) \/ Check(u) \/ Consume(u) \/ Record(u) \/ Die(u)
  PROVE  \A v \in Uploads : ToSet(todo'[v]) \subseteq ToSet(todo[v])
<1>1. \A v \in Uploads \ {u} : todo'[v] = todo[v]
  BY OtherUploads
<1>2. todo'[u] \in {todo[u], <<>>} \/ (todo[u] # <<>> /\ todo'[u] = Tail(todo[u]))
  BY DEF TypeOK, LoseAnswer, Answer, Lookup, Insert, Check, Consume, Record, Die,
     NextCall, NextEvent, Decide
<1>3. ToSet(todo'[u]) \subseteq ToSet(todo[u])
  BY <1>2, QueueFacts
<1>4. QED BY <1>1, <1>3

\* Nothing is queued, sent or stored that was not captured.
LEMMA CaptureStep == TypeOK /\ CaptureInv /\ [Next]_vars => CaptureInv'
<1> SUFFICES ASSUME TypeOK, CaptureInv, [Next]_vars PROVE CaptureInv'
  OBVIOUS
<1>0. \A e \in Events : capture[e] # None => capture'[e] # None
  BY CaptureKept
<1>1. CASE UNCHANGED vars
  BY <1>1 DEF CaptureInv, vars, phoneVars, handlerVars
<1>2. ASSUME NEW e \in Events, NEW t \in Tokens, NEW p \in Payloads, enqueueOffline(e, t, p)
      PROVE  CaptureInv'
  <2>1. capture'[e] # None
    <3>1. capture'[e] = [token |-> t, payload |-> p]
      BY <1>2 DEF TypeOK, enqueueOffline
    <3>2. [token |-> t, payload |-> p] \in Captures
      BY DEF Captures
    <3>3. QED BY <3>1, <3>2, SyncAssumption
  <2>2. ToSet(queue') = ToSet(queue) \cup {e}
    BY <1>2, QueueFacts DEF enqueueOffline
  <2>3. UNCHANGED <<row, todo>>
    BY <1>2 DEF enqueueOffline, handlerVars
  <2>4. QED BY <1>0, <2>1, <2>2, <2>3, QueueFacts DEF CaptureInv
<1>3. ASSUME NEW u \in Uploads, syncQueue(u)
      PROVE  CaptureInv'
  <2>1. UNCHANGED <<row, queue, capture>> /\ todo' = [todo EXCEPT ![u] = queue]
    BY <1>3 DEF syncQueue, phoneVars
  <2>2. QED BY <2>1 DEF TypeOK, CaptureInv
<1>4. ASSUME NEW u \in Uploads,
             \/ LoseAnswer(u) \/ Answer(u) \/ Lookup(u)
             \/ Insert(u) \/ Check(u) \/ Consume(u) \/ Record(u) \/ Die(u)
      PROVE  CaptureInv'
  <2>1. \A v \in Uploads : ToSet(todo'[v]) \subseteq ToSet(todo[v])
    BY <1>4, TodoShrinks
  <2>2. ToSet(queue') \subseteq ToSet(queue) /\ capture' = capture
    BY <1>4, QueueFacts
    DEF LoseAnswer, Answer, Lookup, Insert, Check, Consume, Record, Die, phoneVars
  <2>3. ASSUME NEW e \in Events, row'[e] # "ABSENT" PROVE capture[e] # None
    <3>1. CASE row' = row
      BY <2>3, <3>1 DEF CaptureInv
    <3>2. CASE Insert(u) \/ Record(u)
      <4>1. todo[u] # <<>> /\ Current(u) \in ToSet(todo[u]) /\ Current(u) \in Events
        BY <3>2, QueueFacts DEF TypeOK, Insert, Record
      <4>2. e = Current(u) \/ row'[e] = row[e]
        BY <3>2, <4>1 DEF TypeOK, Insert, Record
      <4>3. QED BY <2>3, <4>1, <4>2 DEF CaptureInv
    <3>3. QED BY <1>4, <3>1, <3>2 DEF LoseAnswer, Answer, Lookup, Check, Consume, Die
  <2>4. QED BY <2>1, <2>2, <2>3 DEF CaptureInv
<1>5. ASSUME NEW t \in Tokens, AcceptElsewhere(t) \/ Expire(t) \/ Elapse(t)
      PROVE  CaptureInv'
  BY <1>5 DEF CaptureInv, AcceptElsewhere, Expire, Elapse, phoneVars, handlerVars
<1>6. QED BY <1>1, <1>2, <1>3, <1>4, <1>5 DEF Next

-------------------------------------------------------------------------------
(* One worker per event. *)

\* A step that neither inserts nor records leaves the rows, and makes nobody
\* work on another event than before.
LEMMA WorkersKept ==
  ASSUME TypeOK, [Next]_vars, row' = row,
         \A u \in Uploads : Working(u)' => Working(u) /\ Current(u)' = Current(u),
         OneWorkerPerEvent
  PROVE  OneWorkerPerEvent'
BY DEF OneWorkerPerEvent

\* At most one handler works on an event, and only while its row is PENDING.
LEMMA WorkerStep == TypeOK /\ OneWorkerPerEvent /\ [Next]_vars => OneWorkerPerEvent'
<1> SUFFICES ASSUME TypeOK, OneWorkerPerEvent, [Next]_vars PROVE OneWorkerPerEvent'
  OBVIOUS
<1>1. CASE UNCHANGED vars
  BY <1>1, WorkersKept DEF vars, handlerVars, Working, Current
<1>2. ASSUME NEW e \in Events, NEW t \in Tokens, NEW p \in Payloads, enqueueOffline(e, t, p)
      PROVE  OneWorkerPerEvent'
  BY <1>2, WorkersKept DEF enqueueOffline, handlerVars, Working, Current
<1>3. ASSUME NEW u \in Uploads,
             \/ syncQueue(u) \/ LoseAnswer(u) \/ Answer(u) \/ Lookup(u)
             \/ Check(u) \/ Consume(u) \/ Die(u)
      PROVE  OneWorkerPerEvent'
  <2>1. \A v \in Uploads \ {u} : step'[v] = step[v] /\ todo'[v] = todo[v]
    BY <1>3, OtherUploads
  <2>2. row' = row
    BY <1>3 DEF syncQueue, LoseAnswer, Answer, Lookup, Check, Consume, Die
  <2>3. Working(u)' => Working(u) /\ Current(u)' = Current(u)
    BY <1>3 DEF TypeOK, syncQueue, LoseAnswer, Answer, Lookup, Check, Consume, Die,
       NextCall, NextEvent, Decide, Working, Current
  <2>4. QED BY <2>1, <2>2, <2>3, WorkersKept DEF Working, Current
<1>4. ASSUME NEW u \in Uploads, Insert(u)
      PROVE  OneWorkerPerEvent'
  <2>1. \A v \in Uploads \ {u} : step'[v] = step[v] /\ todo'[v] = todo[v]
    BY <1>4, OtherUploads
  <2>2. CASE row[Current(u)] = "ABSENT"
    <3>1. todo'[u] = todo[u] /\ row' = [row EXCEPT ![Current(u)] = "PENDING"]
      BY <1>4, <2>2 DEF TypeOK, Insert, NextCall
    <3>2. Current(u) \in Events
      BY <1>4, QueueFacts DEF TypeOK, Insert
    <3>3. \A v \in Uploads \ {u} : Working(v) => Current(v) # Current(u)
      BY <2>2 DEF OneWorkerPerEvent
    <3>4. \A v \in Uploads : Current(v)' = Current(v)
      BY <2>1, <3>1 DEF Current
    <3>5. \A v \in Uploads \ {u} : Working(v)' <=> Working(v)
      BY <2>1 DEF Working
    <3>6. QED BY <3>1, <3>2, <3>3, <3>4, <3>5 DEF TypeOK, OneWorkerPerEvent
  <2>3. CASE row[Current(u)] # "ABSENT"
    <3>1. row' = row /\ ~Working(u)'
      BY <1>4, <2>3 DEF TypeOK, Insert, NextEvent, Working
    <3>2. QED BY <2>1, <3>1, WorkersKept DEF Working, Current
  <2>4. QED BY <2>2, <2>3
<1>5. ASSUME NEW u \in Uploads, Record(u)
      PROVE  OneWorkerPerEvent'
  <2>1. \A v \in Uploads \ {u} : step'[v] = step[v] /\ todo'[v] = todo[v]
    BY <1>5, OtherUploads
  <2>2. ~Working(u)' /\ Working(u) /\ row' = [row EXCEPT ![Current(u)] = verdict[u]]
    BY <1>5 DEF TypeOK, Record, NextEvent, Working
  <2>3. \A v \in Uploads \ {u} : Working(v) => Current(v) # Current(u) /\ Current(v) \in Events
    BY <2>2, QueueFacts DEF OneWorkerPerEvent, TypeOK, Working
  <2>4. \A v \in Uploads \ {u} : (Working(v)' <=> Working(v)) /\ Current(v)' = Current(v)
    BY <2>1 DEF Working, Current
  <2>5. QED BY <2>2, <2>3, <2>4 DEF TypeOK, OneWorkerPerEvent
<1>6. ASSUME NEW t \in Tokens, AcceptElsewhere(t) \/ Expire(t) \/ Elapse(t)
      PROVE  OneWorkerPerEvent'
  BY <1>6, WorkersKept DEF AcceptElsewhere, Expire, Elapse, handlerVars, Working, Current
<1>7. QED BY <1>1, <1>2, <1>3, <1>4, <1>5, <1>6 DEF Next

\* A decided row is left alone: only a worker writes a row that exists.
LEMMA DecidedStep ==
  ASSUME TypeOK, OneWorkerPerEvent, [Next]_vars, NEW e \in Events,
         row[e] \in {"APPLIED", "REJECTED"}
  PROVE  row'[e] = row[e]
<1>1. CASE row' = row
  BY <1>1
<1>2. ASSUME NEW u \in Uploads, Insert(u)
      PROVE  row'[e] = row[e]
  BY <1>2 DEF TypeOK, Insert
<1>3. ASSUME NEW u \in Uploads, Record(u)
      PROVE  row'[e] = row[e]
  <2>1. row[Current(u)] = "PENDING"
    BY <1>3 DEF Record, Working, OneWorkerPerEvent
  <2>2. QED BY <1>3, <2>1 DEF TypeOK, Record
<1>4. QED
  BY <1>1, <1>2, <1>3
  DEF Next, vars, enqueueOffline, syncQueue, LoseAnswer, Answer, Lookup, Check, Consume, Die,
      AcceptElsewhere, Expire, Elapse

\* However often the queue is sent, an event has at most one worker, and only
\* while its row is PENDING (syncOffline's insert under a unique clientEventId).
THEOREM OneWorkerHolds == Spec => []OneWorkerPerEvent
<1>1. Init => OneWorkerPerEvent
  BY DEF Init, OneWorkerPerEvent, Working
<1>2. Spec => [](TypeOK /\ StepInv /\ OneWorkerPerEvent)
  BY <1>1, TypeInit, TypeStep, WorkerStep, PTL DEF Spec
<1>3. QED BY <1>2, PTL

\* What syncOffline decided about an event is never decided again.
THEOREM DecidedOnce == Spec => DecidedIsFinal
<1>1. TypeOK /\ OneWorkerPerEvent /\ [Next]_vars
        => [\A e \in Events : row[e] \in {"APPLIED", "REJECTED"} => row'[e] = row[e]]_vars
  BY DecidedStep
<1>2. QED BY <1>1, TypeCorrect, OneWorkerHolds, PTL DEF Spec, DecidedIsFinal

-------------------------------------------------------------------------------
(* What is reported as applied is over. *)

OverInv == StepInv /\ CaptureInv /\ VerdictInv /\ AppliedIsOver

\* The baton of a captured event stays the same one, and once over stays over.
LEMMA OverKept ==
  ASSUME TypeOK, [Next]_vars, NEW e \in Events, capture[e] # None,
         baton[TokenOf(e)] # "ACTIVE"
  PROVE  baton'[TokenOf(e)'] # "ACTIVE"
<1>1. capture'[e] = capture[e]
  BY CaptureKept
<1>2. TokenOf(e) \in Tokens
  BY DEF TypeOK, TokenOf, Captures
<1>3. baton'[TokenOf(e)] # "ACTIVE"
  BY <1>2, BatonOver
<1>4. QED BY <1>1, <1>3 DEF TokenOf

\* A verdict "applied" is reached only where the baton is over.
LEMMA VerdictStep == TypeOK /\ OverInv /\ [Next]_vars => VerdictInv'
<1> SUFFICES ASSUME TypeOK, OverInv, [Next]_vars,
                    NEW v \in Uploads, step'[v] = "record", verdict'[v] = "APPLIED"
             PROVE  baton'[TokenOf(Current(v))'] # "ACTIVE"
  BY DEF VerdictInv
<1>1. CASE step[v] = "record" /\ verdict[v] = "APPLIED" /\ todo'[v] = todo[v]
  <2>1. Current(v) \in Events /\ capture[Current(v)] # None
    BY <1>1, QueueFacts DEF TypeOK, OverInv, CaptureInv
  <2>2. baton'[TokenOf(Current(v))'] # "ACTIVE"
    <3>1. baton[TokenOf(Current(v))] # "ACTIVE"
      BY <1>1 DEF OverInv, VerdictInv
    <3> DEFINE e == Current(v)
    <3>2. e' = e
      BY <1>1 DEF Current
    <3>3. capture'[e] = capture[e]
      BY <2>1, CaptureKept
    <3>4. baton'[TokenOf(e)] # "ACTIVE"
      BY <2>1, <3>1, BatonOver DEF TypeOK, TokenOf, Captures
    <3>5. QED BY <3>2, <3>3, <3>4 DEF TokenOf
  <2>3. QED BY <2>2
<1>2. ASSUME NEW u \in Uploads, Check(u) \/ Consume(u), v = u
      PROVE  baton'[TokenOf(Current(v))'] # "ACTIVE"
  <2>1. Current(v) \in Events /\ capture[Current(v)] # None
    BY <1>2, QueueFacts DEF TypeOK, Check, Consume, OverInv, CaptureInv
  <2>2. TokenOf(Current(v)) \in Tokens
    BY <2>1 DEF TypeOK, TokenOf, Captures
  <2>3. baton'[TokenOf(Current(v))] # "ACTIVE"
    BY <1>2, <2>2 DEF TypeOK, Check, Consume, NextCall, Decide, TokenOf
  <2>4. todo' = todo /\ capture' = capture
    BY <1>2 DEF Check, Consume, NextCall, Decide, phoneVars
  <2>5. QED BY <2>3, <2>4 DEF TokenOf, Current
<1>3. ASSUME NEW u \in Uploads,
             \/ syncQueue(u) \/ LoseAnswer(u) \/ Answer(u) \/ Lookup(u)
             \/ Insert(u) \/ Record(u) \/ Die(u), v = u
      PROVE  step[v] = "record" /\ verdict[v] = "APPLIED" /\ todo'[v] = todo[v]
  BY <1>3 DEF TypeOK, syncQueue, LoseAnswer, Answer, Lookup, Insert, Record, Die,
     NextCall, NextEvent
<1>4. ASSUME NEW u \in Uploads,
             \/ syncQueue(u) \/ LoseAnswer(u) \/ Answer(u) \/ Lookup(u)
             \/ Insert(u) \/ Check(u) \/ Consume(u) \/ Record(u) \/ Die(u), v # u
      PROVE  step[v] = "record" /\ verdict[v] = "APPLIED" /\ todo'[v] = todo[v]
  BY <1>4, OtherUploads
<1>5. CASE UNCHANGED handlerVars
  BY <1>1, <1>5 DEF handlerVars
<1>6. QED
  BY <1>1, <1>2, <1>3, <1>4, <1>5
  DEF Next, vars, enqueueOffline, AcceptElsewhere, Expire, Elapse

\* A row becomes APPLIED only by such a verdict.
LEMMA AppliedStep == TypeOK /\ OverInv /\ [Next]_vars => AppliedIsOver'
<1> SUFFICES ASSUME TypeOK, OverInv, [Next]_vars, NEW e \in Events, row'[e] = "APPLIED"
             PROVE  baton'[TokenOf(e)'] # "ACTIVE"
  BY DEF AppliedIsOver
<1>1. CASE row[e] = "APPLIED"
  BY <1>1, OverKept DEF OverInv, CaptureInv, AppliedIsOver
<1>2. ASSUME NEW u \in Uploads, Record(u), row[e] # "APPLIED"
      PROVE  baton'[TokenOf(e)'] # "ACTIVE"
  <2>1. e = Current(u) /\ verdict[u] = "APPLIED" /\ step[u] = "record" /\ todo[u] # <<>>
    BY <1>2 DEF TypeOK, Record
  <2>2. capture[e] # None
    BY <2>1, QueueFacts DEF OverInv, CaptureInv
  <2>3. baton[TokenOf(e)] # "ACTIVE"
    BY <2>1 DEF OverInv, VerdictInv
  <2>4. QED BY <2>2, <2>3, OverKept
<1>3. ASSUME NEW u \in Uploads, Insert(u) PROVE row[e] = "APPLIED"
  BY <1>3 DEF TypeOK, Insert
<1>4. CASE row' = row
  BY <1>1, <1>4
<1>5. QED
  BY <1>1, <1>2, <1>3, <1>4
  DEF Next, vars, enqueueOffline, syncQueue, LoseAnswer, Answer, Lookup, Check, Consume, Die,
      AcceptElsewhere, Expire, Elapse

\* An event reported as applied leaves nothing to receive: its baton was
\* consumed, by this handler or another, or has expired.
THEOREM AppliedIsOverHolds == Spec => []AppliedIsOver
<1>1. Init => OverInv
  <2> SUFFICES ASSUME Init PROVE OverInv
    OBVIOUS
  <2>1. ToSet(<<>>) = {}
    BY DEF ToSet
  <2>2. QED BY <2>1 DEF Init, OverInv, StepInv, CaptureInv, VerdictInv, AppliedIsOver
<1>2. TypeOK /\ OverInv /\ [Next]_vars => OverInv'
  BY TypeStep, CaptureStep, VerdictStep, AppliedStep DEF OverInv
<1>3. TypeOK /\ OverInv /\ [Next]_vars => TypeOK'
  BY TypeStep DEF OverInv
<1>4. Init => TypeOK
  BY TypeInit
<1>5. OverInv => AppliedIsOver
  BY DEF OverInv
<1>6. QED BY <1>1, <1>2, <1>3, <1>4, <1>5, PTL DEF Spec

-------------------------------------------------------------------------------
(* Pending events, and what the phone still has. *)

\* A row that is or becomes PENDING has a worker, or lost it.
LEMMA PendingStep ==
  TypeOK /\ StepInv /\ PendingIsExplained /\ [Next]_vars => PendingIsExplained'
<1> SUFFICES ASSUME TypeOK, StepInv, PendingIsExplained, [Next]_vars,
                    NEW e \in Events, row'[e] = "PENDING"
             PROVE  e \in died' \/ \E v \in Uploads : Working(v)' /\ Current(v)' = e
  BY DEF PendingIsExplained
<1>1. ASSUME row[e] = "PENDING", died \subseteq died',
             \A v \in Uploads : Working(v) /\ Current(v) = e
               => e \in died' \/ (Working(v)' /\ Current(v)' = e)
      PROVE  e \in died' \/ \E v \in Uploads : Working(v)' /\ Current(v)' = e
  BY <1>1 DEF PendingIsExplained
<1>2. CASE row' = row /\ died' = died /\ UNCHANGED handlerVars
  BY <1>1, <1>2 DEF handlerVars, Working, Current
<1>3. ASSUME NEW u \in Uploads,
             \/ syncQueue(u) \/ LoseAnswer(u) \/ Answer(u) \/ Lookup(u)
             \/ Check(u) \/ Consume(u) \/ Die(u)
      PROVE  e \in died' \/ \E v \in Uploads : Working(v)' /\ Current(v)' = e
  <2>1. \A v \in Uploads \ {u} : step'[v] = step[v] /\ todo'[v] = todo[v]
    BY <1>3, OtherUploads
  <2>2. row' = row /\ died \subseteq died'
    BY <1>3 DEF syncQueue, LoseAnswer, Answer, Lookup, Check, Consume, Die
  <2>3. Working(u) /\ Current(u) = e => e \in died' \/ (Working(u)' /\ Current(u)' = e)
    BY <1>3 DEF TypeOK, syncQueue, LoseAnswer, Answer, Lookup, Check, Consume, Die,
       NextCall, NextEvent, Decide, Working, Current
  <2>4. QED BY <1>1, <2>1, <2>2, <2>3 DEF Working, Current
<1>4. ASSUME NEW u \in Uploads, Insert(u)
      PROVE  e \in died' \/ \E v \in Uploads : Working(v)' /\ Current(v)' = e
  <2>1. \A v \in Uploads \ {u} : step'[v] = step[v] /\ todo'[v] = todo[v]
    BY <1>4, OtherUploads
  <2>2. died' = died /\ ~Working(u)
    BY <1>4 DEF Insert, Working
  <2>3. CASE row[e] = "PENDING"
    BY <1>1, <2>1, <2>2, <2>3 DEF Working, Current
  <2>4. CASE row[e] # "PENDING"
    <3>1. e = Current(u) /\ row[Current(u)] = "ABSENT"
      BY <1>4, <2>4 DEF TypeOK, Insert
    <3>2. Working(u)' /\ Current(u)' = e
      BY <1>4, <3>1 DEF TypeOK, Insert, NextCall, Working, Current
    <3>3. QED BY <3>2
  <2>5. QED BY <2>3, <2>4
<1>5. ASSUME NEW u \in Uploads, Record(u)
      PROVE  e \in died' \/ \E v \in Uploads : Working(v)' /\ Current(v)' = e
  <2>1. \A v \in Uploads \ {u} : step'[v] = step[v] /\ todo'[v] = todo[v]
    BY <1>5, OtherUploads
  <2>2. died' = died /\ row[e] = "PENDING" /\ Current(u) # e
    BY <1>5 DEF TypeOK, StepInv, Record
  <2>3. QED BY <1>1, <2>1, <2>2 DEF Working, Current
<1>6. QED
  BY <1>2, <1>3, <1>4, <1>5
  DEF Next, vars, enqueueOffline, AcceptElsewhere, Expire, Elapse

\* A PENDING event is being worked on, or its handler died: nothing else leaves
\* one behind, although every retry of the upload skips it.
THEOREM PendingExplained == Spec => []PendingIsExplained
<1>1. Init => PendingIsExplained
  BY DEF Init, PendingIsExplained
<1>2. Spec => [](TypeOK /\ StepInv /\ PendingIsExplained)
  BY <1>1, TypeInit, TypeStep, PendingStep, PTL DEF Spec
<1>3. QED BY <1>2, PTL

\* Of the events an upload has left, only one the server knows is let go.
LEMMA LeavesOnlyKnown ==
  ASSUME TypeOK, StepInv, NEW u \in Uploads,
         LoseAnswer(u) \/ Lookup(u) \/ Insert(u) \/ Check(u) \/ Consume(u) \/ Record(u),
         NEW e \in ToSet(todo[u])
  PROVE  e \in ToSet(todo'[u]) \/ row'[e] # "ABSENT"
<1>1. CASE todo'[u] = todo[u]
  BY <1>1
<1>2. CASE NextEvent(u) /\ (Lookup(u) \/ Insert(u) \/ Record(u))
  <2>1. todo[u] # <<>>
    BY <1>2, QueueFacts DEF TypeOK, Lookup, Insert, Record
  <2>2. todo'[u] = Tail(todo[u])
    BY <1>2 DEF TypeOK, NextEvent
  <2>3. e = Current(u) \/ e \in ToSet(todo'[u])
    BY <2>1, <2>2, QueueFacts
  <2>4. row'[Current(u)] # "ABSENT"
    <3>1. Current(u) \in Events
      BY <2>1, QueueFacts
    <3>2. CASE Lookup(u)
      BY <1>2, <3>2 DEF TypeOK, Lookup, NextCall, NextEvent
    <3>3. CASE Insert(u)
      BY <3>1, <3>3 DEF TypeOK, Insert
    <3>4. CASE Record(u)
      BY <3>1, <3>4 DEF TypeOK, StepInv, Record
    <3>5. QED BY <1>2, <3>2, <3>3, <3>4
  <2>5. QED BY <2>3, <2>4
<1>3. QED
  BY <1>1, <1>2
  DEF LoseAnswer, Lookup, Insert, Check, Consume, Record, NextCall, Decide

\* The server never forgets an event.
LEMMA RowsStay ==
  ASSUME TypeOK, StepInv, [Next]_vars, NEW e \in Events, row[e] # "ABSENT"
  PROVE  row'[e] # "ABSENT"
<1>1. ASSUME NEW u \in Uploads, Insert(u) \/ Record(u)
      PROVE  row'[e] # "ABSENT"
  BY <1>1 DEF TypeOK, StepInv, Insert, Record
<1>2. CASE row' = row
  BY <1>2
<1>3. QED
  BY <1>1, <1>2
  DEF Next, vars, enqueueOffline, syncQueue, LoseAnswer, Answer, Lookup, Check, Consume, Die,
      AcceptElsewhere, Expire, Elapse

\* What was captured quietly stays queued or is known, and an upload that is
\* awaited still has it or has made it known.
LEMMA KeptStep ==
  TypeOK /\ StepInv /\ AwaitInv /\ KeptUntilKnown /\ [Next]_vars
    => AwaitInv' /\ KeptUntilKnown'
<1> SUFFICES ASSUME TypeOK, StepInv, AwaitInv, KeptUntilKnown, [Next]_vars
             PROVE  AwaitInv' /\ KeptUntilKnown'
  OBVIOUS
<1>1. \A e \in Events : row[e] # "ABSENT" => row'[e] # "ABSENT"
  BY RowsStay
<1>2. CASE UNCHANGED vars
  BY <1>2 DEF AwaitInv, KeptUntilKnown, Captured, vars, phoneVars, handlerVars
<1>3. ASSUME NEW c \in Events, NEW t \in Tokens, NEW p \in Payloads, enqueueOffline(c, t, p)
      PROVE  AwaitInv' /\ KeptUntilKnown'
  <2>1. /\ ToSet(queue') = ToSet(queue) \cup {c}
        /\ UNCHANGED <<row, todo, awaited>>
        /\ \A e \in Events \ {c} : capture'[e] = capture[e]
        /\ busy' = IF \E u \in Uploads : awaited[u] THEN busy \cup {c} ELSE busy
    BY <1>3, QueueFacts DEF TypeOK, enqueueOffline, handlerVars
  <2>2. Captured' \subseteq Captured \cup {c}
    BY <2>1 DEF Captured
  <2>3. AwaitInv'
    BY <2>1, <2>2 DEF AwaitInv
  <2>4. KeptUntilKnown'
    BY <2>1, <2>2 DEF KeptUntilKnown
  <2>5. QED BY <2>3, <2>4
<1>4. ASSUME NEW u \in Uploads,
             \/ syncQueue(u) \/ LoseAnswer(u) \/ Answer(u) \/ Lookup(u)
             \/ Insert(u) \/ Check(u) \/ Consume(u) \/ Record(u) \/ Die(u)
      PROVE  AwaitInv' /\ KeptUntilKnown'
  <2>1. (Captured \ busy)' = Captured \ busy /\ Captured \subseteq Events
    BY <1>4 DEF syncQueue, LoseAnswer, Answer, Lookup, Insert, Check, Consume, Record, Die,
       phoneVars, Captured
  <2>2. AwaitInv'
    <3> SUFFICES ASSUME NEW v \in Uploads, NEW e \in Captured \ busy, awaited'[v]
                 PROVE  row'[e] # "ABSENT" \/ e \in ToSet(todo'[v])
      BY <2>1 DEF AwaitInv
    <3>1. CASE v # u
      BY <1>1, <1>4, <2>1, <3>1, OtherUploads DEF AwaitInv
    <3>2. CASE v = u /\ syncQueue(u)
      <4>1. todo'[v] = queue
        BY <3>2 DEF TypeOK, syncQueue
      <4>2. e \in ToSet(queue) \/ row[e] # "ABSENT"
        BY DEF KeptUntilKnown
      <4>3. QED BY <1>1, <2>1, <4>1, <4>2
    <3>3. CASE v = u /\ ~syncQueue(u)
      <4>1. awaited[v] /\ ~Answer(u) /\ ~Die(u)
        BY <1>4, <3>3 DEF TypeOK, LoseAnswer, Answer, Lookup, Insert, Check, Consume, Record,
           Die, NextCall, NextEvent, Decide
      <4>2. row[e] # "ABSENT" \/ e \in ToSet(todo[v])
        BY <4>1 DEF AwaitInv
      <4>3. QED BY <1>1, <1>4, <2>1, <3>3, <4>1, <4>2, LeavesOnlyKnown
    <3>4. QED BY <3>1, <3>2, <3>3
  <2>3. KeptUntilKnown'
    <3> SUFFICES ASSUME NEW e \in Captured \ busy
                 PROVE  e \in ToSet(queue') \/ row'[e] # "ABSENT"
      BY <2>1 DEF KeptUntilKnown
    <3>1. CASE queue' = queue
      BY <1>1, <2>1, <3>1 DEF KeptUntilKnown
    <3>2. CASE Answer(u) /\ awaited[u]
      <4>1. ToSet(todo[u]) = {}
        BY <3>2, QueueFacts DEF Answer
      <4>2. QED BY <1>1, <2>1, <3>2, <4>1 DEF AwaitInv
    <3>3. QED
      BY <1>4, <3>1, <3>2
      DEF syncQueue, LoseAnswer, Answer, Lookup, Insert, Check, Consume, Record, Die, phoneVars
  <2>4. QED BY <2>2, <2>3
<1>5. ASSUME NEW t \in Tokens, AcceptElsewhere(t) \/ Expire(t) \/ Elapse(t)
      PROVE  AwaitInv' /\ KeptUntilKnown'
  BY <1>5
  DEF AwaitInv, KeptUntilKnown, Captured, AcceptElsewhere, Expire, Elapse, phoneVars, handlerVars
<1>6. QED BY <1>2, <1>3, <1>4, <1>5 DEF Next

\* A reception captured while no upload was awaited stays on the phone until the
\* server has a row for it: lost answers, dying handlers and repeated uploads
\* do not lose it, although the page empties its queue without looking.
THEOREM KeptHolds == Spec => []KeptUntilKnown
<1>1. Init => AwaitInv /\ KeptUntilKnown
  BY DEF Init, AwaitInv, KeptUntilKnown, Captured
<1>2. Spec => [](TypeOK /\ StepInv /\ AwaitInv /\ KeptUntilKnown)
  BY <1>1, TypeInit, TypeStep, KeptStep, PTL DEF Spec
<1>3. QED BY <1>2, PTL

=============================================================================
