--------------------------- MODULE Anchoring_proofs ---------------------------
(***************************************************************************)
(* Type correctness of Anchoring, that what the verifier confirms is on    *)
(* the chain, and that retries are idempotent, for any number of attempts, *)
(* events, transactions and rows.                                          *)
(***************************************************************************)
EXTENDS Anchoring, FiniteSetTheorems, TLAPS

-------------------------------------------------------------------------------
(* The types of Len(sent) and Len(index) grow with the sequences. *)

\* Appending a transaction keeps the earlier ones where they are.
LEMMA AppendKeeps ==
    ASSUME NEW S, NEW s \in Seq(S), NEW x \in S
    PROVE  /\ Append(s, x) \in Seq(S)
           /\ Len(Append(s, x)) = Len(s) + 1
           /\ Append(s, x)[Len(s) + 1] = x
           /\ \A i \in 1..Len(s) : Append(s, x)[i] = s[i]
  OBVIOUS

\* A row of the index is replaced by a row; their number stays.
LEMMA ExceptKeeps ==
    ASSUME NEW S, NEW s \in Seq(S), NEW r \in 1..Len(s), NEW x \in S
    PROVE  /\ [s EXCEPT ![r] = x] \in Seq(S)
           /\ Len([s EXCEPT ![r] = x]) = Len(s)
           /\ \A i \in 1..Len(s) : [s EXCEPT ![r] = x][i] = IF i = r THEN x ELSE s[i]
  OBVIOUS

\* Writing a row keeps the index an index, and the order of its rows an order.
LEMMA UpsertTyped ==
    ASSUME IndexOK, NEW r \in Rows \cup {None}, NEW data \in IndexRow, Upsert(r, data)
    PROVE  /\ IndexOK'
           /\ Rows \subseteq Rows'
           /\ \A i \in Rows' : index'[i] = data \/ (i \in Rows /\ index'[i] = index[i])
  <1>1. CASE r = None
    <2>1. /\ index' = Append(index, data)
          /\ newer' = Touch(Len(index) + 1)
      BY <1>1, AnchoringAssumption DEF Upsert
    <2>2. /\ index' \in Seq(IndexRow)
          /\ Rows' = Rows \cup {Len(index) + 1}
          /\ Len(index) + 1 \notin Rows
          /\ index'[Len(index) + 1] = data
          /\ \A i \in Rows : index'[i] = index[i]
      BY <2>1, AppendKeeps DEF IndexOK, Rows
    <2>3. QED
      BY <2>1, <2>2 DEF IndexOK, Touch
  <1>2. CASE r \in Rows
    <2>1. r # None
      BY <1>2, AnchoringAssumption DEF Rows, IndexOK
    <2>2. /\ index' = [index EXCEPT ![r] = data]
          /\ newer' = Touch(r)
      BY <2>1 DEF Upsert
    <2>3. /\ index' \in Seq(IndexRow) /\ Rows' = Rows
          /\ \A i \in Rows : index'[i] = IF i = r THEN data ELSE index[i]
      BY <1>2, <2>2, ExceptKeeps DEF IndexOK, Rows
    <2>4. QED
      BY <1>2, <2>2, <2>3 DEF IndexOK, Touch
  <1>3. QED
    BY <1>1, <1>2

-------------------------------------------------------------------------------
(* The invariant. *)

\* Whoever is at work has a subject; only an event is looked up, marked or stamped.
SubjectInv ==
    \A a \in Attempts :
      /\ step[a] # "idle" => subject[a] \in Hashes
      /\ step[a] \in {"find", "ready", "mark", "stamp"} => subject[a] \in Evidence

\* A transaction names the hash of the attempt that sent it, and an attempt that
\* goes on to write about it has seen it mined.
AttemptInv ==
    \A a \in Attempts :
      /\ step[a] \in {"receipt", "index", "stamp"} => tx[a] \in Txs /\ sent[tx[a]] = subject[a]
      /\ step[a] \in {"index", "stamp"} => tx[a] \in mined

\* What is mined is on the chain.
MinedInv == \A t \in mined : OnChain(sent[t]) # {}

\* A row and an event name only a mined transaction of their own hash.
RowInv == \A r \in Rows : index[r].tx # None => index[r].tx \in mined /\ sent[index[r].tx] = index[r].hash
StampInv == \A e \in Evidence : stamp[e] # None => stamp[e] \in mined /\ sent[stamp[e]] = e

IInv == TypeOK /\ SubjectInv /\ AttemptInv /\ MinedInv /\ RowInv /\ StampInv

\* Nothing was sent, written or begun in the beginning.
LEMMA InitInv == Init => IInv
  BY AnchoringAssumption DEF Init, ChainInit, IInv, TypeOK, IndexOK, AttemptsOK, SubjectInv, AttemptInv,
     MinedInv, RowInv, StampInv, Txs, Rows, OnChain

\* What the invariant says of the rows of the index survives one write of a row
\* about a mined transaction, or about none.
LEMMA UpsertRows ==
    ASSUME IInv, NEW r \in Rows \cup {None}, NEW data \in IndexRow, Upsert(r, data),
           data.tx # None => data.tx \in mined /\ sent[data.tx] = data.hash,
           UNCHANGED <<sent, mined>>
    PROVE  IndexOK' /\ RowInv' /\ Rows \subseteq Rows'
  <1>1. IndexOK
    BY DEF IInv, TypeOK
  <1>2. /\ IndexOK' /\ Rows \subseteq Rows'
        /\ \A i \in Rows' : index'[i] = data \/ (i \in Rows /\ index'[i] = index[i])
    BY <1>1, UpsertTyped
  <1>3. RowInv'
    BY <1>2 DEF IInv, RowInv
  <1>4. QED
    BY <1>2, <1>3

\* A row the search returns is a row, or None.
LEMMA ReusableTyped == ASSUME NEW e PROVE Reusable(e) \subseteq Rows \cup {None}
  BY DEF Reusable, Latest, ConfirmedOf, RowsOf

\* What the invariant says of the attempts.
LocalInv == AttemptsOK /\ SubjectInv /\ AttemptInv

\* An attempt that ends leaves nothing behind, whatever rows were added meanwhile.
LEMMA ReturnInv ==
    ASSUME IInv, NEW a \in Attempts, Return(a), UNCHANGED <<sent, mined>>, Rows \subseteq Rows'
    PROVE  LocalInv'
  BY DEF Return, Goto, IInv, TypeOK, LocalInv, AttemptsOK, SubjectInv, AttemptInv, Txs

\* An attempt on an event goes on to look, to write a failure, or to send, with a
\* row or None in hand.
LEMMA GoOnInv ==
    ASSUME IInv, NEW a \in Attempts, NEW s \in {"ready", "mark"}, Goto(a, s),
           NEW r \in Rows \cup {None}, reuse' = [reuse EXCEPT ![a] = r],
           subject[a] \in Evidence, UNCHANGED <<subject, tx, sent, mined, index>>
    PROVE  LocalInv'
  BY AnchoringAssumption
     DEF Goto, IInv, TypeOK, LocalInv, AttemptsOK, SubjectInv, AttemptInv, Txs, Rows

\* Beginning, looking for a row and going on only move the attempt.
LEMMA MoveInv ==
    ASSUME IInv, NEW a \in Attempts,
           \/ \E e \in Evidence : Begin(a, e)
           \/ \E n \in Notes : BeginLive(a, n)
           \/ Find(a) \/ Ready(a) \/ Receipt(a) \/ Throw(a) \/ Die(a)
    PROVE  IInv'
  <1>1. UNCHANGED <<chainVars, sent, mined, index, newer, stamp>>
    BY DEF Begin, BeginLive, Find, Ready, Receipt, Throw, Die
  <1>2. /\ MinedInv' /\ RowInv' /\ StampInv' /\ IndexOK'
        /\ Txs' = Txs /\ Rows' = Rows
    BY <1>1 DEF IInv, TypeOK, MinedInv, RowInv, StampInv, IndexOK, Rows, Txs, OnChain, chainVars
  <1>3. LocalInv'
    <2>1. ASSUME NEW e \in Evidence, Begin(a, e) PROVE LocalInv'
      BY <1>1, <1>2, <2>1, AnchoringAssumption
         DEF Begin, Goto, IInv, TypeOK, LocalInv, AttemptsOK, SubjectInv, AttemptInv
    <2>2. ASSUME NEW n \in Notes, BeginLive(a, n) PROVE LocalInv'
      BY <1>1, <1>2, <2>2, AnchoringAssumption
         DEF BeginLive, Goto, IInv, TypeOK, LocalInv, AttemptsOK, SubjectInv, AttemptInv
    <2>3. CASE Find(a)
      <3>1. CASE Return(a)
        BY <1>1, <1>2, <3>1, ReturnInv
      <3>2. CASE /\ \E r \in Reusable(subject[a]) : reuse' = [reuse EXCEPT ![a] = r]
                 /\ Goto(a, "ready") /\ UNCHANGED <<subject, tx>>
        <4>1. PICK r \in Rows \cup {None} : reuse' = [reuse EXCEPT ![a] = r]
          BY <3>2, ReusableTyped
        <4>2. subject[a] \in Evidence
          BY <2>3 DEF Find, IInv, SubjectInv
        <4>3. QED
          BY <1>1, <3>2, <4>1, <4>2, GoOnInv
      <3>3. QED
        BY <2>3, <3>1, <3>2 DEF Find
    <2>4. CASE Ready(a)
      BY <1>1, <1>2, <2>4, AnchoringAssumption
         DEF Ready, Goto, IInv, TypeOK, LocalInv, AttemptsOK, SubjectInv, AttemptInv
    <2>5. CASE Receipt(a)
      BY <1>1, <1>2, <2>5
         DEF Receipt, Goto, IInv, TypeOK, LocalInv, AttemptsOK, SubjectInv, AttemptInv
    <2>6. CASE Throw(a)
      <3>1. CASE subject[a] \in Evidence
        <4>1. Goto(a, "mark") /\ UNCHANGED <<subject, tx>>
          BY <2>6, <3>1 DEF Throw
        <4>2. PICK r \in Rows \cup {None} : reuse' = [reuse EXCEPT ![a] = r]
          BY <2>6, <3>1, ReusableTyped DEF Throw
        <4>3. QED
          BY <1>1, <3>1, <4>1, <4>2, GoOnInv
      <3>2. CASE subject[a] \notin Evidence
        <4>1. Return(a)
          BY <2>6, <3>2 DEF Throw
        <4>2. QED
          BY <1>1, <1>2, <4>1, ReturnInv
      <3>3. QED
        BY <3>1, <3>2
    <2>7. CASE Die(a)
      BY <1>1, <1>2, <2>7, ReturnInv DEF Die
    <2>8. QED
      BY <2>1, <2>2, <2>3, <2>4, <2>5, <2>6, <2>7
  <1>4. overlapped' \subseteq Evidence /\ troubled' \subseteq Hashes
    <2>1. step[a] # "idle" => subject[a] \in Hashes
      BY DEF IInv, SubjectInv
    <2>2. overlapped \subseteq Evidence /\ troubled \subseteq Hashes
      BY DEF IInv, TypeOK
    <2>3. QED
      BY <2>1, <2>2 DEF Begin, BeginLive, Find, Ready, Receipt, Throw, Die, historyVars
  <1>5. TypeOK'
    BY <1>1, <1>2, <1>3, <1>4 DEF IInv, TypeOK, LocalInv, chainVars
  <1>6. QED
    BY <1>2, <1>3, <1>5 DEF IInv, LocalInv

\* Writing the outcome into the index.
LEMMA WriteInv ==
    ASSUME IInv, NEW a \in Attempts, NotReady(a) \/ Index(a) \/ Mark(a)
    PROVE  IInv'
  <1>1. UNCHANGED <<chainVars, sent, mined, stamp, historyVars>>
    BY DEF NotReady, Index, Mark
  <1>2. MinedInv' /\ StampInv' /\ Txs' = Txs
    BY <1>1 DEF IInv, MinedInv, StampInv, Txs, OnChain, chainVars
  <1>3. reuse[a] \in Rows \cup {None} /\ mined \subseteq Txs /\ Txs \subseteq Nat
    BY DEF IInv, TypeOK, AttemptsOK, Txs
  <1>4. IndexOK' /\ RowInv' /\ Rows \subseteq Rows'
    <2>1. CASE NotReady(a)
      <3>1. subject[a] \in Hashes
        BY <2>1 DEF NotReady, IInv, SubjectInv
      <3>2. QED
        BY <1>1, <1>3, <2>1, <3>1, UpsertRows DEF NotReady, IndexRow
    <2>2. CASE Index(a)
      <3>1. subject[a] \in Hashes /\ tx[a] \in mined /\ sent[tx[a]] = subject[a]
        BY <2>2 DEF Index, IInv, SubjectInv, AttemptInv
      <3>2. QED
        BY <1>1, <1>3, <2>2, <3>1, UpsertRows DEF Index, IndexRow
    <2>3. CASE Mark(a)
      <3>1. subject[a] \in Hashes
        BY <2>3 DEF Mark, IInv, SubjectInv
      <3>2. QED
        BY <1>1, <1>3, <2>3, <3>1, UpsertRows DEF Mark, IndexRow
    <2>4. QED
      BY <2>1, <2>2, <2>3
  <1>5. LocalInv'
    <2>1. CASE Return(a)
      BY <1>1, <1>4, <2>1, ReturnInv
    <2>2. CASE /\ step[a] = "index" /\ subject[a] \in Evidence
               /\ Goto(a, "stamp") /\ UNCHANGED <<subject, reuse, tx>>
      BY <1>1, <1>2, <1>4, <2>2
         DEF Goto, IInv, TypeOK, LocalInv, AttemptsOK, SubjectInv, AttemptInv
    <2>3. QED
      BY <2>1, <2>2 DEF NotReady, Index, Mark
  <1>6. TypeOK'
    BY <1>1, <1>2, <1>4, <1>5 DEF IInv, TypeOK, LocalInv, chainVars, historyVars
  <1>7. QED
    BY <1>2, <1>4, <1>5, <1>6 DEF IInv, LocalInv

\* The event gets the transaction the attempt saw mined.
LEMMA StampStep == ASSUME IInv, NEW a \in Attempts, Stamp(a) PROVE IInv'
  <1>1. UNCHANGED <<chainVars, sent, mined, index, newer, historyVars>>
    BY DEF Stamp
  <1>2. MinedInv' /\ RowInv' /\ IndexOK' /\ Txs' = Txs /\ Rows' = Rows
    BY <1>1 DEF IInv, TypeOK, MinedInv, RowInv, IndexOK, Rows, Txs, OnChain, chainVars
  <1>3. tx[a] \in mined /\ tx[a] \in Txs /\ sent[tx[a]] = subject[a] /\ subject[a] \in Evidence
    BY DEF Stamp, IInv, AttemptInv, SubjectInv
  <1>4. StampInv'
    BY <1>1, <1>3 DEF Stamp, IInv, TypeOK, StampInv
  <1>5. LocalInv'
    BY <1>1, <1>2, ReturnInv DEF Stamp
  <1>6. TypeOK'
    BY <1>1, <1>2, <1>3, <1>5 DEF Stamp, IInv, TypeOK, LocalInv, chainVars, historyVars
  <1>7. QED
    BY <1>2, <1>4, <1>5, <1>6 DEF IInv, LocalInv

\* A transaction is sent: the earlier ones stay what they were.
LEMMA SendStep == ASSUME IInv, NEW a \in Attempts, Send(a) PROVE IInv'
  <1>1. UNCHANGED <<chainVars, mined, index, newer, stamp, subject, reuse, historyVars>>
    BY DEF Send
  <1>2. subject[a] \in Hashes /\ sent \in Seq(Hashes) /\ mined \subseteq Txs
    BY DEF Send, IInv, SubjectInv, TypeOK
  <1>3. /\ sent' \in Seq(Hashes) /\ Len(sent) + 1 \in Txs'
        /\ Txs \subseteq Txs' /\ \A t \in Txs : sent'[t] = sent[t]
        /\ sent'[Len(sent) + 1] = subject[a]
    BY <1>2, AppendKeeps DEF Send, Txs
  <1>4. Rows' = Rows /\ IndexOK'
    BY <1>1 DEF IInv, TypeOK, Rows, IndexOK
  <1>5. \A t \in mined : sent'[t] = sent[t]
    BY <1>2, <1>3
  <1>6. MinedInv'
    <2>1. \A h : OnChain(h)' = OnChain(h)
      BY <1>1 DEF OnChain, chainVars
    <2>2. QED
      BY <1>1, <1>5, <2>1 DEF IInv, MinedInv
  <1>7. RowInv' /\ StampInv'
    BY <1>1, <1>4, <1>5 DEF IInv, RowInv, StampInv
  <1>8. LocalInv'
    <2>1. /\ tx' = [tx EXCEPT ![a] = Len(sent) + 1] /\ step' = [step EXCEPT ![a] = "receipt"]
          /\ step[a] = "send"
      BY DEF Send, Goto
    <2>2. AttemptsOK'
      BY <1>1, <1>3, <1>4, <2>1 DEF IInv, TypeOK, AttemptsOK
    <2>3. SubjectInv'
      BY <1>1, <1>2, <2>1 DEF IInv, TypeOK, AttemptsOK, SubjectInv
    <2>4. AttemptInv'
      BY <1>1, <1>3, <2>1 DEF IInv, TypeOK, AttemptsOK, AttemptInv
    <2>5. QED
      BY <2>2, <2>3, <2>4 DEF LocalInv
  <1>9. TypeOK'
    BY <1>1, <1>2, <1>3, <1>4, <1>8 DEF IInv, TypeOK, LocalInv, chainVars, historyVars
  <1>10. QED
    BY <1>6, <1>7, <1>8, <1>9 DEF IInv, LocalInv

\* A transaction is mined: its hash is on the chain, and the others stay there.
LEMMA MineStep == ASSUME IInv, NEW t \in Txs, Mine(t) PROVE IInv'
  <1> DEFINE A == [batchId |-> BatchOf[sent[t]], dataHash |-> sent[t]]
             AnchorSet == [batchId : BatchIds, dataHash : Hashes]
  <1>1. UNCHANGED <<sent, index, newer, stamp, attemptVars, historyVars>>
    BY DEF Mine
  <1>2. /\ sent[t] \in Hashes /\ A \in AnchorSet /\ anchors \in Seq(AnchorSet)
        /\ BatchOf[sent[t]] \in BatchIds
    BY AnchoringAssumption DEF IInv, TypeOK, Txs
  <1>3. /\ anchors' \in Seq(AnchorSet) /\ Len(anchors') = Len(anchors) + 1
        /\ anchors'[Len(anchors) + 1] = A
        /\ \A i \in 1..Len(anchors) : anchors'[i] = anchors[i]
    <2>1. anchors' = Append(anchors, A)
      BY DEF Mine, anchorEvidence
    <2>2. QED
      BY <1>2, <2>1, AppendKeeps
  <1>4. batchAnchorIndexes' \in [BatchIds -> Seq(Nat)]
    <2>1. batchAnchorIndexes' = [batchAnchorIndexes EXCEPT ![BatchOf[sent[t]]] = Append(@, Len(anchors))]
      BY DEF Mine, anchorEvidence
    <2>2. Len(anchors) \in Nat /\ batchAnchorIndexes \in [BatchIds -> Seq(Nat)]
      BY <1>2 DEF IInv, TypeOK
    <2>3. QED
      BY <1>2, <2>1, <2>2
  <1>5. mined' = mined \cup {t} /\ Txs' = Txs /\ Rows' = Rows /\ IndexOK'
    BY <1>1 DEF Mine, Txs, Rows, IndexOK, IInv, TypeOK
  <1>6. MinedInv'
    <2>1. OnChain(sent[t])' # {}
      <3>1. Len(anchors) + 1 \in 1..Len(anchors')
        BY <1>2, <1>3
      <3>2. QED
        BY <1>1, <1>3, <3>1 DEF OnChain
    <2>2. ASSUME NEW h, OnChain(h) # {} PROVE OnChain(h)' # {}
      <3>1. PICK i \in 1..Len(anchors) : anchors[i].dataHash = h
        BY <2>2 DEF OnChain
      <3>2. i \in 1..Len(anchors') /\ anchors'[i].dataHash = h
        BY <1>2, <1>3, <3>1
      <3>3. QED
        BY <3>2 DEF OnChain
    <2>3. QED
      BY <1>1, <1>5, <2>1, <2>2 DEF IInv, MinedInv
  <1>7. RowInv' /\ StampInv' /\ SubjectInv' /\ AttemptInv'
    BY <1>1, <1>5 DEF IInv, RowInv, StampInv, SubjectInv, AttemptInv, attemptVars
  <1>8. TypeOK'
    BY <1>1, <1>3, <1>4, <1>5 DEF IInv, TypeOK, AttemptsOK, attemptVars, historyVars
  <1>9. QED
    BY <1>5, <1>6, <1>7, <1>8 DEF IInv

\* Every step keeps the invariant.
LEMMA NextInv == ASSUME IInv, [Next]_vars PROVE IInv'
  <1>1. CASE UNCHANGED vars
    BY <1>1 DEF vars, chainVars, attemptVars, historyVars, IInv, TypeOK, IndexOK, AttemptsOK, SubjectInv,
       AttemptInv, MinedInv, RowInv, StampInv, Txs, Rows, OnChain
  <1>2. ASSUME NEW a \in Attempts,
               \/ \E e \in Evidence : Begin(a, e)
               \/ \E n \in Notes : BeginLive(a, n)
               \/ Find(a) \/ NotReady(a) \/ Ready(a) \/ Send(a) \/ Receipt(a) \/ Index(a)
               \/ Stamp(a) \/ Throw(a) \/ Mark(a) \/ Die(a)
        PROVE  IInv'
    BY <1>2, MoveInv, WriteInv, StampStep, SendStep
  <1>3. ASSUME NEW t \in Txs, Mine(t) PROVE IInv'
    BY <1>3, MineStep
  <1>4. QED
    BY <1>1, <1>2, <1>3 DEF Next

\* The invariant implies what it is there for.
LEMMA InvMatch == IInv => MatchIsOnChain
  <1> SUFFICES ASSUME IInv, NEW e \in Evidence, Verdict(e) = "MATCH" \/ stamp[e] # None
               PROVE  OnChain(e) # {}
    BY DEF MatchIsOnChain
  <1>1. CASE Verdict(e) = "MATCH"
    <2>1. PICK r \in Rows : index[r].hash = e /\ index[r].tx # None
      BY <1>1 DEF Verdict, Latest, RowsOf, Status
    <2>2. index[r].tx \in mined /\ sent[index[r].tx] = e
      BY <2>1 DEF IInv, RowInv
    <2>3. QED
      BY <2>2 DEF IInv, MinedInv
  <1>2. CASE stamp[e] # None
    BY <1>2 DEF IInv, StampInv, MinedInv
  <1>3. QED
    BY <1>1, <1>2

\* What every behaviour satisfies.
LEMMA Invariance == Spec => []IInv
  <1>1. Init => IInv
    BY InitInv
  <1>2. IInv /\ [Next]_vars => IInv'
    BY NextInv
  <1>3. QED
    BY <1>1, <1>2, PTL DEF Spec

AnchorSet == [batchId : BatchIds, dataHash : Hashes]

\* An anchor of another batch changes nothing for a batch.
LEMMA AgreesOther ==
    ASSUME NEW at \in Seq(Nat), NEW list \in Seq(AnchorSet), NEW b, NEW x \in AnchorSet,
           Agrees(at, list, b), x.batchId # b
    PROVE  Agrees(at, Append(list, x), b)
  <1> DEFINE longer == Append(list, x)
  <1>1. /\ Len(longer) = Len(list) + 1 /\ longer[Len(list) + 1] = x /\ Len(list) \in Nat
        /\ \A i \in 1..Len(list) : longer[i] = list[i]
    BY AppendKeeps
  <1>2. \A k \in 1..Len(at) : at[k] + 1 \in 1..Len(list) /\ list[at[k] + 1].batchId = b
    BY <1>1 DEF Agrees
  <1> HIDE DEF longer
  <1>3. ASSUME NEW k \in 1..Len(at) PROVE at[k] < Len(longer) /\ longer[at[k] + 1].batchId = b
    <2>1. at[k] \in Int /\ at[k] + 1 \in 1..Len(list) /\ list[at[k] + 1].batchId = b
      BY <1>2
    <2>2. longer[at[k] + 1] = list[at[k] + 1]
      BY <1>1, <2>1
    <2>3. QED
      BY <1>1, <2>1, <2>2
  <1>4. ASSUME NEW i \in 1..Len(longer), longer[i].batchId = b
        PROVE  \E k \in 1..Len(at) : at[k] = i - 1
    <2>1. i # Len(list) + 1
      BY <1>1, <1>4
    <2>2. i \in 1..Len(list) /\ list[i].batchId = b
      BY <1>1, <1>4, <2>1
    <2>3. QED
      BY <2>2 DEF Agrees
  <1>5. Agrees(at, longer, b)
    BY <1>3, <1>4 DEF Agrees
  <1>6. QED
    BY <1>5 DEF longer

\* An anchor of the batch is the next position.
LEMMA AgreesOwn ==
    ASSUME NEW at \in Seq(Nat), NEW list \in Seq(AnchorSet), NEW b, NEW x \in AnchorSet,
           Agrees(at, list, b), x.batchId = b
    PROVE  Agrees(Append(at, Len(list)), Append(list, x), b)
  <1> DEFINE longer == Append(list, x)
             more == Append(at, Len(list))
  <1>1. /\ Len(longer) = Len(list) + 1 /\ longer[Len(list) + 1] = x /\ Len(list) \in Nat
        /\ \A i \in 1..Len(list) : longer[i] = list[i]
    BY AppendKeeps
  <1>2. /\ Len(more) = Len(at) + 1 /\ more[Len(at) + 1] = Len(list) /\ Len(at) \in Nat
        /\ \A k \in 1..Len(at) : more[k] = at[k]
    BY <1>1, AppendKeeps
  <1>3. \A k \in 1..Len(at) : at[k] + 1 \in 1..Len(list) /\ list[at[k] + 1].batchId = b
    BY <1>1 DEF Agrees
  <1> HIDE DEF longer, more
  <1>4. ASSUME NEW k \in 1..Len(more) PROVE more[k] < Len(longer) /\ longer[more[k] + 1].batchId = b
    <2>1. CASE k = Len(at) + 1
      BY <1>1, <1>2, <2>1
    <2>2. CASE k \in 1..Len(at)
      <3>1. /\ more[k] \in Int /\ more[k] + 1 \in 1..Len(list)
            /\ list[more[k] + 1].batchId = b
        BY <1>2, <1>3, <2>2
      <3>2. longer[more[k] + 1] = list[more[k] + 1]
        BY <1>1, <3>1
      <3>3. QED
        BY <1>1, <3>1, <3>2
    <2>3. QED
      BY <1>2, <2>1, <2>2
  <1>5. ASSUME NEW k \in 1..Len(more), NEW l \in 1..Len(more), k < l PROVE more[k] < more[l]
    <2>1. k \in 1..Len(at) /\ more[k] = at[k] /\ at[k] \in Int /\ at[k] + 1 \in 1..Len(list)
      BY <1>2, <1>3, <1>5
    <2>2. CASE l = Len(at) + 1
      BY <1>1, <1>2, <2>1, <2>2
    <2>3. CASE l \in 1..Len(at)
      BY <1>2, <1>5, <2>1, <2>3 DEF Agrees
    <2>4. QED
      BY <1>2, <2>2, <2>3
  <1>6. \A i \in 1..Len(longer) : longer[i].batchId = b => \E k \in 1..Len(more) : more[k] = i - 1
    <2> SUFFICES ASSUME NEW i \in 1..Len(longer), longer[i].batchId = b
                 PROVE  \E k \in 1..Len(more) : more[k] = i - 1
      OBVIOUS
    <2>1. CASE i = Len(list) + 1
      BY <1>1, <1>2, <2>1
    <2>2. CASE i \in 1..Len(list)
      <3>1. PICK k \in 1..Len(at) : at[k] = i - 1
        BY <1>1, <2>2 DEF Agrees
      <3>2. k \in 1..Len(more) /\ more[k] = i - 1
        BY <1>2, <3>1
      <3>3. QED
        BY <3>2
    <2>3. QED
      BY <1>1, <2>1, <2>2
  <1>7. Agrees(more, longer, b)
    BY <1>4, <1>5, <1>6 DEF Agrees
  <1>8. QED
    BY <1>7 DEF longer, more

\* What the contract writes keeps the index of each batch exact.
LEMMA AgreeStep ==
    ASSUME TypeOK, IndexesAgree, NEW b \in BatchIds, NEW h \in Hashes, anchorEvidence(b, h)
    PROVE  IndexesAgree'
  <1> DEFINE new == [batchId |-> b, dataHash |-> h]
  <1>1. /\ anchors \in Seq(AnchorSet) /\ new \in AnchorSet /\ new.batchId = b
        /\ batchAnchorIndexes \in [BatchIds -> Seq(Nat)]
    BY DEF TypeOK, AnchorSet
  <1>2. /\ anchors' = Append(anchors, new)
        /\ batchAnchorIndexes' = [batchAnchorIndexes EXCEPT ![b] = Append(@, Len(anchors))]
    BY DEF anchorEvidence
  <1> HIDE DEF new
  <1>3. SUFFICES ASSUME NEW c \in BatchIds PROVE Agrees(batchAnchorIndexes'[c], anchors', c)
    BY DEF IndexesAgree, Agrees
  <1>4. batchAnchorIndexes[c] \in Seq(Nat) /\ Agrees(batchAnchorIndexes[c], anchors, c)
    BY <1>1 DEF IndexesAgree
  <1>5. CASE c = b
    <2>1. batchAnchorIndexes'[c] = Append(batchAnchorIndexes[c], Len(anchors))
      BY <1>1, <1>2, <1>5
    <2>2. QED
      BY <1>1, <1>2, <1>4, <1>5, <2>1, AgreesOwn
  <1>6. CASE c # b
    <2>1. batchAnchorIndexes'[c] = batchAnchorIndexes[c]
      BY <1>1, <1>2, <1>6
    <2>2. QED
      BY <1>1, <1>2, <1>4, <1>6, <2>1, AgreesOther
  <1>7. QED
    BY <1>5, <1>6

-------------------------------------------------------------------------------
(* Theorems. *)

\* Chain, index and attempts keep their types (blockchain.service.ts, FuelChain.sol).
THEOREM TypeCorrect == Spec => []TypeOK
  <1>1. IInv => TypeOK
    BY DEF IInv
  <1>2. QED
    BY <1>1, Invariance, PTL

\* MATCH, or a transaction named by an event, means the event's hash is on the
\* chain (verifyCustodyEvidence), whatever attempts overlap, fail or die.
THEOREM MatchHolds == Spec => []MatchIsOnChain
  BY InvMatch, Invariance, PTL

\* The contract's per-batch index and its list agree (anchorEvidence), whatever
\* is anchored and in whatever order transactions are mined.
THEOREM IndexesAgreeHolds == Spec => []IndexesAgree
  <1>1. Init => IndexesAgree
    <2> SUFFICES ASSUME Init, NEW b \in BatchIds PROVE Agrees(batchAnchorIndexes[b], anchors, b)
      BY DEF IndexesAgree
    <2>1. Len(batchAnchorIndexes[b]) = 0 /\ Len(anchors) = 0
      BY DEF Init, ChainInit
    <2>2. QED
      BY <2>1 DEF Agrees
  <1>2. ASSUME TypeOK, IndexesAgree, [Next]_vars PROVE IndexesAgree'
    <2>1. CASE UNCHANGED chainVars
      <3>1. UNCHANGED anchors /\ UNCHANGED batchAnchorIndexes
        BY <2>1 DEF chainVars
      <3>2. QED
        BY <1>2, <3>1 DEF IndexesAgree
    <2>2. ASSUME NEW t \in Txs, Mine(t) PROVE IndexesAgree'
      <3>1. sent[t] \in Hashes
        BY <1>2 DEF TypeOK, Txs
      <3>2. BatchOf[sent[t]] \in BatchIds
        BY <3>1, AnchoringAssumption
      <3>3. QED
        BY <1>2, <2>2, <3>1, <3>2, AgreeStep DEF Mine
    <2>3. ASSUME NEW a \in Attempts,
                 \/ \E e \in Evidence : Begin(a, e)
                 \/ \E n \in Notes : BeginLive(a, n)
                 \/ Find(a) \/ NotReady(a) \/ Ready(a) \/ Send(a) \/ Receipt(a) \/ Index(a)
                 \/ Stamp(a) \/ Throw(a) \/ Mark(a) \/ Die(a)
          PROVE  UNCHANGED chainVars
      BY <2>3 DEF Begin, BeginLive, Find, NotReady, Ready, Send, Receipt, Index, Stamp, Throw, Mark, Die
    <2>4. CASE UNCHANGED vars
      BY <2>1, <2>4 DEF vars
    <2>5. QED
      BY <1>2, <2>1, <2>2, <2>3, <2>4 DEF Next
  <1>3. QED
    BY <1>1, <1>2, TypeCorrect, PTL DEF Spec

-------------------------------------------------------------------------------
(* Retries are idempotent. *)

\* An attempt at rest holds nothing, and the row an attempt holds is about what
\* it anchors.
HoldsInv ==
    \A a \in Attempts :
      /\ step[a] = "idle" => subject[a] = None /\ reuse[a] = None
      /\ reuse[a] # None => index[reuse[a]].hash = subject[a]

\* Events whose attempts came one after another and failed only before sending.
Smooth == Evidence \ (overlapped \cup troubled)

SentFor(e) == \E t \in Txs : sent[t] = e

\* One transaction for the event, once on the chain.
Once(e) ==
    /\ \A t, u \in Txs : sent[t] = e /\ sent[u] = e => t = u
    /\ \A i, j \in OnChain(e) : i = j
    /\ OnChain(e) # {} => \E t \in mined : sent[t] = e

\* Who is about to send, or to mark, knows that nothing was sent; and as soon as
\* the one who sent has written its row, the verifier finds it.
Turn(e) ==
    /\ \A a, b \in Attempts : subject[a] = e /\ subject[b] = e => a = b
    /\ \A a \in Attempts : subject[a] = e /\ step[a] \in {"ready", "send", "mark"} => ~SentFor(e)
    /\ SentFor(e) /\ (\A a \in Attempts : subject[a] = e => step[a] \notin {"receipt", "index"})
         => Verdict(e) = "MATCH"

RetryInv == HoldsInv /\ \A e \in Smooth : Once(e) /\ Turn(e)

\* Nobody is at work and nothing is sent in the beginning.
LEMMA RetryInit == Init => RetryInv
  <1> SUFFICES ASSUME Init PROVE RetryInv
    OBVIOUS
  <1>1. HoldsInv
    BY DEF Init, HoldsInv
  <1>2. Txs = {} /\ \A e : OnChain(e) = {}
    BY DEF Init, ChainInit, Txs, OnChain
  <1>3. \A a \in Attempts : subject[a] = None
    BY DEF Init
  <1>4. \A e \in Smooth : e # None
    BY AnchoringAssumption DEF Smooth
  <1>5. QED
    BY <1>1, <1>2, <1>3, <1>4 DEF RetryInv, Once, Turn, SentFor

\* No step makes an event smooth again.
LEMMA SmoothStep == [Next]_vars => Smooth' \subseteq Smooth
  BY DEF Next, vars, historyVars, Smooth, Begin, BeginLive, Find, NotReady, Ready, Send, Receipt, Index,
     Stamp, Throw, Mark, Die, Mine

\* A row that is written stays a row about the same hash, and the others are left
\* alone.
LEMMA UpsertHashes ==
    ASSUME IndexOK, NEW r \in Rows \cup {None}, NEW data \in IndexRow, Upsert(r, data),
           r # None => index[r].hash = data.hash
    PROVE  /\ \A i \in Rows : i \in Rows' /\ index'[i].hash = index[i].hash
           /\ \E w \in Rows' :
                /\ index'[w] = data /\ newer' = Touch(w)
                /\ Rows' = Rows \cup {w} /\ (w \in Rows => index[w].hash = data.hash)
                /\ \A i \in Rows \ {w} : index'[i] = index[i]
  <1>1. CASE r = None
    <2>1. index' = Append(index, data) /\ newer' = Touch(Len(index) + 1)
      BY <1>1, AnchoringAssumption DEF Upsert
    <2>2. /\ Rows' = Rows \cup {Len(index) + 1} /\ Len(index) + 1 \notin Rows
          /\ index'[Len(index) + 1] = data
          /\ \A i \in Rows : index'[i] = index[i]
      BY <2>1, AppendKeeps DEF IndexOK, Rows
    <2>3. QED
      BY <2>1, <2>2
  <1>2. CASE r \in Rows
    <2>1. r # None
      BY <1>2, AnchoringAssumption DEF Rows, IndexOK
    <2>2. index' = [index EXCEPT ![r] = data] /\ newer' = Touch(r)
      BY <2>1 DEF Upsert
    <2>3. Rows' = Rows /\ \A i \in Rows : index'[i] = IF i = r THEN data ELSE index[i]
      BY <1>2, <2>2, ExceptKeeps DEF IndexOK, Rows
    <2>4. QED
      BY <1>2, <2>1, <2>2, <2>3
  <1>3. QED
    BY <1>1, <1>2

\* What is written about one hash leaves the verdict on another as it was.
LEMMA VerdictKeeps ==
    ASSUME IndexOK, NEW r \in Rows \cup {None}, NEW data \in IndexRow, Upsert(r, data),
           r # None => index[r].hash = data.hash, NEW e, data.hash # e
    PROVE  Verdict(e)' = Verdict(e)
  <1>1. PICK w \in Rows' :
               /\ index'[w] = data /\ newer' = Touch(w)
               /\ Rows' = Rows \cup {w} /\ (w \in Rows => index[w].hash = data.hash)
               /\ \A i \in Rows \ {w} : index'[i] = index[i]
    BY UpsertHashes
  <1>2. RowsOf(e)' = RowsOf(e) /\ w \notin RowsOf(e)
    BY <1>1 DEF RowsOf
  <1>3. \A i \in RowsOf(e) : index'[i] = index[i]
    BY <1>1, <1>2 DEF RowsOf
  <1>4. \A i, j \in RowsOf(e) : <<i, j>> \in newer' <=> <<i, j>> \in newer
    BY <1>1, <1>2 DEF Touch
  <1>5. Latest(RowsOf(e))' = Latest(RowsOf(e))
    BY <1>2, <1>4 DEF Latest
  <1>6. Latest(RowsOf(e)) \subseteq RowsOf(e)
    BY DEF Latest
  <1>7. QED
    BY <1>3, <1>5, <1>6 DEF Verdict, Status

\* A row written about a transaction for the event is what the verifier finds.
LEMMA VerdictFinds ==
    ASSUME IndexOK, NEW r \in Rows \cup {None}, NEW data \in IndexRow, Upsert(r, data),
           r # None => index[r].hash = data.hash, NEW e, data.hash = e, data.tx # None
    PROVE  Verdict(e)' = "MATCH"
  <1>1. PICK w \in Rows' :
               /\ index'[w] = data /\ newer' = Touch(w)
               /\ Rows' = Rows \cup {w}
    BY UpsertHashes
  <1>2. w \in RowsOf(e)'
    BY <1>1 DEF RowsOf
  <1>3. \A s \in Rows' \ {w} : <<w, s>> \in newer'
    BY <1>1 DEF Touch
  <1>4. w \in Latest(RowsOf(e))'
    BY <1>2, <1>3 DEF Latest, RowsOf
  <1>5. QED
    BY <1>1, <1>4 DEF Verdict, Status

\* An event that an attempt on something else leaves alone has its turn as before.
LEMMA TurnElsewhere ==
    ASSUME NEW e, Turn(e), NEW a \in Attempts, subject[a] # e, subject'[a] # e,
           \A b \in Attempts \ {a} : subject'[b] = subject[b] /\ step'[b] = step[b],
           SentFor(e)' = SentFor(e), Verdict(e)' = Verdict(e)
    PROVE  Turn(e)'
  BY DEF Turn

\* The attempt on the event goes on where nothing is sent that is not yet found.
LEMMA TurnHere ==
    ASSUME NEW e, Turn(e), NEW a \in Attempts, subject[a] = e, subject'[a] \in {e, None}, e # None,
           \A b \in Attempts \ {a} : subject'[b] = subject[b] /\ step'[b] = step[b],
           SentFor(e)' = SentFor(e),
           subject'[a] = e /\ step'[a] \in {"ready", "send", "mark"} => ~SentFor(e),
           SentFor(e) => \/ Verdict(e)' = "MATCH"
                         \/ subject'[a] = e /\ step'[a] \in {"receipt", "index"}
    PROVE  Turn(e)'
  BY DEF Turn

\* Where transactions, chain and index stay, so does what they say of an event.
LEMMA OnceKeeps ==
    ASSUME UNCHANGED <<anchors, sent, mined>>, NEW e
    PROVE  SentFor(e)' = SentFor(e) /\ (Once(e) => Once(e)')
  BY DEF SentFor, Once, OnChain, Txs

\* The same for the verdict.
LEMMA SameVerdict ==
    ASSUME UNCHANGED <<index, newer>>, NEW e PROVE Verdict(e)' = Verdict(e)
  BY DEF Verdict, Latest, RowsOf, Rows, Status

\* A step of an attempt.
Acts(a) ==
    \/ \E e \in Evidence : Begin(a, e)
    \/ \E n \in Notes : BeginLive(a, n)
    \/ Find(a) \/ NotReady(a) \/ Ready(a) \/ Send(a) \/ Receipt(a) \/ Index(a)
    \/ Stamp(a) \/ Throw(a) \/ Mark(a) \/ Die(a)

\* An attempt moves itself only.
LEMMA Movers ==
    ASSUME IInv, NEW a \in Attempts, Acts(a)
    PROVE  \A b \in Attempts \ {a} :
             subject'[b] = subject[b] /\ step'[b] = step[b] /\ reuse'[b] = reuse[b]
  <1>1. AttemptsOK
    BY DEF IInv, TypeOK
  <1>2. \A s : Goto(a, s) => \A b \in Attempts \ {a} : step'[b] = step[b]
    BY <1>1 DEF Goto, AttemptsOK
  <1>3. Return(a) => \A b \in Attempts \ {a} :
          subject'[b] = subject[b] /\ step'[b] = step[b] /\ reuse'[b] = reuse[b]
    BY <1>1 DEF Return, Goto, AttemptsOK
  <1>4. (\E s : Goto(a, s)) \/ Return(a)
    BY DEF Acts, Begin, BeginLive, Find, NotReady, Ready, Send, Receipt, Index, Stamp, Throw, Mark, Die
  <1>5. Return(a) \/ UNCHANGED subject \/ \E s : subject' = [subject EXCEPT ![a] = s]
    BY DEF Acts, Begin, BeginLive, Find, NotReady, Ready, Send, Receipt, Index, Stamp, Throw, Mark, Die
  <1>6. Return(a) \/ UNCHANGED reuse \/ \E r : reuse' = [reuse EXCEPT ![a] = r]
    BY DEF Acts, Begin, BeginLive, Find, NotReady, Ready, Send, Receipt, Index, Stamp, Throw, Mark, Die
  <1>7. UNCHANGED step \/ \E s : Goto(a, s)
    BY <1>4 DEF Return
  <1>8. \A b \in Attempts \ {a} : step'[b] = step[b]
    BY <1>2, <1>7
  <1>9. \A b \in Attempts \ {a} : subject'[b] = subject[b]
    BY <1>1, <1>3, <1>5 DEF AttemptsOK
  <1>10. \A b \in Attempts \ {a} : reuse'[b] = reuse[b]
    BY <1>1, <1>3, <1>6 DEF AttemptsOK
  <1>11. QED
    BY <1>8, <1>9, <1>10

\* What an attempt ends with.
LEMMA Returned ==
    ASSUME IInv, NEW a \in Attempts, Return(a)
    PROVE  step'[a] = "idle" /\ subject'[a] = None /\ reuse'[a] = None
  BY DEF Return, Goto, IInv, TypeOK, AttemptsOK

\* A row is chosen among those of the event.
LEMMA ReusableHashes ==
    ASSUME NEW e, NEW r \in Reusable(e), r # None
    PROVE  r \in Rows /\ index[r].hash = e
  BY DEF Reusable, Latest, ConfirmedOf, RowsOf

\* What an attempt does to itself.
LEMMA OwnMove ==
    ASSUME IInv, HoldsInv, NEW a \in Attempts, Acts(a)
    PROVE  \/ step'[a] = "idle" /\ subject'[a] = None /\ reuse'[a] = None
           \/ step'[a] # "idle" /\ reuse[a] = None /\ reuse'[a] = None
           \/ step'[a] # "idle" /\ subject'[a] = subject[a] /\ reuse'[a] \in {reuse[a]} \cup Reusable(subject[a])
  <1>1. CASE Return(a)
    BY <1>1, Returned
  <1>2. CASE (\E e \in Evidence : Begin(a, e)) \/ (\E n \in Notes : BeginLive(a, n))
    <2>1. step[a] = "idle" /\ reuse[a] = None /\ UNCHANGED reuse /\ (Goto(a, "find") \/ Goto(a, "send"))
      BY <1>2 DEF Begin, BeginLive, HoldsInv
    <2>2. step'[a] # "idle"
      BY <2>1 DEF Goto, IInv, TypeOK, AttemptsOK
    <2>3. QED
      BY <2>1, <2>2
  <1>3. CASE /\ UNCHANGED subject /\ \E s \in {"ready", "send", "receipt", "index", "stamp", "mark"} : Goto(a, s)
             /\ UNCHANGED reuse \/ \E r \in Reusable(subject[a]) : reuse' = [reuse EXCEPT ![a] = r]
    BY <1>3 DEF Goto, IInv, TypeOK, AttemptsOK
  <1>4. ASSUME Find(a) \/ NotReady(a) \/ Ready(a) \/ Send(a)
        PROVE  \/ Return(a)
               \/ /\ UNCHANGED subject /\ \E s \in {"ready", "send", "receipt", "index", "stamp", "mark"} : Goto(a, s)
                  /\ UNCHANGED reuse \/ \E r \in Reusable(subject[a]) : reuse' = [reuse EXCEPT ![a] = r]
    BY <1>4, Zenon DEF Find, NotReady, Ready, Send
  <1>5. ASSUME Receipt(a) \/ Index(a) \/ Stamp(a) \/ Throw(a) \/ Mark(a) \/ Die(a)
        PROVE  \/ Return(a)
               \/ /\ UNCHANGED subject /\ \E s \in {"ready", "send", "receipt", "index", "stamp", "mark"} : Goto(a, s)
                  /\ UNCHANGED reuse \/ \E r \in Reusable(subject[a]) : reuse' = [reuse EXCEPT ![a] = r]
    BY <1>5, Zenon DEF Receipt, Index, Stamp, Throw, Mark, Die
  <1>6. QED
    BY <1>1, <1>2, <1>3, <1>4, <1>5 DEF Acts

\* Attempts hold what they held, or a row of their event.
LEMMA HoldsStep ==
    ASSUME IInv, HoldsInv, NEW a \in Attempts, Acts(a)
    PROVE  HoldsInv'
  <1>1. \A i \in Rows : index'[i].hash = index[i].hash
    <2>1. CASE NotReady(a) \/ Index(a) \/ Mark(a)
      <3>1. subject[a] \in Hashes /\ reuse[a] \in Rows \cup {None} /\ IndexOK
            /\ (reuse[a] # None => index[reuse[a]].hash = subject[a])
        BY <2>1 DEF NotReady, Index, Mark, IInv, TypeOK, AttemptsOK, SubjectInv, HoldsInv
      <3>2. Index(a) => tx[a] \in Nat
        BY DEF Index, IInv, TypeOK, AttemptInv, Txs
      <3>3. \E data \in IndexRow : data.hash = subject[a] /\ Upsert(reuse[a], data)
        <4>1. CASE NotReady(a)
          BY <3>1, <4>1 DEF NotReady, IndexRow
        <4>2. CASE Index(a)
          BY <3>1, <3>2, <4>2 DEF Index, IndexRow
        <4>3. CASE Mark(a)
          BY <3>1, <4>3 DEF Mark, IndexRow
        <4>4. QED
          BY <2>1, <4>1, <4>2, <4>3
      <3>4. QED
        BY <3>1, <3>3, UpsertHashes
    <2>2. CASE UNCHANGED index
      BY <2>2
    <2>3. QED
      BY <2>1, <2>2 DEF Acts, Begin, BeginLive, Find, Ready, Send, Receipt, Stamp, Throw, Die
  <1>2. AttemptsOK
    BY DEF IInv, TypeOK
  <1>3. ASSUME NEW b \in Attempts, b # a
        PROVE  /\ step'[b] = "idle" => subject'[b] = None /\ reuse'[b] = None
               /\ reuse'[b] # None => index'[reuse'[b]].hash = subject'[b]
    BY <1>1, <1>2, <1>3, Movers DEF HoldsInv, AttemptsOK
  <1>4. /\ step'[a] = "idle" => subject'[a] = None /\ reuse'[a] = None
        /\ reuse'[a] # None => index'[reuse'[a]].hash = subject'[a]
    <2>1. ASSUME reuse'[a] # None, subject'[a] = subject[a],
                 reuse'[a] \in {reuse[a]} \cup Reusable(subject[a])
          PROVE  index'[reuse'[a]].hash = subject[a]
      <3>1. reuse'[a] \in Rows /\ index[reuse'[a]].hash = subject[a]
        BY <1>2, <2>1, ReusableHashes DEF HoldsInv, AttemptsOK
      <3>2. QED
        BY <1>1, <3>1
    <2>2. QED
      BY <2>1, OwnMove
  <1>5. QED
    BY <1>3, <1>4 DEF HoldsInv

\* An attempt that neither sends nor writes: what was sent and found stays, and the
\* attempt goes on only where its turn allows.
LEMMA QuietStep ==
    ASSUME IInv, RetryInv, NEW e \in Smooth, e \in Smooth', NEW a \in Attempts,
           \/ \E x \in Evidence : Begin(a, x)
           \/ \E n \in Notes : BeginLive(a, n)
           \/ Find(a) \/ Ready(a) \/ Receipt(a) \/ Stamp(a) \/ Throw(a) \/ Die(a)
    PROVE  Once(e)' /\ Turn(e)'
  <1>1. UNCHANGED <<anchors, sent, mined, index, newer>>
    BY DEF Begin, BeginLive, Find, Ready, Receipt, Stamp, Throw, Die, chainVars
  <1>2. /\ SentFor(e)' = SentFor(e) /\ Verdict(e)' = Verdict(e)
        /\ Once(e)' /\ Turn(e) /\ e # None /\ e \in Evidence /\ AttemptsOK
    BY <1>1, OnceKeeps, SameVerdict, AnchoringAssumption DEF RetryInv, Smooth, IInv, TypeOK
  <1>3. \A b \in Attempts \ {a} : subject'[b] = subject[b] /\ step'[b] = step[b]
    BY Movers DEF Acts
  <1>4. ASSUME NEW x \in Evidence, Begin(a, x) PROVE Turn(e)'
    <2>1. subject[a] = None /\ subject'[a] = x /\ step'[a] = "find"
      BY <1>2, <1>4 DEF Begin, Goto, AttemptsOK, RetryInv, HoldsInv
    <2>2. CASE x = e
      <3>1. \A b \in Attempts : subject[b] # e
        BY <1>4, <2>2 DEF Begin, Smooth
      <3>2. QED
        BY <1>2, <1>3, <2>1, <2>2, <3>1 DEF Turn
    <2>3. CASE x # e
      BY <1>2, <1>3, <2>1, <2>3, TurnElsewhere
    <2>4. QED
      BY <2>2, <2>3
  <1>5. ASSUME NEW n \in Notes, BeginLive(a, n) PROVE Turn(e)'
    <2>1. subject[a] = None /\ subject'[a] = n /\ n # e
      BY <1>2, <1>5, AnchoringAssumption DEF BeginLive, AttemptsOK, RetryInv, HoldsInv
    <2>2. QED
      BY <1>2, <1>3, <2>1, TurnElsewhere
  <1>6. ASSUME Find(a) \/ Ready(a) \/ Receipt(a) \/ Stamp(a) \/ Throw(a) \/ Die(a)
        PROVE  Turn(e)'
    <2>1. subject'[a] \in {subject[a], None}
      BY <1>2, <1>6 DEF Find, Ready, Receipt, Stamp, Throw, Die, Return, AttemptsOK
    <2>2. CASE subject[a] # e
      BY <1>2, <1>3, <2>1, <2>2, TurnElsewhere
    <2>3. CASE subject[a] = e
      <3>1. subject'[a] = e /\ step'[a] \in {"ready", "send", "mark"} => ~SentFor(e)
        <4>1. CASE Return(a)
          BY <1>2, <4>1, Returned
        <4>2. CASE Find(a) /\ ConfirmedOf(subject[a]) = {}
          <5>1. Verdict(e) # "MATCH"
            BY <2>3, <4>2 DEF Verdict, Latest, ConfirmedOf
          <5>2. \A b \in Attempts : subject[b] = e => step[b] = "find"
            BY <1>2, <2>3, <4>2 DEF Turn, Find
          <5>3. QED
            BY <1>2, <5>1, <5>2 DEF Turn
        <4>3. CASE Ready(a)
          BY <1>2, <2>3, <4>3 DEF Ready, Turn
        <4>4. CASE Receipt(a)
          BY <1>2, <4>4 DEF Receipt, Goto, AttemptsOK
        <4>5. CASE Throw(a)
          <5>1. step[a] \in {"ready", "send"}
            BY <2>3, <4>5 DEF Throw, Smooth
          <5>2. QED
            BY <1>2, <2>3, <5>1 DEF Turn
        <4>6. QED
          BY <1>6, <4>1, <4>2, <4>3, <4>4, <4>5 DEF Find, Stamp, Die
      <3>2. \/ ~SentFor(e)
            \/ Verdict(e)' = "MATCH"
            \/ subject'[a] = e /\ step'[a] \in {"receipt", "index"}
        <4>1. CASE step[a] \notin {"receipt", "index"}
          <5>1. \A b \in Attempts : subject[b] = e => b = a
            BY <1>2, <2>3 DEF Turn
          <5>2. \A b \in Attempts : subject[b] = e => step[b] \notin {"receipt", "index"}
            BY <4>1, <5>1
          <5>3. SentFor(e) => Verdict(e) = "MATCH"
            BY <1>2, <5>2 DEF Turn
          <5>4. QED
            BY <1>2, <5>3
        <4>2. CASE Receipt(a)
          BY <1>2, <2>3, <4>2 DEF Receipt, Goto, AttemptsOK
        <4>3. step[a] \in {"receipt", "index"} => Receipt(a)
          BY <1>6, <2>3 DEF Find, Ready, Stamp, Throw, Die, Smooth
        <4>4. QED
          BY <4>1, <4>2, <4>3
      <3>3. QED
        BY <1>2, <1>3, <2>1, <2>3, <3>1, <3>2, TurnHere
    <2>4. QED
      BY <2>2, <2>3
  <1>7. QED
    BY <1>2, <1>4, <1>5, <1>6

\* An attempt that writes a row: its own event has nothing sent, or is found.
LEMMA RowStep ==
    ASSUME IInv, RetryInv, NEW e \in Smooth, NEW a \in Attempts,
           NotReady(a) \/ Index(a) \/ Mark(a)
    PROVE  Once(e)' /\ Turn(e)'
  <1>1. UNCHANGED <<anchors, sent, mined>>
    BY DEF NotReady, Index, Mark, chainVars
  <1>2. /\ SentFor(e)' = SentFor(e) /\ Once(e)' /\ Turn(e) /\ e # None /\ AttemptsOK /\ IndexOK
    BY <1>1, OnceKeeps, AnchoringAssumption DEF RetryInv, Smooth, IInv, TypeOK
  <1>3. \A b \in Attempts \ {a} : subject'[b] = subject[b] /\ step'[b] = step[b]
    BY Movers DEF Acts
  <1>4. /\ subject[a] \in Hashes /\ reuse[a] \in Rows \cup {None}
        /\ reuse[a] # None => index[reuse[a]].hash = subject[a]
    BY <1>2 DEF NotReady, Index, Mark, IInv, AttemptsOK, SubjectInv, RetryInv, HoldsInv
  <1>5. subject'[a] \in {subject[a], None} /\ (step'[a] = "idle" \/ step'[a] = "stamp")
    BY <1>2 DEF NotReady, Index, Mark, Return, Goto, AttemptsOK
  <1>6. step[a] = "index" => Index(a) /\ tx[a] \in Nat /\ tx[a] # None
    BY AnchoringAssumption DEF NotReady, Index, Mark, IInv, TypeOK, AttemptInv, Txs
  <1>7. PICK data \in IndexRow :
          /\ data.hash = subject[a] /\ Upsert(reuse[a], data)
          /\ step[a] = "index" => data.tx # None
    <2>1. CASE NotReady(a)
      <3>1. step[a] = "ready" /\ Upsert(reuse[a], [hash |-> subject[a], tx |-> None, failed |-> FALSE])
        BY <2>1 DEF NotReady
      <3>2. QED
        BY <1>4, <3>1 DEF IndexRow
    <2>2. CASE Index(a)
      <3>1. step[a] = "index" /\ Upsert(reuse[a], [hash |-> subject[a], tx |-> tx[a], failed |-> FALSE])
        BY <2>2 DEF Index
      <3>2. /\ [hash |-> subject[a], tx |-> tx[a], failed |-> FALSE] \in IndexRow
            /\ tx[a] # None
        BY <1>4, <1>6, <3>1 DEF IndexRow
      <3>3. QED
        BY <3>1, <3>2
    <2>3. CASE Mark(a)
      <3>1. step[a] = "mark" /\ Upsert(reuse[a], [hash |-> subject[a], tx |-> None, failed |-> TRUE])
        BY <2>3 DEF Mark
      <3>2. QED
        BY <1>4, <3>1 DEF IndexRow
    <2>4. QED
      BY <2>1, <2>2, <2>3
  <1>8. CASE subject[a] # e
    <2>1. Verdict(e)' = Verdict(e)
      BY <1>2, <1>4, <1>7, <1>8, VerdictKeeps
    <2>2. QED
      BY <1>2, <1>3, <1>5, <1>8, <2>1, TurnElsewhere
  <1>9. CASE subject[a] = e
    <2>1. SentFor(e) => Verdict(e)' = "MATCH"
      <3>1. CASE step[a] = "index"
        BY <1>2, <1>4, <1>7, <1>9, <3>1, VerdictFinds
      <3>2. CASE step[a] \in {"ready", "mark"}
        BY <1>2, <1>9, <3>2 DEF Turn
      <3>3. QED
        BY <3>1, <3>2 DEF NotReady, Index, Mark
    <2>2. QED
      BY <1>2, <1>3, <1>5, <1>9, <2>1, TurnHere
  <1>10. QED
    BY <1>8, <1>9

\* An attempt that sends: it is its turn, so nothing was sent for its event before.
LEMMA SendOnce ==
    ASSUME IInv, RetryInv, NEW e \in Smooth, NEW a \in Attempts, Send(a)
    PROVE  Once(e)' /\ Turn(e)'
  <1>1. /\ UNCHANGED <<anchors, mined, index, newer, subject>>
        /\ step[a] = "send" /\ subject[a] \in Hashes /\ Once(e) /\ Turn(e) /\ AttemptsOK
        /\ sent \in Seq(Hashes) /\ mined \subseteq Txs
    BY DEF Send, chainVars, RetryInv, IInv, TypeOK, SubjectInv
  <1>2. /\ Txs' = Txs \cup {Len(sent) + 1} /\ Len(sent) + 1 \notin Txs
        /\ sent'[Len(sent) + 1] = subject[a] /\ \A t \in Txs : sent'[t] = sent[t]
    BY <1>1, AppendKeeps DEF Send, Txs
  <1>3. Verdict(e)' = Verdict(e) /\ OnChain(e)' = OnChain(e)
    BY <1>1, SameVerdict DEF OnChain
  <1>4. step'[a] = "receipt" /\ \A b \in Attempts \ {a} : step'[b] = step[b]
    BY <1>1 DEF Send, Goto, AttemptsOK
  <1>5. CASE subject[a] # e
    <2>1. SentFor(e)' = SentFor(e) /\ Once(e)'
      BY <1>1, <1>2, <1>3, <1>5 DEF SentFor, Once
    <2>2. Turn(e)'
      BY <1>1, <1>3, <1>4, <1>5, <2>1, TurnElsewhere
    <2>3. QED
      BY <2>1, <2>2
  <1>6. CASE subject[a] = e
    <2>1. \A t \in Txs : sent[t] # e
      BY <1>1, <1>6 DEF Turn, SentFor
    <2>2. Once(e)'
      BY <1>1, <1>2, <1>3, <2>1 DEF Once
    <2>3. Turn(e)'
      BY <1>1, <1>4, <1>6 DEF Turn
    <2>4. QED
      BY <2>2, <2>3
  <1>7. QED
    BY <1>5, <1>6

\* A transaction is mined: it is the only one of its event, so the event was not on
\* the chain.
LEMMA MineOnce ==
    ASSUME IInv, RetryInv, NEW e \in Smooth, NEW t \in Txs, Mine(t)
    PROVE  Once(e)' /\ Turn(e)'
  <1>1. /\ UNCHANGED <<sent, index, newer, step, subject>> /\ mined' = mined \cup {t} /\ t \notin mined
        /\ anchors' = Append(anchors, [batchId |-> BatchOf[sent[t]], dataHash |-> sent[t]])
        /\ Once(e) /\ Turn(e) /\ mined \subseteq Txs
    BY DEF Mine, attemptVars, anchorEvidence, RetryInv, IInv, TypeOK
  <1>2. sent[t] \in Hashes /\ anchors \in Seq(AnchorSet)
        /\ [batchId |-> BatchOf[sent[t]], dataHash |-> sent[t]] \in AnchorSet
    BY AnchoringAssumption DEF IInv, TypeOK, Txs, AnchorSet
  <1>3. /\ Len(anchors) \in Nat /\ Len(anchors') = Len(anchors) + 1
        /\ anchors'[Len(anchors) + 1].dataHash = sent[t]
        /\ \A i \in 1..Len(anchors) : anchors'[i] = anchors[i]
    BY <1>1, <1>2, AppendKeeps
  <1>4. OnChain(e)' = IF sent[t] = e THEN OnChain(e) \cup {Len(anchors) + 1} ELSE OnChain(e)
    BY <1>3 DEF OnChain
  <1>5. Verdict(e)' = Verdict(e) /\ SentFor(e)' = SentFor(e) /\ Txs' = Txs
    BY <1>1, SameVerdict DEF SentFor, Txs
  <1>6. Turn(e)'
    BY <1>1, <1>5 DEF Turn
  <1>7. CASE sent[t] = e
    <2>1. OnChain(e) = {}
      BY <1>1, <1>7 DEF Once
    <2>2. QED
      BY <1>1, <1>4, <1>5, <1>6, <1>7, <2>1 DEF Once
  <1>8. CASE sent[t] # e
    BY <1>1, <1>4, <1>5, <1>6, <1>8 DEF Once
  <1>9. QED
    BY <1>7, <1>8

\* Every step keeps the invariant of the retries.
LEMMA RetryStep == ASSUME IInv, RetryInv, [Next]_vars PROVE RetryInv'
  <1>1. CASE UNCHANGED vars
    <2>1. UNCHANGED <<anchors, sent, mined, index, newer, step, subject, reuse, overlapped, troubled>>
      BY <1>1 DEF vars, chainVars, attemptVars, historyVars
    <2>2. HoldsInv' /\ Smooth' = Smooth
      BY <2>1 DEF RetryInv, HoldsInv, Smooth
    <2>3. ASSUME NEW e \in Smooth PROVE Once(e)' /\ Turn(e)'
      <3>1. SentFor(e)' = SentFor(e) /\ Once(e)' /\ Verdict(e)' = Verdict(e) /\ Turn(e)
        BY <2>1, OnceKeeps, SameVerdict DEF RetryInv
      <3>2. QED
        BY <2>1, <3>1 DEF Turn
    <2>4. QED
      BY <2>2, <2>3 DEF RetryInv
  <1>2. ASSUME NEW a \in Attempts, Acts(a) PROVE RetryInv'
    <2>1. HoldsInv'
      BY <1>2, HoldsStep DEF RetryInv
    <2>2. ASSUME NEW e \in Smooth' PROVE Once(e)' /\ Turn(e)'
      <3>1. e \in Smooth
        BY SmoothStep
      <3>2. QED
        BY <1>2, <3>1, QuietStep, RowStep, SendOnce DEF Acts
    <2>3. QED
      BY <2>1, <2>2 DEF RetryInv
  <1>3. ASSUME NEW t \in Txs, Mine(t) PROVE RetryInv'
    <2>1. HoldsInv'
      BY <1>3 DEF Mine, attemptVars, RetryInv, HoldsInv
    <2>2. ASSUME NEW e \in Smooth' PROVE Once(e)' /\ Turn(e)'
      <3>1. e \in Smooth
        BY SmoothStep
      <3>2. QED
        BY <1>3, <3>1, MineOnce
    <2>3. QED
      BY <2>1, <2>2 DEF RetryInv
  <1>4. QED
    BY <1>1, <1>2, <1>3 DEF Next, Acts

\* Where no two attempts for an event overlapped and none failed after it had sent,
\* the event is on the chain at most once, and once nobody is at work on it the
\* verifier says MATCH exactly if it is there (RetryIsIdempotent): however often a
\* retry runs into an outage before sending (findReusable, upsertIndex).
THEOREM RetryIsIdempotentHolds == Spec => []RetryIsIdempotent
  <1>1. IInv /\ RetryInv => RetryIsIdempotent
    <2> SUFFICES ASSUME IInv, RetryInv, NEW e \in Smooth
                 PROVE  /\ Cardinality(OnChain(e)) <= 1
                        /\ (\A a \in Attempts : subject[a] # e) =>
                             (Verdict(e) = "MATCH" <=> OnChain(e) # {})
      BY DEF RetryIsIdempotent, Smooth
    <2>1. Once(e) /\ Turn(e) /\ e \in Evidence
      BY DEF RetryInv, Smooth
    <2>2. Cardinality(OnChain(e)) <= 1
      <3>1. CASE OnChain(e) = {}
        BY <3>1, FS_EmptySet
      <3>2. CASE OnChain(e) # {}
        <4>1. PICK i : OnChain(e) = {i}
          BY <2>1, <3>2 DEF Once
        <4>2. QED
          <5>1. Cardinality({i}) = 1
            BY FS_Singleton
          <5>2. QED
            BY <4>1, <5>1
      <3>3. QED
        BY <3>1, <3>2
    <2>3. Verdict(e) = "MATCH" => OnChain(e) # {}
      BY <2>1, InvMatch DEF MatchIsOnChain
    <2>4. OnChain(e) # {} => SentFor(e)
      BY <2>1 DEF Once, SentFor, IInv, TypeOK
    <2>5. QED
      BY <2>1, <2>2, <2>3, <2>4 DEF Turn
  <1>2. Init => RetryInv
    BY RetryInit
  <1>3. IInv /\ RetryInv /\ [Next]_vars => RetryInv'
    BY RetryStep
  <1>4. QED
    BY <1>1, <1>2, <1>3, Invariance, PTL DEF Spec

===============================================================================
