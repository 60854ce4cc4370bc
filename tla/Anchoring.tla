------------------------------ MODULE Anchoring ------------------------------
(***************************************************************************)
(* Evidence of receptions on the chain (blockchain/blockchain.service.ts): *)
(* after a reception, and again whenever somebody retries, the hash of its *)
(* event is sent to the contract, and the outcome is indexed in a row of   *)
(* BlockchainAnchor.  anchorLive does the same for a hash of its own,      *)
(* without looking for a row to reuse.                                     *)
(*                                                                         *)
(* The content of an event never changes, so an event stands for its hash. *)
(* An attempt awaits the database and the chain between its steps; several *)
(* attempts for one event may be under way.                                *)
(***************************************************************************)
EXTENDS FuelChain, FiniteSets

CONSTANTS Evidence,   \* RECEIVED events
          Notes,      \* hashes of live anchors
          BatchOf,    \* the batch of each event and of each live anchor
          Attempts,   \* requests the server runs at once
          MaxTx,      \* bound: transactions sent
          MaxRows,    \* bound: rows of the index
          None

ASSUME AnchoringAssumption ==
    /\ Hashes = Evidence \cup Notes /\ Evidence \cap Notes = {}
    /\ BatchOf \in [Hashes -> BatchIds]
    /\ MaxTx \in Nat /\ MaxRows \in Nat /\ None \notin Hashes \cup Nat

VARIABLES sent,       \* what each transaction anchors, in the order of sending
          mined,      \* the transactions that are on the chain
          index,      \* BlockchainAnchor rows, in the order of creation
          newer,      \* pairs of rows: the first was written after the second
          stamp,      \* CustodyEvent.transactionHash of each event
          step,       \* of each attempt: the next call of the handler
          subject,    \* what it anchors
          reuse,      \* the row it found to write into
          tx,         \* the transaction it sent
          overlapped, \* events two attempts were at work on at once
          troubled    \* events an attempt failed on otherwise than before sending

attemptVars == <<step, subject, reuse, tx>>
historyVars == <<overlapped, troubled>>
vars == <<chainVars, sent, mined, index, newer, stamp, attemptVars, historyVars>>

Txs == 1..Len(sent)
Rows == 1..Len(index)

Init ==
    /\ ChainInit
    /\ sent = <<>> /\ mined = {} /\ index = <<>> /\ newer = {}
    /\ stamp = [e \in Evidence |-> None]
    /\ step = [a \in Attempts |-> "idle"]
    /\ subject = [a \in Attempts |-> None]
    /\ reuse = [a \in Attempts |-> None]
    /\ tx = [a \in Attempts |-> None]
    /\ overlapped = {} /\ troubled = {}

-------------------------------------------------------------------------------
(* The index. *)

\* deriveAnchorStatus
Status(r) == IF r.tx # None THEN "CONFIRMED" ELSE IF r.failed THEN "FAILED" ELSE "PENDING"

\* The rows of an event; those of them that are confirmed; the latest of some rows.
RowsOf(e) == {r \in Rows : index[r].hash = e}
ConfirmedOf(e) == {r \in RowsOf(e) : Status(index[r]) = "CONFIRMED"}
Latest(R) == {r \in R : \A s \in R \ {r} : <<r, s>> \in newer}

\* selectReusableAnchor: the latest confirmed row if there is one, else the latest.
Reusable(e) ==
    IF ConfirmedOf(e) # {} THEN Latest(ConfirmedOf(e))
    ELSE IF RowsOf(e) # {} THEN Latest(RowsOf(e)) ELSE {None}

Touch(r) == {p \in newer : r \notin {p[1], p[2]}} \cup ({r} \X (Rows \ {r}))

\* upsertIndex: into row r, or into a new one; every column is written.
Upsert(r, data) ==
    \/ /\ r = None /\ Len(index) < MaxRows
       /\ index' = Append(index, data)
       /\ newer' = Touch(Len(index) + 1)
    \/ /\ r # None
       /\ index' = [index EXCEPT ![r] = data]
       /\ newer' = Touch(r)

\* What verifyCustodyEvidence answers about an event: the latest row decides.
Verdict(e) ==
    IF \E r \in Latest(RowsOf(e)) : Status(index[r]) = "CONFIRMED"
    THEN "MATCH" ELSE "MISMATCH"

-------------------------------------------------------------------------------
(* An attempt. *)

Goto(a, s) == step' = [step EXCEPT ![a] = s]

Return(a) ==
    /\ Goto(a, "idle")
    /\ subject' = [subject EXCEPT ![a] = None]
    /\ reuse' = [reuse EXCEPT ![a] = None]
    /\ tx' = [tx EXCEPT ![a] = None]

\* afterReceived, once the reception has committed, or a retry.
Begin(a, e) ==
    /\ step[a] = "idle"
    /\ Goto(a, "find")
    /\ subject' = [subject EXCEPT ![a] = e]
    /\ overlapped' = IF \E b \in Attempts : subject[b] = e
                     THEN overlapped \cup {e} ELSE overlapped
    /\ UNCHANGED <<chainVars, sent, mined, index, newer, stamp, reuse, tx, troubled>>

\* anchorLive
BeginLive(a, n) ==
    /\ step[a] = "idle"
    /\ Goto(a, "send")
    /\ subject' = [subject EXCEPT ![a] = n]
    /\ UNCHANGED <<chainVars, sent, mined, index, newer, stamp, reuse, tx, historyVars>>

\* Slip: a confirmed row does not end the attempt.
FindUnconfirmed(a) ==
    /\ step[a] = "find"
    /\ \E r \in Reusable(subject[a]) : reuse' = [reuse EXCEPT ![a] = r]
    /\ Goto(a, "ready") /\ UNCHANGED <<subject, tx>>
    /\ UNCHANGED <<chainVars, sent, mined, index, newer, stamp, historyVars>>

\* findReusable: a confirmed row ends the attempt.
Find(a) ==
    /\ step[a] = "find"
    /\ \/ ConfirmedOf(subject[a]) # {} /\ Return(a)
       \/ /\ ConfirmedOf(subject[a]) = {}
          /\ \E r \in Reusable(subject[a]) : reuse' = [reuse EXCEPT ![a] = r]
          /\ Goto(a, "ready") /\ UNCHANGED <<subject, tx>>
    /\ UNCHANGED <<chainVars, sent, mined, index, newer, stamp, historyVars>>

\* chainReady: without a contract or a key the row says so and the attempt ends.
NotReady(a) ==
    /\ step[a] = "ready"
    /\ Upsert(reuse[a], [hash |-> subject[a], tx |-> None, failed |-> FALSE])
    /\ Return(a)
    /\ UNCHANGED <<chainVars, sent, mined, stamp, historyVars>>

Ready(a) ==
    /\ step[a] = "ready"
    /\ Goto(a, "send")
    /\ UNCHANGED <<chainVars, sent, mined, index, newer, stamp, subject, reuse, tx, historyVars>>

\* Slip: the receipt is not waited for.
SendOnly(a) ==
    /\ step[a] = "send" /\ Len(sent) < MaxTx
    /\ sent' = Append(sent, subject[a])
    /\ tx' = [tx EXCEPT ![a] = Len(sent) + 1]
    /\ Goto(a, "index")
    /\ UNCHANGED <<chainVars, mined, index, newer, stamp, subject, reuse, historyVars>>

\* writeContract
Send(a) ==
    /\ step[a] = "send" /\ Len(sent) < MaxTx
    /\ sent' = Append(sent, subject[a])
    /\ tx' = [tx EXCEPT ![a] = Len(sent) + 1]
    /\ Goto(a, "receipt")
    /\ UNCHANGED <<chainVars, mined, index, newer, stamp, subject, reuse, historyVars>>

\* waitForTransactionReceipt
Receipt(a) ==
    /\ step[a] = "receipt" /\ tx[a] \in mined
    /\ Goto(a, "index")
    /\ UNCHANGED <<chainVars, sent, mined, index, newer, stamp, subject, reuse, tx, historyVars>>

\* The row is written; a live anchor ends here.
Index(a) ==
    /\ step[a] = "index"
    /\ Upsert(reuse[a], [hash |-> subject[a], tx |-> tx[a], failed |-> FALSE])
    /\ IF subject[a] \in Evidence
       THEN Goto(a, "stamp") /\ UNCHANGED <<subject, reuse, tx>>
       ELSE Return(a)
    /\ UNCHANGED <<chainVars, sent, mined, stamp, historyVars>>

\* Slip: the event gets the row's id.
StampRow(a) ==
    /\ step[a] = "stamp"
    /\ stamp' = [stamp EXCEPT ![subject[a]] = reuse[a]]
    /\ Return(a)
    /\ UNCHANGED <<chainVars, sent, mined, index, newer, historyVars>>

\* The event gets the hash of the transaction.
Stamp(a) ==
    /\ step[a] = "stamp"
    /\ stamp' = [stamp EXCEPT ![subject[a]] = tx[a]]
    /\ Return(a)
    /\ UNCHANGED <<chainVars, sent, mined, index, newer, historyVars>>

\* Any call may throw.  A retry or a follow-up looks for a row again and marks
\* it; a live anchor just fails.
Throw(a) ==
    /\ step[a] \in {"find", "ready", "send", "receipt", "index", "stamp"}
    /\ IF subject[a] \in Evidence
       THEN /\ Goto(a, "mark")
            /\ \E r \in Reusable(subject[a]) : reuse' = [reuse EXCEPT ![a] = r]
            /\ UNCHANGED <<subject, tx>>
       ELSE Return(a)
    /\ troubled' = IF step[a] \in {"ready", "send"} THEN troubled
                   ELSE troubled \cup {subject[a]}
    /\ UNCHANGED <<chainVars, sent, mined, index, newer, stamp, overlapped>>

\* The failure is written over whatever the row said.
Mark(a) ==
    /\ step[a] = "mark"
    /\ Upsert(reuse[a], [hash |-> subject[a], tx |-> None, failed |-> TRUE])
    /\ Return(a)
    /\ UNCHANGED <<chainVars, sent, mined, stamp, historyVars>>

\* The process stops, or even the mark fails.
Die(a) ==
    /\ step[a] # "idle"
    /\ troubled' = IF step[a] \in {"find", "ready", "send"} THEN troubled
                   ELSE troubled \cup {subject[a]}
    /\ Return(a)
    /\ UNCHANGED <<chainVars, sent, mined, index, newer, stamp, overlapped>>

\* A transaction that was sent is mined, whether anybody waits for it or not.
Mine(t) ==
    /\ t \in Txs \ mined
    /\ mined' = mined \cup {t}
    /\ anchorEvidence(BatchOf[sent[t]], sent[t])
    /\ UNCHANGED <<sent, index, newer, stamp, attemptVars, historyVars>>

Next ==
    \/ \E a \in Attempts :
         \/ \E e \in Evidence : Begin(a, e)
         \/ \E n \in Notes : BeginLive(a, n)
         \/ Find(a) \/ NotReady(a) \/ Ready(a) \/ Send(a) \/ Receipt(a) \/ Index(a)
         \/ Stamp(a) \/ Throw(a) \/ Mark(a) \/ Die(a)
    \/ \E t \in Txs : Mine(t)

Spec == Init /\ [][Next]_vars

-------------------------------------------------------------------------------
(* Properties. *)

IndexRow == [hash : Hashes, tx : Nat \cup {None}, failed : BOOLEAN]

\* Part of TypeOK: of two rows, one was written after the other.
IndexOK ==
    /\ index \in Seq(IndexRow)
    /\ newer \subseteq Rows \X Rows
    /\ \A r, s \in Rows : r # s => (<<r, s>> \in newer <=> <<s, r>> \notin newer)

\* Part of TypeOK: the locals of the attempts.
AttemptsOK ==
    /\ step \in [Attempts -> {"idle", "find", "ready", "send", "receipt", "index", "stamp", "mark"}]
    /\ subject \in [Attempts -> Hashes \cup {None}]
    /\ reuse \in [Attempts -> Rows \cup {None}]
    /\ tx \in [Attempts -> Txs \cup {None}]

\* Chain, index and attempts have the types of the schema and of the code.
TypeOK ==
    /\ anchors \in Seq([batchId : BatchIds, dataHash : Hashes])
    /\ batchAnchorIndexes \in [BatchIds -> Seq(Nat)]
    /\ sent \in Seq(Hashes) /\ mined \subseteq Txs
    /\ IndexOK
    /\ stamp \in [Evidence -> Txs \cup {None}]
    /\ AttemptsOK
    /\ overlapped \subseteq Evidence /\ troubled \subseteq Hashes

OnChain(h) == {i \in 1..Len(anchors) : anchors[i].dataHash = h}

\* The verifier never says MATCH, and an event never names a transaction,
\* without the hash of that very event being on the chain: not while receipts
\* are awaited, and not when attempts write into each other's rows.
MatchIsOnChain ==
    \A e \in Evidence : Verdict(e) = "MATCH" \/ stamp[e] # None => OnChain(e) # {}

\* Where no two attempts for an event overlapped and none failed after it had
\* sent, the event is on the chain at most once, and once nobody is at work on
\* it the index says what the chain says: retries after outages are idempotent.
RetryIsIdempotent ==
    \A e \in Evidence \ (overlapped \cup troubled) :
      /\ Cardinality(OnChain(e)) <= 1
      /\ (\A a \in Attempts : subject[a] # e) =>
           (Verdict(e) = "MATCH" <=> OnChain(e) # {})

===============================================================================
