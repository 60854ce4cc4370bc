----------------------------- MODULE BatchStatus -----------------------------
(***************************************************************************)
(* The lifecycle rules of a fuel batch (common/batch-status.ts): which     *)
(* status may follow which, and in which statuses a batch may still be     *)
(* dispatched or received.  Every service that writes FuelBatch.status     *)
(* decides with these predicates, or decides nothing at all.               *)
(***************************************************************************)
EXTENDS Naturals

\* The forward order; AUDIT_REQUIRED stands outside it.
FORWARD == << "DRAFT", "AUTHORIZED", "IN_TRANSIT", "AT_BORDER", "CUSTOMS",
              "RECEIVED", "SAMPLING", "LAB_ANALYSIS", "CERTIFIED", "STORED",
              "DISTRIBUTING", "DELIVERED", "COMPLETED" >>

Stages == {FORWARD[i] : i \in 1..13}

BatchStatuses == Stages \cup {"AUDIT_REQUIRED"}

\* FORWARD.indexOf(status)
Rank(status) == CHOOSE i \in 1..13 : FORWARD[i] = status

CanTransition(from, to) ==
    \/ from = to
    \/ to = "AUDIT_REQUIRED"
    \/ from = "AUDIT_REQUIRED" /\ to # "DRAFT"
    \/ {from, to} \subseteq Stages /\ Rank(from) <= Rank(to)

\* A transport QR: not from a draft nor from a batch already closed.
CanIssueQr(status) == status \notin {"DRAFT", "COMPLETED", "DELIVERED"}

\* A reception: the batch is on its way or beyond, and not closed.
CanReceiveBatch(status) ==
    status \notin {"DRAFT", "AUTHORIZED", "DELIVERED", "COMPLETED"}

===============================================================================
