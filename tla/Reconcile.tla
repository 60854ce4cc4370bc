------------------------------- MODULE Reconcile -------------------------------
(***************************************************************************)
(* What was expected against what was received                             *)
(* (batches/movement-reconciliation.ts, batches/reconciliation.ts), in     *)
(* litres.  A quantity nobody gave is NoLitres.                            *)
(***************************************************************************)
EXTENDS Integers, Sequences, Functions

NoLitres == -1000000

Abs(n) == IF n < 0 THEN -n ELSE n

\* Half a percent, and at least 20 litres.
demoToleranceLiters(expected) == IF expected > 4000 THEN expected \div 200 ELSE 20

\* One movement, from the two quantities its RECEIVED event carries.
reconcileMovement(expected, received) ==
    CASE NoLitres \in {expected, received} -> "INCOMPLETE"
      [] received = expected -> "MATCH"
      [] received # expected /\ Abs(received - expected) <= demoToleranceLiters(expected) ->
           "WITHIN_TOLERANCE"
      [] OTHER -> "ANOMALY"

Severity(expected, received) ==
    IF expected = 0 \/ 10 * Abs(received - expected) >= expected THEN "HIGH" ELSE "MEDIUM"

\* The latest quantity among the events of a kind: measured, else declared.  Events
\* are numbered in their order.
volumeFromCustody(events, kind) ==
    LET given == {i \in DOMAIN events :
                    /\ events[i].kind = kind
                    /\ {events[i].measured, events[i].declared} # {NoLitres}}
        last == events[CHOOSE i \in given : \A j \in given : j <= i]
    IN CASE given = {} -> NoLitres
         [] given # {} /\ last.measured # NoLitres -> last.measured
         [] OTHER -> last.declared

\* The verdict on every reception of a batch.
reconcileReceivedEvents(events) ==
    [i \in {j \in DOMAIN events : events[j].kind = "RECEIVED"} |->
       reconcileMovement(events[i].declared, events[i].measured)]

\* What all receptions together lack or have too much.
MovementGap(events) ==
    LET complete == {i \in DOMAIN events :
                       /\ events[i].kind = "RECEIVED"
                       /\ NoLitres \notin {events[i].measured, events[i].declared}}
    IN SumFunction([i \in complete |-> events[i].measured - events[i].declared])

\* The quantities of a passport: the figures that are known, from the declaration to
\* the latest measurement, each against the one before; and the movements.
buildQuantityReconciliation(declared, events, sensor) ==
    LET received == volumeFromCustody(events, "RECEIVED")
        steps == <<declared, received, volumeFromCustody(events, "STORED"), sensor>>
        present == SelectSeq(steps, LAMBDA litres : litres # NoLitres)
    IN [received |-> received, sensor |-> sensor,
        deltas |-> [i \in 1..(Len(present) - 1) |-> present[i + 1] - present[i]],
        movements |-> reconcileReceivedEvents(events),
        totalGapLiters |-> MovementGap(events)]
===============================================================================
