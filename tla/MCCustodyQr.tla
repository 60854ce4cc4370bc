----------------------------- MODULE MCCustodyQr -----------------------------
(* Small instances of CustodyQr for TLC. *)
EXTENDS CustodyQr, TLC

CONSTANTS t1, t2, t3, b1, b2, c1, c2, s1, s2, u1, u2, r1, r2

NoPaper == <<>>
PaperOfB1 == (t3 :> [batch |-> b1, cistern |-> None, station |-> None, vol |-> 1])

OneAdmin == (u1 :> "ADMIN")
Crew == (u1 :> "TRANSPORTER" @@ u2 :> "DEPOT_OPERATOR")

LitresReported == {-1, 2}
Litres1 == [b \in Batches |-> 1]
Litres2 == [b \in Batches |-> 2]
Litres3 == [b \in Batches |-> 3]
Cap2 == [c \in Cisterns |-> 2]
NoDriver == [c \in Cisterns |-> None]
Driver1 == (c1 :> u1 @@ c2 :> None)
TankCap2 == [s \in Tanked |-> 2]
TankCap3 == [s \in Tanked |-> 3]
TankEmpty == [s \in Tanked |-> 0]

Symmetry == Permutations(Requests) \cup Permutations(Tokens \ Paper) \cup Permutations(Cisterns)
===============================================================================
