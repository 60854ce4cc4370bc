----------------------------- MODULE MCAnchoring -----------------------------
(* Small instances of Anchoring for TLC. *)
EXTENDS Anchoring, TLC

CONSTANTS v1, n1, x1, x2, k1, k2

HashesAll == Evidence \cup Notes
BatchesOf == [h \in Evidence \cup Notes |-> IF h \in Notes THEN k2 ELSE k1]

Symmetry == Permutations(Attempts)
===============================================================================
