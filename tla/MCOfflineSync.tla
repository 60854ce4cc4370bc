---------------------------- MODULE MCOfflineSync ----------------------------
(* Small instances of OfflineSync for TLC. *)
EXTENDS OfflineSync, TLC

Symmetry == Permutations(Events) \cup Permutations(Tokens) \cup Permutations(Uploads)
===============================================================================
