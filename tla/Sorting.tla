-------------------------------- MODULE Sorting --------------------------------
(***************************************************************************)
(* What a database or a page does to a list before it is shown: it puts    *)
(* the rows in an order, keeps some of them, takes the first few.  An      *)
(* element's place is given by how many others stand before it, which      *)
(* determines it when the order is strict and total.                       *)
(***************************************************************************)
EXTENDS Naturals, Sequences, FiniteSets

\* Elements of S that stand before x.
Below(S, order, x) == Cardinality({y \in S : <<y, x>> \in order})

\* The elements of S, one after another.
Sorted(S, order) ==
    [n \in 1..Cardinality(S) |-> CHOOSE x \in S : Below(S, order, x) = n - 1]

Ascending(K) == {p \in K \X K : p[1] < p[2]}

\* What a list has at some positions, taken in their order (SubSeq lets TLC look it up once).
Taken(list, order) == SubSeq([n \in DOMAIN order |-> list[order[n]]], 1, Cardinality(DOMAIN order))

\* What a list has at the positions K, in the order it has them.
KeptAt(list, K) == Taken(list, Sorted(K, Ascending(K)))

FirstOf(n, list) == SubSeq(list, 1, IF Len(list) < n THEN Len(list) ELSE n)
===============================================================================
