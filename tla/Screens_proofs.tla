----------------------------- MODULE Screens_proofs -----------------------------
(***************************************************************************)
(* What is shown: the two views of a station, the supervisors' panel, the  *)
(* scanner and its history, for any number of trips, departments, codes    *)
(* and visits, and whatever size the windows have.                         *)
(***************************************************************************)
EXTENDS Stations, Screens, FiniteSetTheorems, WellFoundedInduction, TLAPS

-------------------------------------------------------------------------------
(* Sorting. *)

\* A strict and total order on S.
Orders(order, S) ==
    /\ \A x \in S : <<x, x>> \notin order
    /\ \A x, y, z \in S : <<x, y>> \in order /\ <<y, z>> \in order => <<x, z>> \in order
    /\ \A x, y \in S : x # y => <<x, y>> \in order \/ <<y, x>> \in order

\* Of two elements the later has more before it.
LEMMA BelowGrows ==
    ASSUME NEW S, IsFiniteSet(S), NEW order, Orders(order, S), NEW x \in S, NEW y \in S,
           <<x, y>> \in order
    PROVE  Below(S, order, x) < Below(S, order, y)
<1> DEFINE A == {z \in S : <<z, x>> \in order}
           B == {z \in S : <<z, y>> \in order}
<1>1. IsFiniteSet(A) /\ IsFiniteSet(B)
  BY FS_Subset
<1>2. A \subseteq B /\ x \in B /\ x \notin A
  BY DEF Orders
<1>3. Cardinality(A) <= Cardinality(B) /\ Cardinality(A) # Cardinality(B)
  BY <1>1, <1>2, FS_Subset
<1>4. Cardinality(A) \in Nat /\ Cardinality(B) \in Nat
  BY <1>1, FS_CardinalityType
<1>5. QED BY <1>3, <1>4 DEF Below

\* No two elements have the same number before them, and none has all.
LEMMA BelowIsPlace ==
    ASSUME NEW S, IsFiniteSet(S), NEW order, Orders(order, S)
    PROVE  /\ \A x \in S : Below(S, order, x) \in Nat
           /\ \A x \in S : Below(S, order, x) + 1 \in 1..Cardinality(S)
           /\ \A x, y \in S : Below(S, order, x) = Below(S, order, y) => x = y
<1>1. /\ Cardinality(S) \in Nat
      /\ \A x \in S : Below(S, order, x) \in Nat
  <2>1. ASSUME NEW x \in S PROVE IsFiniteSet({z \in S : <<z, x>> \in order})
    BY FS_Subset
  <2>2. QED BY <2>1, FS_CardinalityType DEF Below
<1>2. ASSUME NEW x \in S PROVE Below(S, order, x) + 1 \in 1..Cardinality(S)
  <2> DEFINE A == {z \in S : <<z, x>> \in order}
  <2>1. A \in SUBSET (S \ {x})
    BY DEF Orders
  <2>2. IsFiniteSet(S \ {x}) /\ Cardinality(S \ {x}) = Cardinality(S) - 1
    BY FS_RemoveElement
  <2> HIDE DEF A
  <2>3. IsFiniteSet(A) /\ Cardinality(A) <= Cardinality(S) - 1
    BY <2>1, <2>2, FS_Subset
  <2>4. Cardinality(A) \in Nat
    BY <2>3, FS_CardinalityType
  <2>5. QED BY <1>1, <2>3, <2>4 DEF Below, A
<1>3. ASSUME NEW x \in S, NEW y \in S, x # y
      PROVE  Below(S, order, x) # Below(S, order, y)
  <2>1. Below(S, order, x) \in Nat /\ Below(S, order, y) \in Nat
    BY <1>1
  <2>2. CASE <<x, y>> \in order
    BY <2>1, <2>2, BelowGrows
  <2>3. CASE <<y, x>> \in order
    BY <2>1, <2>3, BelowGrows
  <2>4. QED BY <1>3, <2>2, <2>3 DEF Orders
<1>4. QED BY <1>1, <1>2, <1>3

\* Sorting puts every element at its place, once.
LEMMA SortedIs ==
    ASSUME NEW S, IsFiniteSet(S), NEW order, Orders(order, S)
    PROVE  /\ Cardinality(S) \in Nat
           /\ DOMAIN Sorted(S, order) = 1..Cardinality(S)
           /\ \A n \in 1..Cardinality(S) : /\ Sorted(S, order)[n] \in S
                                           /\ Below(S, order, Sorted(S, order)[n]) = n - 1
           /\ \A x \in S : Sorted(S, order)[Below(S, order, x) + 1] = x
<1> DEFINE N == Cardinality(S)
           place == [x \in S |-> Below(S, order, x) + 1]
<1>1. N \in Nat
  BY FS_CardinalityType
<1>2. /\ \A x \in S : Below(S, order, x) + 1 \in 1..N /\ Below(S, order, x) \in Nat
      /\ \A x, y \in S : Below(S, order, x) = Below(S, order, y) => x = y
  BY BelowIsPlace
<1>3. place \in Injection(S, 1..N)
  <2>1. place \in [S -> 1..N]
    BY <1>2
  <2>2. \A x, y \in S : place[x] = place[y] => x = y
    BY <1>2
  <2> HIDE DEF place
  <2>3. QED BY <2>1, <2>2 DEF Injection, IsInjective
<1>4. IsFiniteSet(1..N) /\ Cardinality(1..N) = N
  BY <1>1, FS_Interval
<1>5. place \in Surjection(S, 1..N)
  BY <1>3, <1>4, FS_Injection
<1>6. ASSUME NEW n \in 1..N PROVE \E x \in S : Below(S, order, x) = n - 1
  <2>1. PICK x \in S : place[x] = n
    BY <1>5 DEF Surjection
  <2>2. QED BY <1>1, <1>2, <2>1
<1>7. ASSUME NEW n \in 1..N
      PROVE  Sorted(S, order)[n] \in S /\ Below(S, order, Sorted(S, order)[n]) = n - 1
  <2>1. Sorted(S, order)[n] = CHOOSE x \in S : Below(S, order, x) = n - 1
    BY DEF Sorted
  <2>2. QED BY <1>6, <2>1
<1>8. ASSUME NEW x \in S PROVE Sorted(S, order)[Below(S, order, x) + 1] = x
  <2>1. PICK n : n = Below(S, order, x) + 1
    OBVIOUS
  <2>2. n \in 1..N /\ Below(S, order, x) = n - 1
    BY <1>2, <2>1
  <2>3. QED BY <1>2, <1>7, <2>1, <2>2
<1>9. DOMAIN Sorted(S, order) = 1..N
  BY DEF Sorted
<1>10. QED BY <1>1, <1>7, <1>8, <1>9

\* The places are taken in the order.
LEMMA SortedFollows ==
    ASSUME NEW S, IsFiniteSet(S), NEW order, Orders(order, S),
           NEW m \in 1..Cardinality(S), NEW n \in 1..Cardinality(S), m < n
    PROVE  <<Sorted(S, order)[m], Sorted(S, order)[n]>> \in order
<1> DEFINE x == Sorted(S, order)[m]
           y == Sorted(S, order)[n]
<1>1. x \in S /\ y \in S /\ Below(S, order, x) = m - 1 /\ Below(S, order, y) = n - 1
  BY SortedIs
<1>2. Cardinality(S) \in Nat
  BY FS_CardinalityType
<1> HIDE DEF x, y
<1>3. x # y
  BY <1>1, <1>2
<1>4. ~(Below(S, order, y) < Below(S, order, x))
  BY <1>1, <1>2
<1>5. <<y, x>> \notin order
  BY <1>1, <1>4, BelowGrows
<1>6. <<x, y>> \in order
  BY <1>1, <1>3, <1>5 DEF Orders
<1>7. QED BY <1>6 DEF x, y

\* t has what a list has at the positions K, each once, those first that o names first.
Takes(t, o, list, K, order) ==
    /\ IsFiniteSet(K) /\ Cardinality(K) \in Nat /\ Len(t) = Cardinality(K)
    /\ \A n \in 1..Cardinality(K) : o[n] \in K /\ t[n] = list[o[n]]
    /\ \A i \in K : \E n \in 1..Cardinality(K) : o[n] = i
    /\ \A m, n \in 1..Cardinality(K) : m < n => <<o[m], o[n]>> \in order
    /\ \A m, n \in 1..Cardinality(K) : o[m] = o[n] => m = n

\* Rows taken in an order of some positions: one for each, the earlier position first.
LEMMA TakenIs ==
    ASSUME NEW C, NEW list \in Seq(C), NEW K \in SUBSET DOMAIN list, NEW order, Orders(order, K)
    PROVE  /\ Taken(list, Sorted(K, order)) \in Seq(C)
           /\ Takes(Taken(list, Sorted(K, order)), Sorted(K, order), list, K, order)
<1> DEFINE q == Sorted(K, order)
           c == Cardinality(K)
           all == [n \in 1..c |-> list[q[n]]]
<1>1. IsFiniteSet(K) /\ c \in Nat
  <2>1. IsFiniteSet(DOMAIN list)
    <3>1. Len(list) \in Nat /\ DOMAIN list = 1..Len(list)
      OBVIOUS
    <3>2. QED BY <3>1, FS_Interval
  <2>2. IsFiniteSet(K)
    BY <2>1, FS_Subset
  <2>3. QED BY <2>2, FS_CardinalityType
<1>2. /\ DOMAIN q = 1..c
      /\ \A n \in 1..c : q[n] \in K /\ Below(K, order, q[n]) = n - 1
      /\ \A i \in K : q[Below(K, order, i) + 1] = i /\ Below(K, order, i) + 1 \in 1..c
  BY <1>1, SortedIs, BelowIsPlace
<1>3. \A m, n \in 1..c : m < n => <<q[m], q[n]>> \in order
  BY <1>1, SortedFollows
<1>4. \A m, n \in 1..c : q[m] = q[n] => m = n
  BY <1>1, <1>2
<1>5. Cardinality(DOMAIN q) = c
  BY <1>1, <1>2, FS_Interval
<1>6. Taken(list, q) = SubSeq(all, 1, c)
  BY <1>2, <1>5 DEF Taken
<1> HIDE DEF q, c
<1>7. all \in [1..c -> C]
  BY <1>2
<1>8. all \in Seq(C) /\ Len(all) = c
  BY <1>1, <1>7
<1> HIDE DEF all
<1>9. SubSeq(all, 1, c) = all
  BY <1>1, <1>8
<1>10. \A n \in 1..c : all[n] = list[q[n]]
  BY DEF all
<1>11. \A i \in K : \E n \in 1..c : q[n] = i
  BY <1>2
<1>12. PICK t : t = Taken(list, q)
  OBVIOUS
<1>13. Takes(t, q, list, K, order)
  BY <1>1, <1>2, <1>3, <1>4, <1>6, <1>8, <1>9, <1>10, <1>11, <1>12 DEF Takes, c
<1>14. QED BY <1>6, <1>8, <1>9, <1>12, <1>13 DEF q

\* Numbers that ascend are in an order.
LEMMA AscendingOrders ==
    ASSUME NEW N \in Nat, NEW K \in SUBSET (1..N)
    PROVE  Orders(Ascending(K), K)
  BY DEF Orders, Ascending

-------------------------------------------------------------------------------
(* The two views of a station. *)

TripRows == [status : {"IN_TRANSIT", "DELIVERED"}, certified : BOOLEAN, reading : Readings,
             at : Nat]

\* Trips are received one after another.
StationsInv ==
    /\ trip \in Seq(TripRows)
    /\ \A d \in Delivered : trip[d].at \in 1..Cardinality(Delivered)
    /\ \A d, e \in Delivered : trip[d].at = trip[e].at => d = e

\* The trips of a station are finitely many.
LEMMA TripsAreFinite ==
    ASSUME StationsInv
    PROVE  /\ Len(trip) \in Nat /\ DOMAIN trip = 1..Len(trip)
           /\ IsFiniteSet(DOMAIN trip) /\ Cardinality(DOMAIN trip) = Len(trip)
           /\ IsFiniteSet(Delivered) /\ Cardinality(Delivered) \in Nat
           /\ IsFiniteSet(Open) /\ Cardinality(Open) \in Nat
           /\ \A d \in DOMAIN trip : trip[d] \in TripRows
<1>1. Len(trip) \in Nat /\ DOMAIN trip = 1..Len(trip) /\ \A d \in DOMAIN trip : trip[d] \in TripRows
  BY DEF StationsInv
<1>2. IsFiniteSet(DOMAIN trip) /\ Cardinality(DOMAIN trip) = Len(trip)
  BY <1>1, FS_Interval
<1>3. IsFiniteSet(Delivered) /\ IsFiniteSet(Open)
  BY <1>2, FS_Subset DEF Delivered, Open
<1>4. QED BY <1>1, <1>2, <1>3, FS_CardinalityType

\* Of received trips there is one that was received last.
LEMMA LastIsOne ==
    ASSUME StationsInv, Delivered # {}
    PROVE  /\ LastDelivered(Delivered) \in Delivered
           /\ \A e \in Delivered : trip[e].at <= trip[LastDelivered(Delivered)].at
<1> DEFINE before(d) == Cardinality(Delivered) - trip[d].at
           T == {before(d) : d \in Delivered}
<1>1. \A d \in Delivered : trip[d].at \in Int /\ before(d) \in Nat
  BY TripsAreFinite DEF StationsInv
<1>2. T \subseteq Nat /\ T # {}
  BY <1>1
<1> HIDE DEF T
<1>3. \E x \in T : \A y \in T : <<y, x>> \notin OpToRel(<, Nat)
  BY <1>2, NatLessThanWellFounded, WFMin, Zenon
<1>4. PICK x \in T : \A y \in T : ~(y < x)
  BY <1>2, <1>3, Zenon DEF OpToRel
<1>5. PICK d \in Delivered : x = before(d)
  BY <1>4 DEF T
<1>6. \A e \in Delivered : before(e) \in T
  BY DEF T
<1>7. \A e \in Delivered : ~(before(e) < before(d))
  BY <1>4, <1>5, <1>6
<1>8. \A e \in Delivered : trip[e].at <= trip[d].at
  BY <1>1, <1>7, TripsAreFinite
<1>9. QED BY <1>8 DEF LastDelivered

\* The panel's order is one.
LEMMA EarlierOrders ==
    ASSUME StationsInv
    PROVE  Orders(ByDelivery, DOMAIN trip)
<1> DEFINE S == DOMAIN trip
<1>1. \A d \in S : d \in Int /\ trip[d].at \in Int
  BY TripsAreFinite DEF TripRows
<1>2. \A d, e \in S : <<d, e>> \in ByDelivery <=> Earlier(d, e)
  BY DEF ByDelivery
<1>3. \A d, e \in Open : Earlier(d, e) <=> d > e
  BY DEF Earlier
<1>4. \A d \in Open, e \in Delivered : Earlier(d, e) /\ ~Earlier(e, d)
  BY DEF Earlier, Open
<1>5. \A d, e \in Delivered : Earlier(d, e) <=> trip[d].at > trip[e].at
  BY DEF Earlier, Open
<1>6. Open \subseteq S /\ Delivered \subseteq S /\ \A d \in S : d \in Open \/ d \in Delivered
  BY DEF Open, Delivered
<1>7. \A d, e \in Delivered : d # e => trip[d].at # trip[e].at
  BY DEF StationsInv
<1>8. \A x \in S : ~Earlier(x, x)
  BY <1>1, <1>3, <1>5, <1>6
<1>9. \A x, y \in S : x # y => Earlier(x, y) \/ Earlier(y, x)
  BY <1>1, <1>3, <1>4, <1>5, <1>6, <1>7
<1>10. ASSUME NEW x \in S, NEW y \in S, NEW z \in S, Earlier(x, y), Earlier(y, z)
       PROVE  Earlier(x, z)
  <2>1. CASE z \in Open
    BY <1>1, <1>3, <1>4, <1>6, <1>10, <2>1
  <2>2. CASE z \in Delivered /\ x \in Open
    BY <1>4, <2>2
  <2>3. CASE z \in Delivered /\ x \in Delivered
    BY <1>1, <1>4, <1>5, <1>6, <1>10, <2>3
  <2>4. QED BY <1>6, <2>1, <2>2, <2>3
<1> HIDE DEF S
<1>11. QED BY <1>2, <1>8, <1>9, <1>10 DEF Orders, S

\* The panel's window, if it is larger than the trips on their way, shows the trip
\* that was received last, and before it none that was received.
LEMMA WindowShowsLast ==
    ASSUME StationsInv, Delivered # {}, Cardinality(Open) < Window
    PROVE  trip # << >> /\ LatestOfWindow(PanelRows) = LastDelivered(Delivered)
<1> DEFINE S == DOMAIN trip
           sorted == Sorted(S, ByDelivery)
           L == LastDelivered(Delivered)
           m == Cardinality(Open)
           n == Len(trip)
           W == IF n < Window THEN n ELSE Window
<1>0. Window \in Nat \ {0}
  BY StationsAssumption
<1>1. /\ n \in Nat /\ S = 1..n /\ IsFiniteSet(S) /\ Cardinality(S) = n
      /\ IsFiniteSet(Open) /\ m \in Nat
  BY TripsAreFinite
<1>2. L \in Delivered /\ \A e \in Delivered : trip[e].at <= trip[L].at
  BY LastIsOne
<1>3. L \in S /\ L \notin Open /\ Open \subseteq S /\ \A d \in S : d \in Open \/ d \in Delivered
  BY <1>2 DEF Open, Delivered
<1>4. m < n
  <2>1. Open # S
    BY <1>3
  <2>2. m <= n /\ m # n
    BY <1>1, <1>3, <2>1, FS_Subset
  <2>3. QED BY <1>1, <2>2
<1>5. \A d, e \in S : <<d, e>> \in ByDelivery <=> Earlier(d, e)
  BY DEF ByDelivery
<1>6. /\ DOMAIN sorted = 1..n
      /\ \A i \in 1..n : sorted[i] \in S /\ Below(S, ByDelivery, sorted[i]) = i - 1
      /\ \A d \in S : sorted[Below(S, ByDelivery, d) + 1] = d
  BY <1>1, EarlierOrders, SortedIs
<1>7. \A d \in Delivered : m <= Below(S, ByDelivery, d)
  <2>1. ASSUME NEW d \in Delivered PROVE m <= Below(S, ByDelivery, d)
    <3>1. d \in S /\ d \notin Open
      BY DEF Delivered, Open
    <3>2. Open \subseteq {e \in S : <<e, d>> \in ByDelivery}
      BY <1>3, <1>5, <3>1 DEF Earlier
    <3>3. IsFiniteSet({e \in S : <<e, d>> \in ByDelivery})
      BY <1>1, FS_Subset
    <3>4. QED BY <3>2, <3>3, FS_Subset DEF Below
  <2>2. QED BY <2>1
<1>8. Below(S, ByDelivery, L) = m
  <2>1. \A e \in S : <<e, L>> \in ByDelivery => e \in Open
    <3>1. ASSUME NEW e \in Delivered PROVE ~Earlier(e, L)
      <4>1. trip[e].at \in Int /\ trip[L].at \in Int /\ trip[e].at <= trip[L].at
        BY <1>2, TripsAreFinite DEF StationsInv
      <4>2. e \notin Open /\ L \notin Open
        BY <1>3 DEF Open
      <4>3. QED BY <4>1, <4>2 DEF Earlier
    <3>2. QED BY <1>3, <1>5, <3>1
  <2>2. \A e \in Open : <<e, L>> \in ByDelivery
    BY <1>3, <1>5 DEF Earlier
  <2>3. {e \in S : <<e, L>> \in ByDelivery} = Open
    BY <1>3, <2>1, <2>2
  <2>4. QED BY <2>3 DEF Below
<1>9. sorted[m + 1] = L
  BY <1>3, <1>6, <1>8
<1>10. \A i \in 1..m : sorted[i] \notin Delivered
  <2>1. ASSUME NEW i \in 1..m, sorted[i] \in Delivered PROVE FALSE
    <3>1. Below(S, ByDelivery, sorted[i]) = i - 1
      BY <1>1, <1>4, <1>6
    <3>2. m <= i - 1
      BY <1>7, <2>1, <3>1
    <3>3. QED BY <1>1, <3>2
  <2>2. QED BY <2>1
<1> HIDE DEF sorted, L, m, n, S
<1>11. Len(sorted) = n /\ sorted \in Seq(S)
  <2>1. sorted \in [1..n -> S]
    <3>1. sorted = [i \in 1..n |-> sorted[i]]
      BY <1>1 DEF sorted, Sorted
    <3>2. QED BY <1>6, <3>1
  <2>2. QED BY <1>1, <2>1
<1>12. PanelRows = SubSeq(sorted, 1, W)
  BY <1>11 DEF PanelRows, FirstOf, sorted, S
<1>13. W \in Nat /\ W <= n /\ m + 1 <= W /\ m + 1 \in Nat
  BY <1>0, <1>1, <1>4 DEF m
<1>14. DOMAIN PanelRows = 1..W /\ \A i \in 1..W : PanelRows[i] = sorted[i]
  BY <1>1, <1>11, <1>12, <1>13
<1> HIDE DEF W
<1> DEFINE done == {i \in DOMAIN PanelRows : PanelRows[i] \in Delivered}
<1>15. m + 1 \in done /\ \A i \in done : m + 1 <= i
  <2>1. m + 1 \in 1..W
    BY <1>1, <1>13
  <2>2. m + 1 \in done
    BY <1>2, <1>9, <1>14, <2>1
  <2>3. ASSUME NEW i \in done PROVE m + 1 <= i
    <3>1. i \in 1..W /\ sorted[i] \in Delivered
      BY <1>14
    <3>2. QED BY <1>1, <1>10, <1>13, <3>1
  <2>4. QED BY <2>2, <2>3
<1>16. \A i \in done : i \in Int
  BY <1>13, <1>14
<1> DEFINE first == CHOOSE i \in done : \A j \in done : i <= j
<1>17. first = m + 1
  BY <1>13, <1>15, <1>16
<1>18. LatestOfWindow(PanelRows) = PanelRows[first]
  BY <1>15 DEF LatestOfWindow
<1>19. m + 1 \in 1..W
  BY <1>1, <1>13
<1>20. PanelRows[first] = L
  BY <1>9, <1>14, <1>17, <1>19
<1>21. trip # << >>
  BY <1>1, <1>3 DEF S, n
<1>22. QED BY <1>18, <1>20, <1>21 DEF L

\* So the map and the panel judge by the same trip; the level is the tank's.
LEMMA ViewsMeet == StationsInv => MapAndPanelAgree
<1> SUFFICES ASSUME StationsInv, Delivered # {}, Cardinality(Open) < Window
             PROVE  /\ listPublic.tone = listSupervision.tone
                    /\ station.tank => listPublic.level = listSupervision.level
  BY DEF MapAndPanelAgree
<1>1. trip # << >> /\ LatestOfWindow(PanelRows) = LastDelivered(Delivered)
  BY WindowShowsLast
<1>2. QED BY <1>1 DEF listPublic, listSupervision

\* What arrives keeps the trips numbered in the order they were received.
LEMMA StationsStep == StationsInv /\ [StationsNext]_svars => StationsInv'
<1> SUFFICES ASSUME StationsInv, [StationsNext]_svars PROVE StationsInv'
  OBVIOUS
<1>0. /\ Len(trip) \in Nat /\ DOMAIN trip = 1..Len(trip)
      /\ IsFiniteSet(Delivered) /\ Cardinality(Delivered) \in Nat
      /\ \A d \in DOMAIN trip : trip[d] \in TripRows
  BY TripsAreFinite
<1>1. CASE UNCHANGED trip
  BY <1>1 DEF StationsInv, Delivered
<1>2. ASSUME NEW certified \in BOOLEAN, Send(certified) PROVE StationsInv'
  <2> DEFINE x == [status |-> "IN_TRANSIT", certified |-> certified, reading |-> NoReading,
                   at |-> 0]
  <2>1. x \in TripRows /\ x.status # "DELIVERED"
    BY DEF TripRows, NoReading, Readings
  <2>2. trip' = Append(trip, x)
    BY <1>2 DEF Send
  <2> HIDE DEF x
  <2>3. /\ trip' \in Seq(TripRows) /\ DOMAIN trip' = DOMAIN trip \cup {Len(trip) + 1}
        /\ trip'[Len(trip) + 1] = x /\ \A d \in DOMAIN trip : trip'[d] = trip[d]
    BY <1>0, <2>1, <2>2 DEF StationsInv
  <2>4. Delivered' = {d \in DOMAIN trip' : trip'[d].status = "DELIVERED"}
    BY DEF Delivered
  <2>5. Delivered' = Delivered
    BY <2>1, <2>3, <2>4 DEF Delivered
  <2>6. \A d \in Delivered : trip'[d] = trip[d]
    BY <2>3 DEF Delivered
  <2>7. QED BY <2>3, <2>5, <2>6 DEF StationsInv
<1>3. ASSUME NEW d \in DOMAIN trip, NEW reading \in Given, Receive(d, reading)
      PROVE  StationsInv'
  <2> DEFINE c == Cardinality(Delivered) + 1
             x == [trip[d] EXCEPT !.status = "DELIVERED", !.reading = reading, !.at = c]
  <2>1. d \in DOMAIN trip /\ d \notin Delivered /\ trip[d] \in TripRows
    BY <1>0, <1>3 DEF Receive, Open
  <2>2. x \in TripRows /\ x.status = "DELIVERED" /\ x.at = c
    <3> DEFINE done == [trip[d] EXCEPT !.status = "DELIVERED"]
               read == [done EXCEPT !.reading = reading]
    <3>0. reading \in Readings
      BY StationsAssumption, Zenon
    <3>1. c \in Nat
      BY <1>0
    <3>2. done \in TripRows /\ done.status = "DELIVERED"
      BY <2>1 DEF TripRows
    <3>3. x = [read EXCEPT !.at = c]
      OBVIOUS
    <3> HIDE DEF c, x, done
    <3>4. read \in TripRows /\ read.status = "DELIVERED"
      BY <3>0, <3>2 DEF TripRows
    <3> HIDE DEF read
    <3>5. QED BY <3>1, <3>3, <3>4 DEF TripRows
  <2>3. DOMAIN trip' = DOMAIN trip /\ \A e \in DOMAIN trip : e # d => trip'[e] = trip[e]
    BY <1>3 DEF Receive
  <2>4. trip'[d] = x
    BY <1>3, <2>1 DEF Receive, TripRows
  <2> HIDE DEF x
  <2>5. Delivered' = {e \in DOMAIN trip' : trip'[e].status = "DELIVERED"}
    BY DEF Delivered
  <2>6. Delivered' = Delivered \cup {d}
    BY <2>1, <2>2, <2>3, <2>4, <2>5 DEF Delivered
  <2>7. Cardinality(Delivered') = c
    BY <1>0, <2>1, <2>6, FS_AddElement
  <2>8. \A e \in Delivered : e # d /\ trip'[e] = trip[e] /\ trip[e].at \in 1..Cardinality(Delivered)
    BY <2>1, <2>3 DEF Delivered, StationsInv
  <2>9. \A e, f \in Delivered : trip[e].at = trip[f].at => e = f
    BY DEF StationsInv
  <2> HIDE DEF c
  <2>10. /\ \A e \in Delivered' : trip'[e].at \in 1..c
         /\ \A e, f \in Delivered' : trip'[e].at = trip'[f].at => e = f
    BY <1>0, <2>2, <2>4, <2>6, <2>8, <2>9 DEF c
  <2>11. trip' \in Seq(TripRows)
    <3>1. trip' \in [1..Len(trip) -> TripRows]
      <4>1. trip' = [e \in DOMAIN trip |-> trip'[e]]
        BY <1>3, <2>3 DEF Receive
      <4>2. \A e \in DOMAIN trip : trip'[e] \in TripRows
        BY <1>0, <2>2, <2>3, <2>4
      <4>3. QED BY <1>0, <4>1, <4>2
    <3>2. QED BY <1>0, <3>1
  <2>12. QED BY <2>7, <2>10, <2>11 DEF StationsInv
<1>4. ASSUME NEW known, createMeasurement(known) PROVE UNCHANGED trip
  BY <1>4 DEF createMeasurement
<1>5. ASSUME NEW d, NEW g, Grade(d, g) PROVE UNCHANGED trip
  BY <1>5 DEF Grade
<1>6. CASE UNCHANGED svars
  BY <1>1, <1>6 DEF svars
<1>7. QED BY <1>1, <1>2, <1>3, <1>4, <1>5, <1>6, Zenon DEF StationsNext

-------------------------------------------------------------------------------
(* The supervisors' panel. *)

Loads == [city : Cities \cup {"all"}, cancelled : BOOLEAN, over : BOOLEAN]

\* Of the panel's loads only the last is not cancelled; it is for the department that
\* is chosen, and once it is over the screen has its answer or a failure.
PanelInv ==
    /\ loads \in Seq(Loads) /\ loads # << >> /\ error \in BOOLEAN
    /\ \A i \in DOMAIN loads : loads[i].cancelled <=> i # Len(loads)
    /\ loads[Len(loads)].city = deptFilter
    /\ loads[Len(loads)].over => error \/ data = deptFilter

\* Clicks and late answers keep it so.
LEMMA PanelStep == PanelInv /\ [PanelNext]_panelVars => PanelInv'
<1> SUFFICES ASSUME PanelInv, [PanelNext]_panelVars PROVE PanelInv'
  OBVIOUS
<1>0. /\ Len(loads) \in Nat \ {0} /\ DOMAIN loads = 1..Len(loads)
      /\ \A i \in DOMAIN loads : loads[i] \in Loads
      /\ Len(loads) \in DOMAIN loads
  BY DEF PanelInv
<1>1. CASE UNCHANGED panelVars
  BY <1>1 DEF PanelInv, panelVars
<1>2. ASSUME NEW c \in Cities \cup {"all"}, setDeptFilter(c) PROVE PanelInv'
  <2> DEFINE former == [i \in DOMAIN loads |-> [loads[i] EXCEPT !.cancelled = TRUE]]
             x == [city |-> c, cancelled |-> FALSE, over |-> FALSE]
  <2>1. \A i \in DOMAIN loads : former[i] \in Loads /\ former[i].cancelled
    BY <1>0 DEF Loads
  <2>2. former \in Seq(Loads) /\ Len(former) = Len(loads)
    <3>1. former = [i \in 1..Len(loads) |-> former[i]]
      BY <1>0
    <3> HIDE DEF former
    <3>2. former \in [1..Len(loads) -> Loads]
      BY <1>0, <2>1, <3>1
    <3>3. QED BY <1>0, <3>2
  <2>3. x \in Loads /\ ~x.cancelled /\ x.over = FALSE /\ x.city = c
    BY DEF Loads
  <2>4. loads' = Append(former, x) /\ deptFilter' = c /\ error' = error
    BY <1>2 DEF setDeptFilter
  <2> HIDE DEF former, x
  <2>5. /\ loads' \in Seq(Loads) /\ Len(loads') = Len(loads) + 1
        /\ loads'[Len(loads) + 1] = x
        /\ \A i \in 1..Len(loads) : loads'[i] = former[i]
    BY <1>0, <2>2, <2>3, <2>4
  <2>6. DOMAIN loads' = 1..(Len(loads) + 1)
    BY <1>0, <2>5
  <2>7. \A i \in DOMAIN loads' : loads'[i].cancelled <=> i # Len(loads')
    <3>1. ASSUME NEW i \in 1..Len(loads) PROVE loads'[i].cancelled <=> i # Len(loads')
      BY <1>0, <2>1, <2>5
    <3>2. ~loads'[Len(loads) + 1].cancelled
      BY <2>3, <2>5
    <3>3. QED BY <1>0, <2>5, <2>6, <3>1, <3>2
  <2>8. QED BY <1>0, <2>3, <2>4, <2>5, <2>7 DEF PanelInv
<1>3. ASSUME NEW i \in DOMAIN loads, NEW ok \in BOOLEAN, Loaded(i, ok) PROVE PanelInv'
  <2> DEFINE x == [loads[i] EXCEPT !.over = TRUE]
  <2>1. x \in Loads /\ x.cancelled = loads[i].cancelled /\ x.city = loads[i].city
    BY <1>0 DEF Loads
  <2>2. loads' = [loads EXCEPT ![i] = x] /\ deptFilter' = deptFilter
    BY <1>3 DEF Loaded
  <2> HIDE DEF x
  <2>3. /\ loads' \in Seq(Loads) /\ Len(loads') = Len(loads) /\ DOMAIN loads' = DOMAIN loads
        /\ loads'[i] = x /\ \A j \in DOMAIN loads : j # i => loads'[j] = loads[j]
    BY <1>0, <2>1, <2>2 DEF PanelInv
  <2>4. /\ \A j \in DOMAIN loads' : loads'[j].cancelled <=> j # Len(loads')
        /\ loads'[Len(loads')].city = deptFilter'
    BY <1>0, <2>1, <2>2, <2>3 DEF PanelInv
  <2>5. error' \in BOOLEAN
    BY <1>3 DEF Loaded, PanelInv, Wanted
  <2>6. CASE i = Len(loads)
    <3>1. ~loads[i].cancelled /\ loads[i].city = deptFilter
      BY <1>0, <2>6 DEF PanelInv
    <3>2. error' \/ data' = deptFilter'
      BY <1>3, <3>1 DEF Loaded, Wanted
    <3>3. QED BY <1>0, <2>3, <2>4, <2>5, <3>2 DEF PanelInv
  <2>7. CASE i # Len(loads)
    <3>1. loads[i].cancelled
      BY <2>7 DEF PanelInv
    <3>2. data' = data /\ (error => error')
      BY <1>3, <3>1 DEF Loaded, Wanted
    <3>3. loads'[Len(loads)] = loads[Len(loads)]
      BY <1>0, <2>3, <2>7
    <3>4. QED BY <1>0, <2>2, <2>3, <2>4, <2>5, <3>2, <3>3 DEF PanelInv
  <2>8. QED BY <2>6, <2>7
<1>4. QED BY <1>1, <1>2, <1>3 DEF PanelNext

\* What is shown is what was chosen, unless it is still on its way.
LEMMA PanelShows == PanelInv => PanelIsCurrent
<1> SUFFICES ASSUME PanelInv PROVE PanelIsCurrent
  OBVIOUS
<1>1. Len(loads) \in DOMAIN loads
  BY DEF PanelInv
<1>2. ~loads[Len(loads)].cancelled
  BY <1>1 DEF PanelInv
<1>3. loads[Len(loads)].over => error \/ data = deptFilter
  BY DEF PanelInv
<1>4. QED BY <1>1, <1>2, <1>3 DEF PanelIsCurrent, Wanted

-------------------------------------------------------------------------------
(* The scanner and its camera. *)

Visits == [open : BOOLEAN, handled : BOOLEAN, stream : Nat, taken : 0..1]
Runs == [visit : Nat, step : {"asking", "watching", "reading", "over"}, cancelled : BOOLEAN]

\* At most one effect is not cancelled; it belongs to the scanner that is open on the
\* screen, and while it asks for the camera none is on.  A scanner that has taken a
\* code is not the one on the screen.
CameraInv ==
    /\ visit \in Seq(Visits) /\ visit # << >> /\ here \in BOOLEAN
    /\ runs \in Seq(Runs)
    /\ \A i \in DOMAIN runs :
         /\ runs[i].visit \in DOMAIN visit
         /\ ~runs[i].cancelled => /\ runs[i].visit = now /\ here /\ visit[now].open
                                  /\ \A j \in DOMAIN runs : ~runs[j].cancelled => i = j
         /\ ~runs[i].cancelled /\ runs[i].step = "asking" => live = {}
    /\ live \subseteq {visit[now].stream}
    /\ live # {} => here /\ visit[now].open
    /\ \A v \in DOMAIN visit : visit[v].taken = 1 => visit[v].handled /\ ~(v = now /\ here)

\* A clean-up leaves no effect that is not cancelled.
LEMMA CleanUp ==
    ASSUME CameraInv
    PROVE  /\ Cancelled \in Seq(Runs) /\ Len(Cancelled) = Len(runs)
           /\ \A i \in DOMAIN runs : /\ Cancelled[i].cancelled
                                     /\ Cancelled[i].visit \in DOMAIN visit
<1>1. /\ Len(runs) \in Nat /\ DOMAIN runs = 1..Len(runs)
      /\ \A i \in DOMAIN runs : runs[i] \in Runs
  BY DEF CameraInv
<1>2. \A i \in DOMAIN runs : Cancelled[i] \in Runs /\ Cancelled[i].visit = runs[i].visit
  BY <1>1 DEF Cancelled, Runs
<1>3. \A i \in DOMAIN runs : runs[i].visit = now => Cancelled[i].cancelled = TRUE
  BY <1>1 DEF Cancelled, Runs
<1>4. \A i \in DOMAIN runs : runs[i].visit # now => Cancelled[i] = runs[i]
  BY DEF Cancelled
<1>5. \A i \in DOMAIN runs : Cancelled[i].cancelled /\ Cancelled[i].visit \in DOMAIN visit
  BY <1>2, <1>3, <1>4 DEF CameraInv
<1>6. Cancelled \in [1..Len(runs) -> Runs]
  <2>1. Cancelled = [i \in 1..Len(runs) |-> Cancelled[i]]
    BY <1>1 DEF Cancelled
  <2>2. QED BY <1>1, <1>2, <2>1
<1>7. QED BY <1>1, <1>5, <1>6

\* A list with one of its entries replaced.
LEMMA Replaced ==
    ASSUME NEW T, NEW s \in Seq(T), NEW i \in DOMAIN s, NEW x \in T
    PROVE  /\ [s EXCEPT ![i] = x] \in Seq(T)
           /\ Len([s EXCEPT ![i] = x]) = Len(s)
           /\ DOMAIN [s EXCEPT ![i] = x] = DOMAIN s
           /\ [s EXCEPT ![i] = x][i] = x
           /\ \A j \in DOMAIN s : j # i => [s EXCEPT ![i] = x][j] = s[j]
OBVIOUS

\* No camera is on and none is asked for any more.
Still ==
    /\ visit \in Seq(Visits) /\ visit # << >> /\ here \in BOOLEAN
    /\ runs \in Seq(Runs)
    /\ \A i \in DOMAIN runs : runs[i].visit \in DOMAIN visit /\ runs[i].cancelled
    /\ live = {}
    /\ \A v \in DOMAIN visit : visit[v].taken = 1 => visit[v].handled /\ ~(v = now /\ here)

\* What the invariant says of lists.
LEMMA ScannersAre ==
    ASSUME CameraInv
    PROVE  /\ now \in Nat \ {0} /\ DOMAIN visit = 1..now /\ now \in DOMAIN visit
           /\ \A v \in DOMAIN visit : visit[v] \in Visits
           /\ Len(runs) \in Nat /\ DOMAIN runs = 1..Len(runs)
           /\ \A i \in DOMAIN runs : runs[i] \in Runs
BY DEF CameraInv, now

\* The scanner is closed.
LEMMA Closing ==
    ASSUME CameraInv, close, here' \in BOOLEAN, here' => here
    PROVE  Still'
<1> DEFINE x == [visit[now] EXCEPT !.open = FALSE, !.stream = 0]
<1>1. x \in Visits /\ x.taken = visit[now].taken /\ x.handled = visit[now].handled
  <2> DEFINE y == [visit[now] EXCEPT !.open = FALSE]
  <2>1. y \in Visits /\ y.taken = visit[now].taken /\ y.handled = visit[now].handled
    BY ScannersAre DEF Visits
  <2>2. x = [y EXCEPT !.stream = 0]
    OBVIOUS
  <2> HIDE DEF y, x
  <2>3. QED BY <2>1, <2>2 DEF Visits
<1>2. visit' = [visit EXCEPT ![now] = x] /\ runs' = Cancelled /\ live' = stopCamera(now)
  BY DEF close
<1> HIDE DEF x
<1>3. visit \in Seq(Visits) /\ now \in DOMAIN visit
  BY ScannersAre DEF CameraInv
<1>4. /\ visit' \in Seq(Visits) /\ Len(visit') = now /\ DOMAIN visit' = DOMAIN visit
      /\ visit'[now] = x /\ \A v \in DOMAIN visit : v # now => visit'[v] = visit[v]
  BY <1>1, <1>2, <1>3, Replaced DEF now
<1>5. live' = {}
  BY <1>2 DEF stopCamera, CameraInv
<1>6. \A v \in DOMAIN visit : visit'[v].taken = visit[v].taken /\ visit'[v].handled = visit[v].handled
  BY <1>1, <1>4
<1>7. \A v \in DOMAIN visit' :
        visit'[v].taken = 1 => visit'[v].handled /\ ~(v = Len(visit') /\ here')
  BY <1>4, <1>6 DEF CameraInv, now
<1>8. /\ runs' \in Seq(Runs)
      /\ \A i \in DOMAIN runs' : runs'[i].visit \in DOMAIN visit' /\ runs'[i].cancelled
  BY <1>2, <1>4, CleanUp, ScannersAre
<1>9. visit' # << >>
  BY <1>4, ScannersAre
<1>10. QED BY <1>4, <1>5, <1>7, <1>8, <1>9 DEF Still, now

\* The scanner is opened, or asks for the camera anew.
LEMMA Starting ==
    ASSUME CameraInv, start, here, here' = here
    PROVE  CameraInv'
<1> DEFINE x == [visit[now] EXCEPT !.open = TRUE, !.handled = FALSE, !.stream = 0]
           n == Len(runs)
<1>1. x \in Visits /\ x.taken = visit[now].taken /\ x.open
  <2> DEFINE y == [visit[now] EXCEPT !.open = TRUE]
             z == [y EXCEPT !.handled = FALSE]
  <2>1. y \in Visits /\ y.taken = visit[now].taken /\ y.open
    BY ScannersAre DEF Visits
  <2>2. x = [z EXCEPT !.stream = 0]
    OBVIOUS
  <2> HIDE DEF y, x
  <2>3. z \in Visits /\ z.taken = visit[now].taken /\ z.open
    BY <2>1 DEF Visits
  <2> HIDE DEF z
  <2>4. QED BY <2>2, <2>3 DEF Visits
<1>2. /\ visit' = [visit EXCEPT ![now] = x] /\ runs' = Append(Cancelled, Running)
      /\ live' = stopCamera(now)
  BY DEF start
<1> HIDE DEF x
<1>3. visit \in Seq(Visits) /\ now \in DOMAIN visit
  BY ScannersAre DEF CameraInv
<1>4. /\ visit' \in Seq(Visits) /\ Len(visit') = now /\ DOMAIN visit' = DOMAIN visit
      /\ visit'[now] = x /\ \A v \in DOMAIN visit : v # now => visit'[v] = visit[v]
  BY <1>1, <1>2, <1>3, Replaced DEF now
<1>5. live' = {}
  BY <1>2 DEF stopCamera, CameraInv
<1>6. visit[now].taken # 1
  BY <1>3 DEF CameraInv
<1>7. \A v \in DOMAIN visit' :
        visit'[v].taken = 1 => visit'[v].handled /\ ~(v = Len(visit') /\ here')
  BY <1>1, <1>4, <1>6 DEF CameraInv
<1>8. /\ Running \in Runs /\ Running.visit = now /\ ~Running.cancelled
  BY ScannersAre DEF Running, Runs
<1>9. /\ n \in Nat /\ runs' \in Seq(Runs) /\ DOMAIN runs' = 1..(n + 1) /\ runs'[n + 1] = Running
      /\ \A i \in 1..n : runs'[i] = Cancelled[i]
  BY <1>2, <1>8, CleanUp, ScannersAre
<1>10. \A i \in 1..n : runs'[i].cancelled /\ runs'[i].visit \in DOMAIN visit
  BY <1>9, CleanUp, ScannersAre
<1> HIDE DEF n
<1>11. \A i \in DOMAIN runs' : i \in 1..n \/ i = n + 1
  BY <1>9
<1>12. \A i \in DOMAIN runs' : /\ runs'[i].visit \in DOMAIN visit'
                               /\ ~runs'[i].cancelled => i = n + 1 /\ runs'[i].visit = now
  BY <1>3, <1>4, <1>8, <1>9, <1>10, <1>11
<1>13. visit' # << >> /\ here' /\ visit'[now].open /\ here' \in BOOLEAN
  BY <1>1, <1>4, ScannersAre DEF CameraInv
<1>14. QED BY <1>4, <1>5, <1>7, <1>9, <1>12, <1>13 DEF CameraInv, now

\* A run goes on and nothing else changes.
LEMMA GoingOn ==
    ASSUME CameraInv, NEW i \in DOMAIN runs, NEW step \in {"watching", "reading", "over"},
           runs' = [runs EXCEPT ![i].step = step], UNCHANGED <<visit, here, live>>
    PROVE  CameraInv'
<1> DEFINE x == [runs[i] EXCEPT !.step = step]
<1>1. /\ x \in Runs /\ x.visit = runs[i].visit /\ x.cancelled = runs[i].cancelled
      /\ x.step # "asking"
  BY ScannersAre DEF Runs
<1>2. runs' = [runs EXCEPT ![i] = x]
  OBVIOUS
<1> HIDE DEF x
<1>3. runs \in Seq(Runs)
  BY DEF CameraInv
<1>4. /\ runs' \in Seq(Runs) /\ DOMAIN runs' = DOMAIN runs
      /\ runs'[i] = x /\ \A j \in DOMAIN runs : j # i => runs'[j] = runs[j]
  BY <1>1, <1>2, <1>3, Replaced
<1>5. \A j \in DOMAIN runs : /\ runs'[j].visit = runs[j].visit
                             /\ runs'[j].cancelled = runs[j].cancelled
                             /\ runs'[j].step = "asking" => runs[j].step = "asking"
  BY <1>1, <1>4
<1>6. QED BY <1>4, <1>5 DEF CameraInv, now

\* The camera is on for the only effect that is not cancelled.
LEMMA Watching ==
    ASSUME CameraInv, NEW i \in DOMAIN runs, Granted(i), ~runs[i].cancelled
    PROVE  CameraInv'
<1> DEFINE x == [visit[now] EXCEPT !.stream = i]
           y == [runs[i] EXCEPT !.step = "watching"]
<1>1. /\ runs[i].visit = now /\ here /\ visit[now].open /\ live = {}
      /\ \A j \in DOMAIN runs : ~runs[j].cancelled => i = j
  BY DEF CameraInv, Granted
<1>2. visit \in Seq(Visits) /\ now \in DOMAIN visit /\ runs \in Seq(Runs) /\ i \in Nat
  BY ScannersAre DEF CameraInv
<1>3. /\ visit' = [visit EXCEPT ![now] = x] /\ runs' = [runs EXCEPT ![i] = y]
      /\ live' = {i} /\ here' = here
  BY <1>1, <1>2 DEF Granted
<1>4. /\ x \in Visits /\ x.open = visit[now].open /\ x.handled = visit[now].handled
      /\ x.taken = visit[now].taken /\ x.stream = i
  BY <1>2, ScannersAre DEF Visits
<1>5. /\ y \in Runs /\ y.visit = runs[i].visit /\ y.step # "asking"
      /\ y.cancelled = runs[i].cancelled
  BY ScannersAre DEF Runs
<1> HIDE DEF x, y
<1>6. /\ visit' \in Seq(Visits) /\ Len(visit') = now /\ DOMAIN visit' = DOMAIN visit
      /\ visit'[now] = x /\ \A v \in DOMAIN visit : v # now => visit'[v] = visit[v]
  BY <1>2, <1>3, <1>4, Replaced DEF now
<1>7. /\ runs' \in Seq(Runs) /\ DOMAIN runs' = DOMAIN runs
      /\ runs'[i] = y /\ \A j \in DOMAIN runs : j # i => runs'[j] = runs[j]
  BY <1>2, <1>3, <1>5, Replaced
<1>8. \A j \in DOMAIN runs : /\ runs'[j].visit = runs[j].visit
                             /\ runs'[j].cancelled = runs[j].cancelled
  BY <1>5, <1>7
<1>9. \A v \in DOMAIN visit : visit'[v].taken = visit[v].taken /\ visit'[v].handled = visit[v].handled
  BY <1>4, <1>6
<1>10. \A j \in DOMAIN runs' :
         /\ runs'[j].visit \in DOMAIN visit'
         /\ ~runs'[j].cancelled => j = i /\ runs'[j].visit = now /\ runs'[j].step # "asking"
  BY <1>1, <1>5, <1>6, <1>7, <1>8 DEF CameraInv
<1>11. \A v \in DOMAIN visit' :
         visit'[v].taken = 1 => visit'[v].handled /\ ~(v = Len(visit') /\ here')
  BY <1>3, <1>6, <1>9 DEF CameraInv
<1>12. visit' # << >> /\ here' /\ visit'[now].open /\ here' \in BOOLEAN /\ visit'[now].stream = i
  BY <1>1, <1>3, <1>4, <1>6, ScannersAre DEF CameraInv
<1>13. QED BY <1>3, <1>6, <1>7, <1>10, <1>11, <1>12 DEF CameraInv, now

\* A scanner takes a code, and whatever scanner is on the screen is left.
LEMMA Taking ==
    ASSUME CameraInv, NEW i \in DOMAIN runs, NEW s, acceptRaw(i, s)
    PROVE  Still'
<1> DEFINE v == runs[i].visit
           y == [Cancelled[i] EXCEPT !.step = "over"]
           took(w) == [visit[w] EXCEPT !.open = FALSE, !.handled = TRUE, !.stream = 0, !.taken = @ + 1]
           left(w) == [visit[w] EXCEPT !.open = FALSE, !.stream = 0]
<1>1. v \in DOMAIN visit /\ now \in DOMAIN visit /\ visit[v].taken = 0
  <2>1. v \in DOMAIN visit /\ ~visit[v].handled
    BY DEF CameraInv, acceptRaw, MayTake
  <2>2. visit[v].taken # 1 /\ visit[v] \in Visits
    BY <2>1, ScannersAre DEF CameraInv
  <2>3. QED BY <2>1, <2>2, ScannersAre DEF Visits
<1>2. /\ runs' = [Cancelled EXCEPT ![i] = y] /\ here' = FALSE
      /\ live' = stopCamera(v) \cap stopCamera(now)
  BY DEF acceptRaw
<1>3. /\ DOMAIN visit' = DOMAIN visit /\ visit'[v] = took(v)
      /\ \A w \in DOMAIN visit : w # v /\ w = now => visit'[w] = left(w)
      /\ \A w \in DOMAIN visit : w # v /\ w # now => visit'[w] = visit[w]
      /\ visit' = [w \in DOMAIN visit |-> visit'[w]]
  BY <1>1 DEF acceptRaw
<1>4. took(v) \in Visits /\ took(v).handled
  <2> DEFINE a == [visit[v] EXCEPT !.open = FALSE]
             b == [a EXCEPT !.handled = TRUE]
             c == [b EXCEPT !.stream = 0]
             d == [c EXCEPT !.taken = 1]
  <2>1. a \in Visits /\ a.taken = 0
    BY <1>1, ScannersAre DEF Visits
  <2>2. took(v) = [c EXCEPT !.taken = c.taken + 1]
    BY <1>1
  <2> HIDE DEF a
  <2>3. b \in Visits /\ b.taken = 0 /\ b.handled
    BY <2>1 DEF Visits
  <2> HIDE DEF b
  <2>4. c \in Visits /\ c.taken = 0 /\ c.handled
    BY <2>3 DEF Visits
  <2> HIDE DEF c
  <2>5. d \in Visits /\ d.handled
    BY <2>4 DEF Visits
  <2>6. took(v) = d
    BY <2>2, <2>4
  <2>7. QED BY <2>5, <2>6
<1>5. \A w \in DOMAIN visit : /\ left(w) \in Visits /\ left(w).taken = visit[w].taken
                              /\ left(w).handled = visit[w].handled
  <2>1. ASSUME NEW w \in DOMAIN visit
        PROVE  /\ left(w) \in Visits /\ left(w).taken = visit[w].taken
               /\ left(w).handled = visit[w].handled
    <3> DEFINE a == [visit[w] EXCEPT !.open = FALSE]
    <3>1. a \in Visits /\ a.taken = visit[w].taken /\ a.handled = visit[w].handled
      BY ScannersAre DEF Visits
    <3>2. left(w) = [a EXCEPT !.stream = 0]
      OBVIOUS
    <3> HIDE DEF a, left
    <3>3. QED BY <3>1, <3>2 DEF Visits
  <2>2. QED BY <2>1
<1> HIDE DEF took, left
<1>6. \A w \in DOMAIN visit :
        visit'[w] \in Visits /\ (visit'[w].taken = 1 => visit'[w].handled)
  BY <1>3, <1>4, <1>5, ScannersAre DEF CameraInv
<1>7. visit' \in Seq(Visits) /\ visit' # << >>
  <2>1. visit' \in [1..now -> Visits]
    BY <1>3, <1>6, ScannersAre
  <2>2. QED BY <2>1, ScannersAre
<1>8. live' = {}
  BY <1>2 DEF stopCamera, CameraInv
<1>9. i \in DOMAIN Cancelled /\ Cancelled \in Seq(Runs) /\ Cancelled[i] \in Runs
  BY CleanUp, ScannersAre
<1>10. y \in Runs /\ y.visit = Cancelled[i].visit /\ y.cancelled = Cancelled[i].cancelled
  BY <1>9 DEF Runs
<1> HIDE DEF y
<1>11. /\ runs' \in Seq(Runs) /\ DOMAIN runs' = DOMAIN Cancelled
       /\ runs'[i] = y /\ \A j \in DOMAIN Cancelled : j # i => runs'[j] = Cancelled[j]
  BY <1>2, <1>9, <1>10, Replaced
<1>12. DOMAIN Cancelled = DOMAIN runs
  BY DEF Cancelled
<1>13. \A j \in DOMAIN runs' : runs'[j].visit \in DOMAIN visit' /\ runs'[j].cancelled
  BY <1>3, <1>10, <1>11, <1>12, CleanUp
<1>14. QED BY <1>2, <1>3, <1>6, <1>7, <1>8, <1>11, <1>13 DEF Still

\* Whoever scans, leaves, comes back or is asked for the camera, whenever the answer comes.
LEMMA CameraStep == CameraInv /\ [ScannerNext]_scanVars => CameraInv'
<1> SUFFICES ASSUME CameraInv, [ScannerNext]_scanVars PROVE CameraInv'
  OBVIOUS
<1>0. Still' => CameraInv'
  BY DEF Still, CameraInv, now
<1>1. CASE UNCHANGED <<visit, here, runs, live>>
  BY <1>1 DEF CameraInv, now
<1>2. CASE toggle
  <2>1. CASE visit[now].open
    BY <1>0, <1>2, <2>1, Closing DEF toggle, CameraInv
  <2>2. CASE ~visit[now].open
    BY <1>2, <2>2, Starting DEF toggle
  <2>3. QED BY <2>1, <2>2
<1>3. CASE Rerender
  BY <1>3, Starting DEF Rerender
<1>4. CASE comeBack
  <2>1. /\ ~here /\ live = {} /\ \A i \in DOMAIN runs : runs[i].cancelled
    BY <1>4 DEF comeBack, CameraInv
  <2>2. /\ visit' = Append(visit, Fresh) /\ here' = TRUE /\ runs' = runs /\ live' = live
    BY <1>4 DEF comeBack
  <2>3. Fresh \in Visits /\ Fresh.taken = 0
    BY DEF Fresh, Visits
  <2>4. visit \in Seq(Visits)
    BY DEF CameraInv
  <2>5. /\ visit' \in Seq(Visits) /\ Len(visit') = now + 1 /\ DOMAIN visit' = 1..(now + 1)
        /\ visit'[now + 1] = Fresh /\ \A v \in DOMAIN visit : visit'[v] = visit[v]
    BY <2>2, <2>3, <2>4, ScannersAre DEF now
  <2>6. \A v \in DOMAIN visit' : (v \in DOMAIN visit /\ v # now + 1) \/ v = now + 1
    BY <2>5, ScannersAre
  <2>7. \A v \in DOMAIN visit' :
          visit'[v].taken = 1 => visit'[v].handled /\ ~(v = Len(visit') /\ here')
    BY <2>3, <2>5, <2>6 DEF CameraInv
  <2>8. \A i \in DOMAIN runs' : runs'[i].visit \in DOMAIN visit' /\ runs'[i].cancelled
    BY <2>1, <2>2, <2>5, ScannersAre DEF CameraInv
  <2>9. visit' # << >> /\ runs' \in Seq(Runs)
    BY <2>2, <2>5, ScannersAre DEF CameraInv
  <2>10. Still'
    BY <2>1, <2>2, <2>5, <2>7, <2>8, <2>9 DEF Still, now
  <2>11. QED BY <1>0, <2>10
<1>5. ASSUME NEW i \in DOMAIN runs, Granted(i) PROVE CameraInv'
  <2>1. CASE runs[i].cancelled
    BY <1>5, <2>1, GoingOn DEF Granted
  <2>2. CASE ~runs[i].cancelled
    BY <1>5, <2>2, Watching
  <2>3. QED BY <2>1, <2>2
<1>6. ASSUME NEW i \in DOMAIN runs, Denied(i) \/ tick(i) \/ Missed(i) PROVE CameraInv'
  <2>1. UNCHANGED <<visit, here, live>>
    BY <1>6 DEF Denied, tick, Missed
  <2>2. \E step \in {"watching", "reading", "over"} : runs' = [runs EXCEPT ![i].step = step]
    BY <1>6 DEF Denied, tick, Missed
  <2>3. QED BY <2>1, <2>2, GoingOn
<1>7. ASSUME NEW s, onFile(s) \/ Leave(s) PROVE CameraInv'
  BY <1>0, <1>7, Closing DEF onFile, Leave
<1>8. ASSUME NEW s, NEW i \in DOMAIN runs, acceptRaw(i, s) PROVE CameraInv'
  BY <1>0, <1>8, Taking
<1>9. CASE load \/ clearStationScanHistory
  BY <1>1, <1>9 DEF load, clearStationScanHistory
<1>10. CASE ScannerNext
  BY <1>2, <1>3, <1>4, <1>5, <1>6, <1>7, <1>8, <1>9, <1>10 DEF ScannerNext
<1>11. QED BY <1>1, <1>10 DEF scanVars

\* A camera is on only for the page that shows it, and a scanner takes one code.
LEMMA CameraIs == CameraInv => CameraIsTheUsers
<1> SUFFICES ASSUME CameraInv PROVE CameraIsTheUsers
  OBVIOUS
<1>1. \A v \in DOMAIN visit : visit[v].taken \in 0..1
  BY ScannersAre DEF Visits
<1>2. QED BY <1>1 DEF CameraInv, CameraIsTheUsers

-------------------------------------------------------------------------------
(* The history. *)

\* Codes by where they stand last.
ByAge(r) == {p \in CodesOf(r) \X CodesOf(r) : LastIn(r, p[1]) > LastIn(r, p[2])}

\* Each code of a list stands last at one of its places.
LEMMA LastInIs ==
    ASSUME NEW C, NEW r \in Seq(C), NEW k \in CodesOf(r)
    PROVE  /\ LastIn(r, k) \in DOMAIN r /\ LastIn(r, k) \in Nat /\ r[LastIn(r, k)] = k
           /\ \A j \in DOMAIN r : r[j] = k => j <= LastIn(r, k)
<1> DEFINE n == Len(r)
           T == {n - i : i \in {j \in DOMAIN r : r[j] = k}}
<1>1. n \in Nat /\ DOMAIN r = 1..n
  OBVIOUS
<1>2. T \subseteq Nat /\ T # {}
  BY <1>1 DEF CodesOf
<1> HIDE DEF T
<1>3. \E x \in T : \A y \in T : <<y, x>> \notin OpToRel(<, Nat)
  BY <1>2, NatLessThanWellFounded, WFMin, Zenon
<1>4. PICK x \in T : \A y \in T : ~(y < x)
  BY <1>2, <1>3, Zenon DEF OpToRel
<1>5. PICK i \in DOMAIN r : r[i] = k /\ x = n - i
  BY <1>4 DEF T
<1>6. \A j \in DOMAIN r : r[j] = k => n - j \in T
  BY DEF T
<1>7. \A j \in DOMAIN r : r[j] = k => j <= i
  BY <1>1, <1>4, <1>5, <1>6
<1>8. QED BY <1>1, <1>5, <1>7 DEF LastIn

\* The codes of a list, by where they stand last, are in an order.
LEMMA AgeOrders ==
    ASSUME NEW C, NEW r \in Seq(C)
    PROVE  /\ IsFiniteSet(CodesOf(r)) /\ Cardinality(CodesOf(r)) \in Nat
           /\ Orders(ByAge(r), CodesOf(r))
           /\ \A k \in CodesOf(r) : Cardinality(Newer(r, k)) = Below(CodesOf(r), ByAge(r), k)
<1>1. IsFiniteSet(DOMAIN r)
  <2>1. DOMAIN r = 1..Len(r) /\ Len(r) \in Nat
    OBVIOUS
  <2>2. QED BY <2>1, FS_Interval
<1>2. IsFiniteSet(CodesOf(r)) /\ Cardinality(CodesOf(r)) \in Nat
  <2> DEFINE f == [i \in DOMAIN r |-> r[i]]
  <2>1. f \in [DOMAIN r -> CodesOf(r)] /\ \A k \in CodesOf(r) : \E i \in DOMAIN r : f[i] = k
    BY DEF CodesOf
  <2> HIDE DEF f
  <2>2. f \in Surjection(DOMAIN r, CodesOf(r))
    BY <2>1 DEF Surjection
  <2>3. QED BY <1>1, <2>2, FS_Surjection, FS_CardinalityType
<1>3. \A k \in CodesOf(r) : LastIn(r, k) \in Nat /\ r[LastIn(r, k)] = k
  BY LastInIs
<1>4. \A j, k \in CodesOf(r) : <<j, k>> \in ByAge(r) <=> LastIn(r, j) > LastIn(r, k)
  BY DEF ByAge
<1>5. \A j, k \in CodesOf(r) : LastIn(r, j) = LastIn(r, k) => j = k
  BY <1>3
<1>6. Orders(ByAge(r), CodesOf(r))
  BY <1>3, <1>4, <1>5 DEF Orders
<1>7. ASSUME NEW k \in CodesOf(r)
      PROVE  Cardinality(Newer(r, k)) = Below(CodesOf(r), ByAge(r), k)
  <2>1. Newer(r, k) = {j \in CodesOf(r) : <<j, k>> \in ByAge(r)}
    BY <1>4 DEF Newer
  <2>2. QED BY <2>1 DEF Below
<1>8. QED BY <1>2, <1>6, <1>7

\* A code that is added stands last; the others stay where they are.
LEMMA AddedLast ==
    ASSUME NEW C, NEW r \in Seq(C), NEW s \in C
    PROVE  /\ CodesOf(Append(r, s)) = CodesOf(r) \cup {s}
           /\ LastIn(Append(r, s), s) = Len(r) + 1
           /\ \A k \in CodesOf(r) : k # s => LastIn(Append(r, s), k) = LastIn(r, k)
           /\ \A k \in CodesOf(r) : LastIn(r, k) \in 1..Len(r)
<1> DEFINE t == Append(r, s)
           n == Len(r)
<1>1. /\ t \in Seq(C) /\ n \in Nat /\ DOMAIN r = 1..n /\ DOMAIN t = 1..(n + 1)
      /\ t[n + 1] = s /\ \A i \in 1..n : t[i] = r[i]
  OBVIOUS
<1> HIDE DEF t, n
<1>2. CodesOf(t) = CodesOf(r) \cup {s}
  <2>1. \A i \in 1..(n + 1) : i \in 1..n \/ i = n + 1
    BY <1>1
  <2>2. \A i \in 1..n : i \in 1..(n + 1)
    BY <1>1
  <2>3. n + 1 \in 1..(n + 1)
    BY <1>1
  <2>4. QED BY <1>1, <2>1, <2>2, <2>3 DEF CodesOf
<1>3. LastIn(t, s) = n + 1
  <2>1. /\ LastIn(t, s) \in DOMAIN t /\ \A j \in DOMAIN t : t[j] = s => j <= LastIn(t, s)
    BY <1>1, <1>2, LastInIs
  <2>2. n + 1 <= LastIn(t, s)
    BY <1>1, <2>1
  <2>3. QED BY <1>1, <2>1, <2>2
<1>4. ASSUME NEW k \in CodesOf(r), k # s PROVE LastIn(t, k) = LastIn(r, k)
  <2>1. /\ LastIn(r, k) \in 1..n /\ r[LastIn(r, k)] = k
        /\ \A j \in 1..n : r[j] = k => j <= LastIn(r, k)
    BY <1>1, LastInIs
  <2>2. /\ LastIn(t, k) \in 1..(n + 1) /\ t[LastIn(t, k)] = k
        /\ \A j \in 1..(n + 1) : t[j] = k => j <= LastIn(t, k)
    BY <1>1, <1>2, LastInIs
  <2>3. LastIn(t, k) \in 1..n /\ r[LastIn(t, k)] = k
    BY <1>1, <1>4, <2>2
  <2>4. LastIn(t, k) <= LastIn(r, k) /\ LastIn(r, k) <= LastIn(t, k)
    BY <1>1, <2>1, <2>2, <2>3
  <2>5. QED BY <1>1, <2>1, <2>3, <2>4
<1>5. \A k \in CodesOf(r) : LastIn(r, k) \in 1..n
  BY <1>1, LastInIs
<1>6. QED BY <1>2, <1>3, <1>4, <1>5 DEF t, n

\* What is remembered goes to the front of the history, and the history stays what was
\* told last.
LEMMA Remembering ==
    ASSUME NEW C, NEW r \in Seq(C), NEW list \in Seq(C), NEW m \in Nat \ {0},
           HoldsLast(list, r, m), NEW s \in C, NEW new,
           new = FirstOf(m, <<s>> \o KeptAt(list, {i \in DOMAIN list : list[i] # s}))
    PROVE  new \in Seq(C) /\ HoldsLast(new, Append(r, s), m)
<1> DEFINE S == CodesOf(r)
           N == Len(list)
           K == {i \in DOMAIN list : list[i] # s}
           q == Sorted(K, Ascending(K))
           c == Cardinality(K)
           rest == KeptAt(list, K)
           long == <<s>> \o rest
           t == Append(r, s)
           place(k) == Below(S, ByAge(r), k)
<1>1. /\ IsFiniteSet(S) /\ Cardinality(S) \in Nat /\ Orders(ByAge(r), S)
      /\ \A k \in S : Cardinality(Newer(r, k)) = place(k)
  BY AgeOrders
<1>2. /\ \A k \in S : place(k) \in Nat /\ place(k) + 1 \in 1..Cardinality(S)
      /\ \A j, k \in S : place(j) = place(k) => j = k
  BY <1>1, BelowIsPlace
<1>3. \A j, k \in S : LastIn(r, j) > LastIn(r, k) <=> place(j) < place(k)
  <2>1. \A j, k \in S : <<j, k>> \in ByAge(r) <=> LastIn(r, j) > LastIn(r, k)
    BY DEF ByAge
  <2>2. \A j, k \in S : <<j, k>> \in ByAge(r) => place(j) < place(k)
    BY <1>1, BelowGrows
  <2>3. \A j, k \in S : j # k => <<j, k>> \in ByAge(r) \/ <<k, j>> \in ByAge(r)
    BY <1>1 DEF Orders
  <2>4. \A k \in S : LastIn(r, k) \in Nat
    BY LastInIs
  <2> HIDE DEF S, place
  <2>5. ASSUME NEW j \in S, NEW k \in S
        PROVE  LastIn(r, j) > LastIn(r, k) <=> place(j) < place(k)
    <3>1. place(j) \in Nat /\ place(k) \in Nat /\ LastIn(r, j) \in Nat /\ LastIn(r, k) \in Nat
      BY <1>2, <2>4
    <3>2. CASE j = k
      BY <3>1, <3>2
    <3>3. CASE j # k
      <4>1. LastIn(r, j) > LastIn(r, k) => place(j) < place(k)
        BY <2>1, <2>2
      <4>2. LastIn(r, k) > LastIn(r, j) => place(k) < place(j)
        BY <2>1, <2>2
      <4>3. LastIn(r, j) > LastIn(r, k) \/ LastIn(r, k) > LastIn(r, j)
        BY <2>1, <2>3, <3>3
      <4>4. QED BY <3>1, <4>1, <4>2, <4>3
    <3>4. QED BY <3>2, <3>3
  <2>6. QED BY <2>5
<1>4. /\ N \in Nat /\ DOMAIN list = 1..N
      /\ N = IF Cardinality(S) < m THEN Cardinality(S) ELSE m
      /\ \A i \in 1..N : list[i] \in S /\ place(list[i]) = i - 1
  BY <1>1 DEF HoldsLast
<1>5. K \in SUBSET (1..N) /\ IsFiniteSet(1..N) /\ Cardinality(1..N) = N
  BY <1>4, FS_Interval
<1>6. IsFiniteSet(K) /\ c \in Nat
  BY <1>5, FS_Subset, FS_CardinalityType
<1>7. Orders(Ascending(K), K)
  BY <1>4 DEF Orders, Ascending
<1>8. \A n \in 1..c : q[n] \in K /\ Below(K, Ascending(K), q[n]) = n - 1
  BY <1>6, <1>7, SortedIs
<1>9. /\ rest \in Seq(C) /\ Len(rest) = c /\ \A n \in 1..c : rest[n] = list[q[n]]
  <2>1. K \in SUBSET DOMAIN list /\ rest = Taken(list, q)
    BY DEF KeptAt
  <2> HIDE DEF K, q, c, rest
  <2>2. rest \in Seq(C) /\ Takes(rest, q, list, K, Ascending(K))
    BY <1>7, <2>1, TakenIs DEF q
  <2>3. QED BY <2>2 DEF Takes, c
<1>10. \A p \in K : p \in 1..N /\ list[p] # s /\ list[p] \in S
  BY <1>4
<1>11. /\ CodesOf(t) = S \cup {s} /\ LastIn(t, s) = Len(r) + 1
       /\ \A k \in S : k # s => LastIn(t, k) = LastIn(r, k)
       /\ \A k \in S : LastIn(r, k) \in 1..Len(r)
  BY AddedLast
<1>12. ASSUME NEW p \in K
       PROVE  Cardinality(Newer(t, list[p])) = Below(K, Ascending(K), p) + 1
  <2> DEFINE B == {i \in K : <<i, p>> \in Ascending(K)}
             D == {j \in S : j # s /\ LastIn(r, j) > LastIn(r, list[p])}
             f == [i \in B |-> list[i]]
  <2>1. IsFiniteSet(B) /\ Cardinality(B) \in Nat
    BY <1>6, FS_Subset, FS_CardinalityType
  <2>2. \A i \in K : i \in B <=> i < p
    BY <1>10 DEF Ascending
  <2>3. \A j \in S : j \in D <=> j # s /\ place(j) < p - 1
    BY <1>3, <1>4, <1>10
  <2>4. \A i \in B : list[i] \in D
    BY <1>4, <1>10, <2>2, <2>3
  <2>5. \A i, j \in B : list[i] = list[j] => i = j
    BY <1>4, <1>10
  <2>6. ASSUME NEW j \in D PROVE \E i \in B : list[i] = j
    <3>1. j \in S /\ j # s /\ place(j) < p - 1
      BY <2>3
    <3>2. place(j) + 1 \in 1..N /\ place(j) + 1 < p
      <4>1. place(j) \in Nat /\ N \in Nat /\ p \in 1..N
        BY <1>2, <1>4, <1>10, <3>1
      <4> HIDE DEF place, N
      <4>2. QED BY <3>1, <4>1
    <3>3. list[place(j) + 1] \in S /\ place(list[place(j) + 1]) = place(j)
      BY <1>2, <1>4, <3>1, <3>2
    <3>4. list[place(j) + 1] = j
      BY <1>2, <3>1, <3>3
    <3>5. place(j) + 1 \in K
      BY <1>4, <3>1, <3>2, <3>4
    <3>6. QED BY <2>2, <3>2, <3>4, <3>5
  <2>7. f \in [B -> D] /\ \A i \in B : f[i] = list[i]
    BY <2>4
  <2> HIDE DEF f, B, D
  <2>8. f \in Bijection(B, D)
    BY <2>5, <2>6, <2>7 DEF Bijection, Injection, Surjection, IsInjective
  <2>9. IsFiniteSet(D) /\ Cardinality(D) = Cardinality(B)
    BY <2>1, <2>8, FS_Bijection DEF ExistsBijection
  <2>10. Newer(t, list[p]) = D \cup {s}
    <3>1. /\ LastIn(t, list[p]) = LastIn(r, list[p]) /\ LastIn(r, list[p]) \in 1..Len(r)
      BY <1>10, <1>11
    <3>2. LastIn(t, s) > LastIn(t, list[p])
      BY <1>11, <3>1
    <3>3. \A j \in S : j # s => (LastIn(t, j) > LastIn(t, list[p]) <=> j \in D)
      BY <1>11, <3>1 DEF D
    <3>4. \A j \in D : j \in S /\ j # s
      BY DEF D
    <3>5. QED BY <1>11, <3>2, <3>3, <3>4 DEF Newer
  <2>11. s \notin D
    BY DEF D
  <2>12. Cardinality(Newer(t, list[p])) = Cardinality(B) + 1
    BY <2>9, <2>10, <2>11, FS_AddElement
  <2>13. QED BY <2>12 DEF Below, B
<1>13. Cardinality(Newer(t, s)) = 0
  <2>1. \A k \in S \cup {s} : ~(LastIn(t, k) > LastIn(t, s))
    BY <1>11
  <2>2. Newer(t, s) = {}
    BY <1>11, <2>1 DEF Newer
  <2>3. QED BY <2>2, FS_EmptySet
<1> HIDE DEF S, K, q, c, rest, t, place, N
<1>14. /\ long \in Seq(C) /\ Len(long) = c + 1 /\ long[1] = s
       /\ \A n \in 1..c : long[n + 1] = rest[n]
  BY <1>6, <1>9
<1>15. ASSUME NEW i \in 1..(c + 1)
       PROVE  long[i] \in CodesOf(t) /\ Cardinality(Newer(t, long[i])) = i - 1
  <2>1. CASE i = 1
    BY <1>11, <1>13, <1>14, <2>1
  <2>2. CASE i # 1
    <3>1. i - 1 \in 1..c /\ (i - 1) + 1 = i
      BY <1>6, <2>2
    <3>2. long[i] = list[q[i - 1]] /\ q[i - 1] \in K
      BY <1>8, <1>9, <1>14, <3>1
    <3>3. Below(K, Ascending(K), q[i - 1]) = (i - 1) - 1
      BY <1>8, <3>1
    <3>4. Cardinality(Newer(t, long[i])) = ((i - 1) - 1) + 1
      BY <1>12, <3>2, <3>3
    <3>5. long[i] \in CodesOf(t)
      BY <1>10, <1>11, <3>2
    <3>6. ((i - 1) - 1) + 1 = i - 1
      BY <1>6
    <3>7. QED BY <3>4, <3>5, <3>6
  <2>3. QED BY <2>1, <2>2
<1> DEFINE l == IF c + 1 < m THEN c + 1 ELSE m
<1>16. new = SubSeq(long, 1, l)
  BY <1>14 DEF FirstOf, K, rest
<1> HIDE DEF long
<1>17. l \in Nat /\ l <= c + 1 /\ 1 <= l
  BY <1>6
<1> HIDE DEF l
<1>18. /\ new \in Seq(C) /\ Len(new) = l /\ DOMAIN new = 1..l
       /\ \A i \in 1..l : new[i] = long[i]
  <2>1. long \in Seq(C) /\ Len(long) = c + 1
    BY <1>14
  <2>2. new \in Seq(C) /\ Len(new) = l
    BY <1>6, <1>16, <1>17, <2>1
  <2>3. DOMAIN new = 1..l
    BY <2>2
  <2>4. \A i \in 1..l : new[i] = long[i]
    BY <1>6, <1>16, <1>17, <2>1
  <2>5. QED BY <2>2, <2>3, <2>4
<1>19. \A i \in DOMAIN new : new[i] \in CodesOf(t) /\ Cardinality(Newer(t, new[i])) = i - 1
  <2>1. \A i \in 1..l : i \in 1..(c + 1)
    BY <1>6, <1>17
  <2>2. QED BY <1>15, <1>18, <2>1
<1>20. l = IF Cardinality(CodesOf(t)) < m THEN Cardinality(CodesOf(t)) ELSE m
  <2>1. Cardinality(CodesOf(t)) = IF s \in S THEN Cardinality(S) ELSE Cardinality(S) + 1
    BY <1>1, <1>11, FS_AddElement
  <2>2. CASE s \notin S
    <3>1. K = 1..N
      BY <1>4, <2>2 DEF K
    <3>2. c = N
      BY <1>5, <3>1 DEF c
    <3>3. QED BY <1>1, <1>4, <2>1, <2>2, <3>2 DEF l
  <2>3. CASE s \in S /\ \E p \in 1..N : list[p] = s
    <3>1. PICK p \in 1..N : list[p] = s
      BY <2>3
    <3>2. K = (1..N) \ {p}
      <4>1. \A i \in 1..N : list[i] = s => i = p
        BY <1>4, <3>1
      <4>2. QED BY <1>4, <3>1, <4>1 DEF K
    <3>3. c = N - 1
      BY <1>5, <3>2, FS_RemoveElement DEF c
    <3>4. QED BY <1>1, <1>4, <2>1, <2>3, <3>3 DEF l
  <2>4. CASE s \in S /\ ~\E p \in 1..N : list[p] = s
    <3>1. K = 1..N
      BY <1>4, <2>4 DEF K
    <3>2. c = N
      BY <1>5, <3>1 DEF c
    <3>3. ASSUME Cardinality(S) < m PROVE FALSE
      <4>1. place(s) + 1 \in 1..N /\ place(s) \in Nat
        BY <1>2, <1>4, <2>4, <3>3
      <4>2. list[place(s) + 1] \in S /\ place(list[place(s) + 1]) = place(s)
        BY <1>4, <4>1
      <4>3. QED BY <1>2, <2>4, <4>1, <4>2
    <3>4. QED BY <1>1, <1>4, <2>1, <2>4, <3>2, <3>3 DEF l
  <2>5. QED BY <2>2, <2>3, <2>4
<1>21. QED BY <1>18, <1>19, <1>20 DEF HoldsLast, t

\* Nothing was told yet.
LEMMA NothingIsRecent ==
    ASSUME NEW m \in Nat PROVE HoldsLast(<< >>, << >>, m)
<1>1. CodesOf(<< >>) = {} /\ Cardinality(CodesOf(<< >>)) = 0
  BY FS_EmptySet DEF CodesOf
<1>2. QED BY <1>1 DEF HoldsLast

\* The history has the codes told last.
HistInv ==
    /\ remembered \in Seq(Signs) /\ kept \in Seq(Signs)
    /\ KeptIsRecent

\* Whatever is scanned, opened and cleared.
LEMMA HistStep == HistInv /\ [ScannerNext]_scanVars => HistInv'
<1> SUFFICES ASSUME HistInv, [ScannerNext]_scanVars PROVE HistInv'
  OBVIOUS
<1>1. ASSUME UNCHANGED <<kept, remembered>> PROVE HistInv'
  BY <1>1 DEF HistInv, KeptIsRecent
<1>2. ASSUME NEW s \in Signs, rememberStationScan(s) PROVE HistInv'
  <2>1. MaxKept \in Nat \ {0}
    BY ScreensAssumption
  <2>2. /\ remembered \in Seq(Signs) /\ kept \in Seq(Signs)
        /\ HoldsLast(kept, remembered, MaxKept)
    BY DEF HistInv, KeptIsRecent
  <2>3. /\ kept' = FirstOf(MaxKept, <<s>> \o KeptAt(kept, {i \in DOMAIN kept : kept[i] # s}))
        /\ remembered' = Append(remembered, s)
    BY <1>2 DEF rememberStationScan, Without
  <2>4. kept' \in Seq(Signs) /\ HoldsLast(kept', Append(remembered, s), MaxKept)
    BY <2>1, <2>2, <2>3, Remembering
  <2>5. remembered' \in Seq(Signs)
    BY <2>2, <2>3
  <2>6. QED BY <2>3, <2>4, <2>5 DEF HistInv, KeptIsRecent
<1>3. CASE clearStationScanHistory
  <2>1. kept' = << >> /\ remembered' = << >>
    BY <1>3 DEF clearStationScanHistory
  <2>2. HoldsLast(<< >>, << >>, MaxKept)
    BY NothingIsRecent, ScreensAssumption
  <2>3. QED BY <2>1, <2>2 DEF HistInv, KeptIsRecent
<1>4. ASSUME NEW s \in Signs, onFile(s) \/ \E i \in DOMAIN runs : acceptRaw(i, s)
      PROVE  HistInv'
  BY <1>2, <1>4 DEF onFile, acceptRaw
<1>5. ASSUME NEW s \in {StickerOf[k] : k \in Signs}, Leave(s) PROVE HistInv'
  <2>1. s \in Signs \/ s = NoSign
    BY ScreensAssumption
  <2>2. CASE s = NoSign
    BY <1>1, <1>5, <2>2 DEF Leave
  <2>3. CASE s # NoSign
    BY <1>2, <1>5, <2>1, <2>3 DEF Leave
  <2>4. QED BY <2>2, <2>3
<1>6. CASE load
  <2>1. remembered[Len(remembered)] \in Signs
    BY <1>6 DEF load, HistInv
  <2>2. PICK s : s # NoSign /\ s \in Signs /\ rememberStationScan(s)
    BY <1>6, <2>1, ScreensAssumption DEF load
  <2>3. QED BY <1>2, <2>2
<1>7. CASE \E i \in DOMAIN runs : Granted(i) \/ Denied(i) \/ tick(i) \/ Missed(i)
  BY <1>1, <1>7 DEF Granted, Denied, tick, Missed
<1>8. CASE toggle \/ Rerender \/ comeBack
  BY <1>1, <1>8 DEF toggle, Rerender, comeBack
<1>9. CASE ScannerNext
  BY <1>3, <1>4, <1>5, <1>6, <1>7, <1>8, <1>9 DEF ScannerNext
<1>10. QED BY <1>1, <1>9 DEF scanVars

\* As they are at first.
LEMMA ScreensInitially == ScreensInit => PanelInv /\ CameraInv /\ HistInv
<1> SUFFICES ASSUME ScreensInit PROVE PanelInv /\ CameraInv /\ HistInv
  OBVIOUS
<1>1. PanelInv
  <2> DEFINE x == [city |-> "all", cancelled |-> FALSE, over |-> FALSE]
  <2>1. loads = <<x>> /\ deptFilter = "all" /\ error = FALSE
    BY DEF ScreensInit
  <2>2. x \in Loads /\ ~x.cancelled /\ ~x.over /\ x.city = "all"
    BY DEF Loads
  <2> HIDE DEF x
  <2>3. /\ loads \in Seq(Loads) /\ Len(loads) = 1 /\ loads[1] = x /\ loads # << >>
        /\ \A i \in DOMAIN loads : i = 1
    BY <2>1, <2>2
  <2>4. QED BY <2>1, <2>2, <2>3 DEF PanelInv
<1>2. CameraInv
  <2>1. visit = <<Fresh>> /\ here = TRUE /\ runs = << >> /\ live = {}
    BY DEF ScreensInit
  <2>2. Fresh \in Visits /\ Fresh.taken # 1
    BY DEF Fresh, Visits
  <2>3. /\ visit \in Seq(Visits) /\ visit # << >> /\ \A v \in DOMAIN visit : visit[v] = Fresh
        /\ runs \in Seq(Runs) /\ DOMAIN runs = {}
    BY <2>1, <2>2
  <2>4. QED BY <2>1, <2>2, <2>3 DEF CameraInv
<1>3. HistInv
  <2>1. kept = << >> /\ remembered = << >>
    BY DEF ScreensInit
  <2>2. HoldsLast(<< >>, << >>, MaxKept)
    BY NothingIsRecent, ScreensAssumption
  <2>3. QED BY <2>1, <2>2 DEF HistInv, KeptIsRecent
<1>4. QED BY <1>1, <1>2, <1>3

\* Together they are what the screens promise.
LEMMA ScreensKeep ==
    PanelInv /\ CameraInv /\ HistInv => ScreensKeepUp
BY PanelShows, CameraIs DEF HistInv, ScreensKeepUp
===============================================================================
