------------------------------ MODULE SumTheorems ------------------------------
(***************************************************************************)
(* Sums of a function over finite sets, as SumFunctionOnSet of the         *)
(* community module Functions defines them: what they are for the empty    *)
(* set, for a set and one more element, and how they compare.              *)
(***************************************************************************)
EXTENDS Functions, FiniteSets, FiniteSetTheorems, WellFoundedInduction, TLAPS

\* g is the function whose recursive definition SumFunctionOnSet(f, S) contains.
Sums(f, S, g) ==
    g = [s \in SUBSET S |-> IF s = {} THEN 0
                            ELSE LET x == CHOOSE x \in s : TRUE IN f[x] + g[s \ {x}]]

SumOf(f, S) == (CHOOSE g : Sums(f, S, g))[S]

\* The community module's operator is that function's value.
LEMMA SumUnfolds == \A f, S : SumFunctionOnSet(f, S) = SumOf(f, S)
  BY DEF SumFunctionOnSet, FoldFunctionOnSet, MapThenFoldSet, SumOf, Sums

\* Among some finite sets there is one that contains no other.
LEMMA LeastSet ==
    ASSUME NEW S, IsFiniteSet(S), NEW B, B \subseteq SUBSET S, B # {}
    PROVE  \E T \in B : \A U \in B : ~(U \subseteq T /\ U # T)
<1>1. FiniteSubsetsOf(S) = SUBSET S
  BY FS_FiniteSubsetsOfFinite
<1>2. IsWellFoundedOn(StrictSubsetOrdering(S), SUBSET S)
  BY <1>1, FS_StrictSubsetOrderingWellFounded
<1>3. PICK T \in B : \A U \in B : <<U, T>> \notin StrictSubsetOrdering(S)
  BY <1>2, WFMin
<1>4. QED BY <1>3 DEF StrictSubsetOrdering

\* The element that the recursion takes next.
Picked(s) == CHOOSE x \in s : TRUE

\* The element picked from a set that is not empty is one of it.
LEMMA PickedIn == \A s : s # {} => Picked(s) \in s
  BY DEF Picked

\* What it means to be the function of the definition, one set at a time.
LEMMA SumsAt ==
    ASSUME NEW f, NEW S, NEW g, Sums(f, S, g), NEW T \in SUBSET S
    PROVE  g[T] = IF T = {} THEN 0 ELSE f[Picked(T)] + g[T \ {Picked(T)}]
  BY DEF Sums, Picked

\* Two such functions agree where both are defined.
LEMMA SumsAgree ==
    ASSUME NEW f, NEW S, IsFiniteSet(S), NEW T \in SUBSET S, NEW g, NEW h,
           Sums(f, S, g), Sums(f, T, h)
    PROVE  \A U \in SUBSET T : g[U] = h[U]
<1> DEFINE B == {U \in SUBSET T : g[U] # h[U]}
<1> SUFFICES ASSUME B # {} PROVE FALSE
  OBVIOUS
<1>1. IsFiniteSet(T)
  BY FS_Subset
<1>2. PICK U \in B : \A V \in B : ~(V \subseteq U /\ V # U)
  <2>1. B \subseteq SUBSET T
    OBVIOUS
  <2> HIDE DEF B
  <2>2. QED BY <1>1, <2>1, LeastSet
<1>3. U \in SUBSET T /\ U \in SUBSET S /\ g[U] # h[U]
  OBVIOUS
<1>4. U # {}
  BY <1>3, SumsAt
<1> DEFINE V == U \ {Picked(U)}
<1>5. V \subseteq U /\ V # U /\ V \in SUBSET T
  BY <1>3, <1>4, PickedIn
<1>6. g[V] = h[V]
  BY <1>2, <1>5
<1>7. g[U] = f[Picked(U)] + g[V] /\ h[U] = f[Picked(U)] + h[V]
  BY <1>3, <1>4, SumsAt
<1>8. QED BY <1>3, <1>6, <1>7

\* On a set and the function of that set, in the form the proofs below use.
LEMMA SumsAgreeOn ==
    ASSUME NEW f, NEW S, NEW R, IsFiniteSet(S), R \in SUBSET S, R \in SUBSET R, NEW g, NEW h,
           Sums(f, S, g), Sums(f, R, h)
    PROVE  g[R] = h[R]
  BY SumsAgree

\* There is such a function for a finite set: each set takes its value from the
\* function of a smaller one.
LEMMA SumsExist ==
    ASSUME NEW f, NEW S, IsFiniteSet(S)
    PROVE  \E g : Sums(f, S, g)
<1> DEFINE B == {T \in SUBSET S : ~ \E g : Sums(f, T, g)}
<1>1. SUFFICES ASSUME B # {} PROVE FALSE
  OBVIOUS
<1>2. PICK T \in B : \A U \in B : ~(U \subseteq T /\ U # T)
  <2>1. B \subseteq SUBSET S
    OBVIOUS
  <2> HIDE DEF B
  <2>2. QED BY <1>1, <2>1, LeastSet
<1>3. T \in SUBSET S /\ (~ \E g : Sums(f, T, g)) /\ IsFiniteSet(T)
  BY FS_Subset
<1> DEFINE Part(U) == CHOOSE g : Sums(f, U, g)
<1>4. ASSUME NEW U \in SUBSET T, U # T PROVE Sums(f, U, Part(U))
  <2>1. U \notin B /\ U \in SUBSET S
    BY <1>2, <1>3, <1>4
  <2>2. \E g : Sums(f, U, g)
    BY <2>1
  <2>3. QED BY <2>2
<1> DEFINE G == [s \in SUBSET T |-> IF s = {} THEN 0
                                    ELSE f[Picked(s)] + Part(s \ {Picked(s)})[s \ {Picked(s)}]]
<1> HIDE DEF Part, B
<1>5. ASSUME NEW s \in SUBSET T, s # {}
      PROVE  G[s] = f[Picked(s)] + G[s \ {Picked(s)}]
  <2> DEFINE u == s \ {Picked(s)}
             v == u \ {Picked(u)}
  <2>1. u \in SUBSET T /\ u # T
    BY <1>5, PickedIn
  <2>2. Sums(f, u, Part(u))
    BY <1>4, <2>1
  <2>3. Part(u)[u] = G[u]
    <3>1. CASE u = {}
      <4>1. Part(u)[u] = 0
        BY <2>2, <3>1, SumsAt
      <4>2. G[u] = 0
        BY <2>1, <3>1
      <4>3. QED BY <4>1, <4>2
    <3>2. CASE u # {}
      <4>1. v \in SUBSET u /\ v \in SUBSET T /\ v # T /\ IsFiniteSet(u)
        BY <1>3, <2>1, FS_Subset
      <4>2. Part(u)[u] = f[Picked(u)] + Part(u)[v]
        <5>1. u \in SUBSET u
          OBVIOUS
        <5> HIDE DEF u
        <5>2. QED BY <2>2, <3>2, <5>1, SumsAt
      <4>3. Sums(f, v, Part(v))
        BY <1>4, <4>1
      <4>4. Part(u)[v] = Part(v)[v]
        <5>1. v \in SUBSET v
          OBVIOUS
        <5> HIDE DEF u, v
        <5>2. \A U \in SUBSET v : Part(u)[U] = Part(v)[U]
          BY <2>2, <4>1, <4>3, SumsAgree
        <5>3. QED BY <5>1, <5>2
      <4>5. G[u] = f[Picked(u)] + Part(v)[v]
        BY <2>1, <3>2
      <4>6. QED BY <4>2, <4>4, <4>5
    <3>3. QED BY <3>1, <3>2
  <2>4. QED BY <1>5, <2>3
<1>6. G = [s \in SUBSET T |-> IF s = {} THEN 0 ELSE f[Picked(s)] + G[s \ {Picked(s)}]]
  <2> DEFINE H == [s \in SUBSET T |-> IF s = {} THEN 0 ELSE f[Picked(s)] + G[s \ {Picked(s)}]]
  <2>1. \A s \in SUBSET T : G[s] = H[s]
    BY <1>5
  <2>2. DOMAIN G = SUBSET T /\ DOMAIN H = SUBSET T
    OBVIOUS
  <2>3. QED BY <2>1, <2>2
<1>7. Sums(f, T, G)
  BY <1>6 DEF Sums, Picked
<1>8. QED BY <1>3, <1>7

-------------------------------------------------------------------------------
(* What a sum is. *)

\* Nothing adds up to zero.
LEMMA SumEmpty == \A f : SumFunctionOnSet(f, {}) = 0
<1> SUFFICES ASSUME NEW f PROVE SumOf(f, {}) = 0
  BY SumUnfolds
<1>1. Sums(f, {}, CHOOSE g : Sums(f, {}, g))
  BY SumsExist, FS_EmptySet
<1>2. QED BY <1>1, SumsAt DEF SumOf

\* The sum over a set is that of its picked element and the sum over the rest.
LEMMA SumPicked ==
    ASSUME NEW f, NEW S, IsFiniteSet(S), S # {}
    PROVE  SumFunctionOnSet(f, S) = f[Picked(S)] + SumFunctionOnSet(f, S \ {Picked(S)})
<1>1. PICK R : R = S \ {Picked(S)}
  OBVIOUS
<1>2. IsFiniteSet(R) /\ R \in SUBSET S /\ R \in SUBSET R
  BY <1>1, FS_Subset
<1>3. PICK g : g = CHOOSE i : Sums(f, S, i)
  OBVIOUS
<1>4. PICK h : h = CHOOSE i : Sums(f, R, i)
  OBVIOUS
<1>5. Sums(f, S, g) /\ Sums(f, R, h)
  BY <1>2, <1>3, <1>4, SumsExist
<1>6. g[S] = f[Picked(S)] + g[R]
  BY <1>1, <1>5, SumsAt
<1>7. g[R] = h[R]
  BY <1>2, <1>5, SumsAgreeOn
<1>8. SumOf(f, S) = g[S] /\ SumOf(f, R) = h[R]
  BY <1>3, <1>4 DEF SumOf
<1>9. QED BY <1>1, <1>2, <1>6, <1>7, <1>8, SumUnfolds

\* Sums of integers are integers.
LEMMA SumInt ==
    ASSUME NEW f, NEW S, IsFiniteSet(S), \A x \in S : f[x] \in Int
    PROVE  SumFunctionOnSet(f, S) \in Int
<1> DEFINE B == {T \in SUBSET S : SumFunctionOnSet(f, T) \notin Int}
<1>1. SUFFICES ASSUME B # {} PROVE FALSE
  OBVIOUS
<1>2. PICK T \in B : \A U \in B : ~(U \subseteq T /\ U # T)
  <2>1. B \subseteq SUBSET S
    OBVIOUS
  <2> HIDE DEF B
  <2>2. QED BY <1>1, <2>1, LeastSet
<1>3. T # {} /\ IsFiniteSet(T) /\ T \in SUBSET S
  <2>1. T \in SUBSET S /\ SumFunctionOnSet(f, T) \notin Int
    OBVIOUS
  <2>2. T # {}
    BY <2>1, SumEmpty
  <2>3. QED BY <2>1, <2>2, FS_Subset
<1>4. T \ {Picked(T)} \notin B
  BY <1>2, <1>3, PickedIn
<1>5. SumFunctionOnSet(f, T \ {Picked(T)}) \in Int /\ f[Picked(T)] \in Int
  BY <1>3, <1>4, PickedIn
<1>6. QED BY <1>3, <1>5, SumPicked

\* One more element adds its value.
LEMMA SumAdd ==
    ASSUME NEW f, NEW S, IsFiniteSet(S), NEW x, x \notin S, \A y \in S \cup {x} : f[y] \in Int
    PROVE  SumFunctionOnSet(f, S \cup {x}) = SumFunctionOnSet(f, S) + f[x]
<1> DEFINE A == S \cup {x}
           Adds(T) == \A y \in A \ T : SumFunctionOnSet(f, T \cup {y}) = SumFunctionOnSet(f, T) + f[y]
           B == {T \in SUBSET A : ~Adds(T)}
<1>0. IsFiniteSet(A)
  BY FS_AddElement
<1>1. SUFFICES ASSUME B # {} PROVE FALSE
  <2>1. S \in SUBSET A /\ x \in A \ S
    OBVIOUS
  <2>2. QED BY <2>1
<1>2. PICK T \in B : \A U \in B : ~(U \subseteq T /\ U # T)
  <2>1. B \subseteq SUBSET A
    OBVIOUS
  <2> HIDE DEF B
  <2>2. QED BY <1>0, <1>1, <2>1, LeastSet
<1>3. PICK y \in A \ T : SumFunctionOnSet(f, T \cup {y}) # SumFunctionOnSet(f, T) + f[y]
  OBVIOUS
<1> DEFINE U == T \cup {y}
           c == Picked(U)
           D == T \ {c}
<1>4. c \in U /\ T \in SUBSET A /\ U \in SUBSET A /\ U # {}
  BY PickedIn
<1>5. \A V \in SUBSET A : IsFiniteSet(V) /\ SumFunctionOnSet(f, V) \in Int
  BY <1>0, FS_Subset, SumInt
<1>6. SumFunctionOnSet(f, U) = f[c] + SumFunctionOnSet(f, U \ {c})
  BY <1>4, <1>5, SumPicked
<1>7. f[c] \in Int /\ f[y] \in Int
  BY <1>4
<1>8. CASE c = y
  <2>1. U \ {c} = T
    BY <1>8
  <2>2. SumFunctionOnSet(f, U) = f[c] + SumFunctionOnSet(f, T)
    BY <1>6, <2>1
  <2>3. SumFunctionOnSet(f, T) \in Int
    BY <1>4, <1>5
  <2> HIDE DEF A, U, c
  <2>4. QED BY <1>3, <1>7, <1>8, <2>2, <2>3 DEF U
<1>9. CASE c # y
  <2>1. c \in T /\ D \subseteq T /\ D # T /\ D \in SUBSET A
    BY <1>4, <1>9
  <2>2. Adds(D)
    BY <1>2, <2>1
  <2>3. D \cup {c} = T /\ c \in A \ D /\ y \in A \ D /\ U \ {c} = D \cup {y}
    BY <1>4, <1>9, <2>1
  <2>4. /\ SumFunctionOnSet(f, T) = SumFunctionOnSet(f, D) + f[c]
        /\ SumFunctionOnSet(f, U \ {c}) = SumFunctionOnSet(f, D) + f[y]
    BY <2>2, <2>3
  <2>5. SumFunctionOnSet(f, D) \in Int
    BY <1>5, <2>1
  <2>6. SumFunctionOnSet(f, U) = SumFunctionOnSet(f, T) + f[y]
    <3> HIDE DEF A, U, c, D, Adds
    <3>1. QED BY <1>6, <1>7, <2>4, <2>5
  <2>7. QED BY <1>3, <2>6
<1>10. QED BY <1>8, <1>9

\* A sum depends only on the values of the elements.
LEMMA SumSame ==
    ASSUME NEW f, NEW g, NEW S, IsFiniteSet(S), \A x \in S : f[x] = g[x]
    PROVE  SumFunctionOnSet(f, S) = SumFunctionOnSet(g, S)
<1> DEFINE B == {T \in SUBSET S : SumFunctionOnSet(f, T) # SumFunctionOnSet(g, T)}
<1>1. SUFFICES ASSUME B # {} PROVE FALSE
  OBVIOUS
<1>2. PICK T \in B : \A U \in B : ~(U \subseteq T /\ U # T)
  <2>1. B \subseteq SUBSET S
    OBVIOUS
  <2> HIDE DEF B
  <2>2. QED BY <1>1, <2>1, LeastSet
<1>3. T \in SUBSET S /\ SumFunctionOnSet(f, T) # SumFunctionOnSet(g, T)
  OBVIOUS
<1>4. T # {} /\ IsFiniteSet(T)
  BY <1>3, SumEmpty, FS_Subset
<1>5. T \ {Picked(T)} \notin B
  BY <1>2, <1>4, PickedIn
<1>6. SumFunctionOnSet(f, T \ {Picked(T)}) = SumFunctionOnSet(g, T \ {Picked(T)})
  BY <1>3, <1>5
<1>7. f[Picked(T)] = g[Picked(T)]
  BY <1>3, <1>4, PickedIn
<1>8. /\ SumFunctionOnSet(f, T) = f[Picked(T)] + SumFunctionOnSet(f, T \ {Picked(T)})
      /\ SumFunctionOnSet(g, T) = g[Picked(T)] + SumFunctionOnSet(g, T \ {Picked(T)})
  BY <1>4, SumPicked
<1>9. QED BY <1>3, <1>6, <1>7, <1>8

\* One more element, and the values of the others as they were.
LEMMA SumExtends ==
    ASSUME NEW f, NEW g, NEW S, IsFiniteSet(S), NEW x, x \notin S,
           \A y \in S : g[y] = f[y] /\ f[y] \in Int, g[x] \in Int
    PROVE  SumFunctionOnSet(g, S \cup {x}) = SumFunctionOnSet(f, S) + g[x]
<1>1. SumFunctionOnSet(g, S \cup {x}) = SumFunctionOnSet(g, S) + g[x]
  <2>1. \A y \in S \cup {x} : g[y] \in Int
    OBVIOUS
  <2>2. QED BY <2>1, SumAdd
<1>2. SumFunctionOnSet(g, S) = SumFunctionOnSet(f, S)
  BY SumSame
<1>3. QED BY <1>1, <1>2

\* Of some numbers one is the least.
LEMMA LeastNumber ==
    ASSUME NEW B \in SUBSET Nat, B # {}
    PROVE  \E n \in B : \A m \in B : n <= m
<1>1. \E x \in B : \A y \in B : <<y, x>> \notin OpToRel(<, Nat)
  BY NatLessThanWellFounded, WFMin, Zenon
<1>2. PICK x \in B : \A y \in B : ~(y < x)
  BY <1>1, Zenon DEF OpToRel
<1>3. QED BY <1>2

\* Differences add up to the difference of the ends.
LEMMA StepsAddUp ==
    ASSUME NEW N \in Nat, NEW F, \A j \in 0..N : F[j] \in Int,
           NEW f, \A j \in 1..N : f[j] = F[j] - F[j - 1]
    PROVE  SumFunctionOnSet(f, 1..N) = F[N] - F[0]
<1> DEFINE B == {j \in 0..N : SumFunctionOnSet(f, 1..j) # F[j] - F[0]}
<1> SUFFICES ASSUME B # {} PROVE FALSE
  OBVIOUS
<1>1. B \in SUBSET Nat
  OBVIOUS
<1> HIDE DEF B
<1>2. PICK m \in B : \A i \in B : m <= i
  BY <1>1, LeastNumber
<1>3. m \in 0..N /\ SumFunctionOnSet(f, 1..m) # F[m] - F[0]
  BY <1>2 DEF B
<1>4. m # 0
  <2>1. 1..0 = {}
    OBVIOUS
  <2>2. SumFunctionOnSet(f, 1..0) = 0 /\ F[0] - F[0] = 0
    BY <2>1, SumEmpty
  <2>3. QED BY <1>3, <2>2
<1>5. m - 1 \in 0..N /\ m \in 1..N /\ m - 1 < m
  BY <1>3, <1>4
<1>6. SumFunctionOnSet(f, 1..(m - 1)) = F[m - 1] - F[0]
  BY <1>2, <1>5 DEF B
<1>7. SumFunctionOnSet(f, 1..m) = SumFunctionOnSet(f, 1..(m - 1)) + f[m]
  <2>1. 1..m = (1..(m - 1)) \cup {m} /\ m \notin 1..(m - 1)
    BY <1>5
  <2>2. IsFiniteSet(1..(m - 1))
    BY <1>5, FS_Interval
  <2>3. \A j \in (1..(m - 1)) \cup {m} : f[j] \in Int
    <3>1. ASSUME NEW j \in 1..N PROVE f[j] \in Int
      <4>1. j \in 0..N /\ j - 1 \in 0..N
        OBVIOUS
      <4>2. QED BY <4>1
    <3>2. QED BY <1>5, <3>1
  <2>4. SumFunctionOnSet(f, (1..(m - 1)) \cup {m}) = SumFunctionOnSet(f, 1..(m - 1)) + f[m]
    BY <2>1, <2>2, <2>3, SumAdd
  <2>5. QED BY <2>1, <2>4
<1>8. f[m] = F[m] - F[m - 1] /\ F[m] \in Int /\ F[m - 1] \in Int /\ F[0] \in Int
  BY <1>5
<1>9. QED BY <1>3, <1>6, <1>7, <1>8

\* A set in parts that h tells apart: which, and how large each is.
PartsBy(h, S) == {h[i] : i \in S}
PartSizes(h, S) == [g \in PartsBy(h, S) |-> Cardinality({i \in S : h[i] = g})]

\* The parts of a finite set have as many elements as it has.
LEMMA SumOfParts ==
    ASSUME NEW S, IsFiniteSet(S), NEW h
    PROVE  SumFunctionOnSet(PartSizes(h, S), PartsBy(h, S)) = Cardinality(S)
<1>1. PICK H, f : H = PartsBy(h, S) /\ f = PartSizes(h, S)
  OBVIOUS
<1>2. H = {h[i] : i \in S} /\ \A g \in H : f[g] = Cardinality({i \in S : h[i] = g})
  BY <1>1 DEF PartsBy, PartSizes
<1> DEFINE Those(T) == {i \in S : h[i] \in T}
           B == {T \in SUBSET H : SumFunctionOnSet(f, T) # Cardinality(Those(T))}
<1>3. IsFiniteSet(H)
  <2> DEFINE e == [i \in S |-> h[i]]
  <2>1. e \in Surjection(S, H)
    BY <1>2 DEF Surjection
  <2>2. QED BY <2>1, FS_Surjection
<1>4. \A T : IsFiniteSet(Those(T)) /\ Cardinality(Those(T)) \in Nat
  BY FS_Subset, FS_CardinalityType
<1>5. \A g \in H : f[g] = Cardinality(Those({g})) /\ f[g] \in Int
  <2>1. ASSUME NEW g \in H PROVE f[g] = Cardinality(Those({g})) /\ f[g] \in Int
    <3>1. Those({g}) = {i \in S : h[i] = g}
      OBVIOUS
    <3>2. f[g] = Cardinality(Those({g}))
      BY <1>2, <3>1
    <3> HIDE DEF Those
    <3>3. QED BY <1>4, <3>2
  <2>2. QED BY <2>1
<1>6. B = {}
  <2>1. SUFFICES ASSUME B # {} PROVE FALSE
    OBVIOUS
  <2>2. B \subseteq SUBSET H
    OBVIOUS
  <2>3. PICK T \in B : \A U \in B : ~(U \subseteq T /\ U # T)
    <3> HIDE DEF B
    <3>1. QED BY <1>3, <2>1, <2>2, LeastSet
  <2>4. T \in SUBSET H /\ SumFunctionOnSet(f, T) # Cardinality(Those(T))
    OBVIOUS
  <2>5. T # {}
    <3>1. Those({}) = {}
      OBVIOUS
    <3>2. QED BY <2>4, <3>1, SumEmpty, FS_EmptySet
  <2>6. PICK g \in T : TRUE
    BY <2>5
  <2>7. PICK U : U = T \ {g}
    OBVIOUS
  <2>8. U \subseteq T /\ U # T /\ U \in SUBSET H /\ T = U \cup {g} /\ g \notin U /\ g \in H
    BY <2>4, <2>6, <2>7
  <2>9. SumFunctionOnSet(f, U) = Cardinality(Those(U))
    BY <2>3, <2>8
  <2>10. SumFunctionOnSet(f, T) = SumFunctionOnSet(f, U) + f[g]
    <3>1. IsFiniteSet(U) /\ \A j \in U \cup {g} : f[j] \in Int
      BY <1>3, <1>5, <2>8, FS_Subset
    <3>2. QED BY <2>8, <3>1, SumAdd
  <2>11. Cardinality(Those(T)) = Cardinality(Those(U)) + Cardinality(Those({g}))
    <3>1. Those(T) = Those(U) \cup Those({g}) /\ Those(U) \cap Those({g}) = {}
      BY <2>8
    <3> HIDE DEF Those
    <3>2. PICK X, Y : X = Those(U) /\ Y = Those({g})
      OBVIOUS
    <3>3. /\ IsFiniteSet(X) /\ IsFiniteSet(Y) /\ X \cap Y = {} /\ Those(T) = X \cup Y
          /\ Cardinality(X) \in Nat /\ Cardinality(Y) \in Nat
      BY <1>4, <3>1, <3>2
    <3>4. Cardinality(X \cup Y) = Cardinality(X) + Cardinality(Y) - Cardinality(X \cap Y)
      BY <3>3, FS_Union
    <3>5. Cardinality(X \cap Y) = 0
      BY <3>3, FS_EmptySet
    <3>6. Cardinality(X \cup Y) = Cardinality(X) + Cardinality(Y)
      BY <3>3, <3>4, <3>5
    <3>7. QED BY <3>2, <3>3, <3>6
  <2>12. QED BY <1>5, <2>4, <2>8, <2>9, <2>10, <2>11
<1>7. Those(H) = S
  BY <1>2
<1> HIDE DEF Those
<1>8. QED BY <1>1, <1>6, <1>7

-------------------------------------------------------------------------------
(* Small sums and small sets. *)

\* A sum over one thing is its value.
LEMMA SumOfOne ==
    ASSUME NEW f, NEW a, f[a] \in Int
    PROVE  SumFunctionOnSet(f, {a}) = f[a]
<1>1. SumFunctionOnSet(f, {} \cup {a}) = SumFunctionOnSet(f, {}) + f[a]
  BY SumAdd, FS_EmptySet
<1>2. {} \cup {a} = {a}
  OBVIOUS
<1>3. QED BY <1>1, <1>2, SumEmpty

\* A sum over two things.
LEMMA SumOfTwo ==
    ASSUME NEW f, NEW a, NEW b, a # b, f[a] \in Int, f[b] \in Int
    PROVE  SumFunctionOnSet(f, {a, b}) = f[a] + f[b]
<1>1. IsFiniteSet({a}) /\ b \notin {a} /\ \A y \in {a} \cup {b} : f[y] \in Int
  BY FS_Singleton
<1>2. SumFunctionOnSet(f, {a} \cup {b}) = SumFunctionOnSet(f, {a}) + f[b]
  BY <1>1, SumAdd
<1>3. {a} \cup {b} = {a, b}
  OBVIOUS
<1>4. QED BY <1>2, <1>3, SumOfOne

\* A sum over three things.
LEMMA SumOfThree ==
    ASSUME NEW f, NEW a, NEW b, NEW c, a # b, b # c, a # c,
           f[a] \in Int, f[b] \in Int, f[c] \in Int
    PROVE  SumFunctionOnSet(f, {a, b, c}) = f[a] + f[b] + f[c]
<1>1. IsFiniteSet({a, b})
  <2>1. {a} \cup {b} = {a, b}
    OBVIOUS
  <2>2. IsFiniteSet({a})
    BY FS_Singleton
  <2>3. IsFiniteSet({a} \cup {b})
    BY <2>2, FS_AddElement
  <2>4. QED BY <2>1, <2>3
<1>2. c \notin {a, b} /\ \A y \in {a, b} \cup {c} : f[y] \in Int
  OBVIOUS
<1>3. SumFunctionOnSet(f, {a, b} \cup {c}) = SumFunctionOnSet(f, {a, b}) + f[c]
  BY <1>1, <1>2, SumAdd
<1>4. {a, b} \cup {c} = {a, b, c}
  OBVIOUS
<1>5. QED BY <1>3, <1>4, SumOfTwo

\* The sum of a function of three things.
LEMMA SumOverThree ==
    ASSUME NEW f, NEW a, NEW b, NEW c, a # b, b # c, a # c, DOMAIN f = {a, b, c},
           f[a] \in Int, f[b] \in Int, f[c] \in Int
    PROVE  SumFunction(f) = f[a] + f[b] + f[c]
<1>1. SumFunctionOnSet(f, {a, b, c}) = f[a] + f[b] + f[c]
  BY SumOfThree
<1>2. QED BY <1>1 DEF SumFunction

\* Two things that differ are two.
LEMMA TwoThings ==
    ASSUME NEW a, NEW b, a # b
    PROVE  IsFiniteSet({a, b}) /\ Cardinality({a, b}) = 2
<1>1. IsFiniteSet({a}) /\ Cardinality({a}) = 1
  BY FS_Singleton
<1>2. PICK S : S = {a}
  OBVIOUS
<1>3. IsFiniteSet(S \cup {b}) /\ Cardinality(S \cup {b}) = Cardinality(S) + 1
  BY <1>1, <1>2, FS_AddElement
<1>4. S \cup {b} = {a, b}
  BY <1>2
<1>5. QED BY <1>1, <1>2, <1>3, <1>4

\* So are three.
LEMMA ThreeThings ==
    ASSUME NEW a, NEW b, NEW c, a # b, b # c, a # c
    PROVE  Cardinality({a, b, c}) = 3
<1>1. PICK S : S = {a, b}
  OBVIOUS
<1>2. IsFiniteSet(S) /\ Cardinality(S) = 2 /\ c \notin S
  BY <1>1, TwoThings
<1>3. Cardinality(S \cup {c}) = Cardinality(S) + 1
  BY <1>2, FS_AddElement
<1>4. S \cup {c} = {a, b, c}
  BY <1>1
<1>5. QED BY <1>2, <1>3, <1>4

\* What so many names name.
LEMMA NamedBy ==
    ASSUME NEW n \in Nat, NEW f, NEW S, \A x \in S : \E j \in 1..n : x = f[j]
    PROVE  IsFiniteSet(S) /\ Cardinality(S) \in Nat /\ Cardinality(S) <= n
<1> DEFINE g == [j \in 1..n |-> f[j]]
           P == {f[j] : j \in 1..n}
<1>1. g \in Surjection(1..n, P)
  BY DEF Surjection
<1>2. IsFiniteSet(1..n) /\ Cardinality(1..n) = n
  BY FS_Interval
<1>3. S \subseteq P
  OBVIOUS
<1> HIDE DEF g, P
<1>4. IsFiniteSet(P) /\ Cardinality(P) <= n
  BY <1>1, <1>2, FS_Surjection
<1>5. IsFiniteSet(S) /\ Cardinality(S) <= Cardinality(P)
  BY <1>3, <1>4, FS_Subset
<1>6. Cardinality(S) \in Nat /\ Cardinality(P) \in Nat
  BY <1>4, <1>5, FS_CardinalityType
<1>7. QED BY <1>4, <1>5, <1>6

\* So many loads of at most 8000 litres.
LEMMA MoreLoads ==
    ASSUME NEW f, NEW T, IsFiniteSet(T), NEW R, R = T \ {Picked(T)}, T # {},
           f[Picked(T)] \in Nat, f[Picked(T)] <= 8000,
           SumFunctionOnSet(f, R) \in Nat, SumFunctionOnSet(f, R) <= 8000 * Cardinality(R)
    PROVE  SumFunctionOnSet(f, T) \in Nat /\ SumFunctionOnSet(f, T) <= 8000 * Cardinality(T)
<1>1. SumFunctionOnSet(f, T) = f[Picked(T)] + SumFunctionOnSet(f, R)
  BY SumPicked
<1>2. Cardinality(R) = Cardinality(T) - 1 /\ Cardinality(T) \in Nat
  BY PickedIn, FS_RemoveElement, FS_CardinalityType
<1>3. Cardinality(T) = Cardinality(R) + 1 /\ Cardinality(R) \in Int
  BY <1>2
<1>4. QED BY <1>1, <1>3

\* A sum of at most 8000 each is no more than 8000 for each.
LEMMA SumOfLoads ==
    ASSUME NEW f, NEW S, IsFiniteSet(S), \A x \in S : f[x] \in Nat /\ f[x] <= 8000
    PROVE  SumFunctionOnSet(f, S) \in Nat /\ SumFunctionOnSet(f, S) <= 8000 * Cardinality(S)
<1> DEFINE Good(T) == /\ SumFunctionOnSet(f, T) \in Nat
                      /\ SumFunctionOnSet(f, T) <= 8000 * Cardinality(T)
           B == {T \in SUBSET S : ~Good(T)}
<1>1. SUFFICES ASSUME B # {} PROVE FALSE
  OBVIOUS
<1>2. PICK T \in B : \A U \in B : ~(U \subseteq T /\ U # T)
  <2>1. B \subseteq SUBSET S
    OBVIOUS
  <2> HIDE DEF B
  <2>2. QED BY <1>1, <2>1, LeastSet
<1>3. T # {}
  <2>1. Good({})
    BY SumEmpty, FS_EmptySet
  <2>2. QED BY <2>1
<1> DEFINE R == T \ {Picked(T)}
<1>4. R = T \ {Picked(T)}
  OBVIOUS
<1>5. Picked(T) \in T /\ R \subseteq T /\ R # T /\ R \in SUBSET S
  BY <1>3, PickedIn
<1> HIDE DEF R
<1>6. Good(R)
  BY <1>2, <1>5
<1>7. IsFiniteSet(T) /\ f[Picked(T)] \in Nat /\ f[Picked(T)] <= 8000
  <2>1. T \subseteq S
    OBVIOUS
  <2>2. QED BY <1>5, <2>1, FS_Subset
<1>8. Good(T)
  BY <1>3, <1>4, <1>6, <1>7, MoreLoads
<1>9. QED BY <1>8
===============================================================================
