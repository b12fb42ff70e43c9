------------------------------ MODULE FiniteSums ------------------------------
(***************************************************************************)
(* Sums of integers over finite sets, as SumFunctionOnSet computes them:   *)
(* by recursion, taking the indices in an order that nobody knows.  The    *)
(* lemmas at the end say all that the proofs about stock and about checks  *)
(* need: what a sum of nothing, of one index more, of the same values and  *)
(* of ones is.                                                             *)
(*                                                                         *)
(* A sum is the number of units that it gives less the number it takes.    *)
(* That says what it is without recursion, so the recursive function is    *)
(* known to exist, and a smallest set on which it differs cannot.          *)
(***************************************************************************)
EXTENDS Integers, Functions, FiniteSetTheorems, WellFoundedInduction, TLAPS

Given(f, S) == UNION {{i} \X (1..f[i]) : i \in S}
Taken(f, S) == UNION {{i} \X (1..(-f[i])) : i \in S}
Balance(f, S) == Cardinality(Given(f, S)) - Cardinality(Taken(f, S))

UnfoldsTo(f, S, g) ==
  g = [s \in SUBSET S |->
        IF s = {} THEN 0
        ELSE f[CHOOSE x \in s : TRUE] + g[s \ {CHOOSE x \in s : TRUE}]]

LEMMA SumIsRecursive ==
  ASSUME NEW f, NEW S
  PROVE  SumFunctionOnSet(f, S) = (CHOOSE g : UnfoldsTo(f, S, g))[S]
BY DEF SumFunctionOnSet, FoldFunctionOnSet, MapThenFoldSet, UnfoldsTo

\* The units of one index, and those of a set of indices.
Units(n, i) == {i} \X (1..n)

LEMMA UnitsOfOne ==
  ASSUME NEW i, NEW n \in Int
  PROVE  /\ IsFiniteSet(Units(n, i))
         /\ Cardinality(Units(n, i)) = IF n > 0 THEN n ELSE 0
<1>1. IsFiniteSet({i}) /\ Cardinality({i}) = 1
  BY FS_Singleton
<1>2. IsFiniteSet(1..n) /\ Cardinality(1..n) = IF n > 0 THEN n ELSE 0
  BY FS_Interval
<1>3. /\ IsFiniteSet({i} \X (1..n))
      /\ Cardinality({i} \X (1..n)) = Cardinality({i}) * Cardinality(1..n)
  BY <1>1, <1>2, FS_Product
<1>4. Cardinality({i}) * Cardinality(1..n) = Cardinality(1..n)
  BY <1>1, <1>2
<1> QED
  BY <1>2, <1>3, <1>4 DEF Units

LEMMA UnitsAreFinite ==
  ASSUME NEW f, NEW T, IsFiniteSet(T), \A i \in T : f[i] \in Int
  PROVE  IsFiniteSet(Given(f, T)) /\ IsFiniteSet(Taken(f, T))
<1>1. IsFiniteSet({Units(f[i], i) : i \in T}) /\ IsFiniteSet({Units(-f[i], i) : i \in T})
  <2>1. [i \in T |-> Units(f[i], i)] \in Surjection(T, {Units(f[i], i) : i \in T})
    BY DEF Surjection
  <2>2. [i \in T |-> Units(-f[i], i)] \in Surjection(T, {Units(-f[i], i) : i \in T})
    BY DEF Surjection
  <2> QED
    BY <2>1, <2>2, FS_Surjection
<1>2. \A i \in T : IsFiniteSet(Units(f[i], i)) /\ IsFiniteSet(Units(-f[i], i))
  BY UnitsOfOne
<1>3. IsFiniteSet(UNION {Units(f[i], i) : i \in T}) /\ IsFiniteSet(UNION {Units(-f[i], i) : i \in T})
  BY <1>1, <1>2, FS_UNION
<1> QED
  BY <1>3 DEF Given, Taken, Units

\* One index more: its units are no other's.
LEMMA UnitsOfMore ==
  ASSUME NEW f, NEW S, IsFiniteSet(S), \A i \in S : f[i] \in Int, NEW x \in S
  PROVE  /\ IsFiniteSet(Given(f, S)) /\ IsFiniteSet(Taken(f, S))
         /\ Cardinality(Given(f, S)) =
              Cardinality(Given(f, S \ {x})) + IF f[x] > 0 THEN f[x] ELSE 0
         /\ Cardinality(Taken(f, S)) =
              Cardinality(Taken(f, S \ {x})) + IF f[x] < 0 THEN -f[x] ELSE 0
<1> DEFINE R == S \ {x}
<1>1. IsFiniteSet(R) /\ R \subseteq S
  BY FS_RemoveElement
<1>3. /\ Given(f, S) = Given(f, R) \cup Units(f[x], x) /\ Given(f, R) \cap Units(f[x], x) = {}
      /\ Taken(f, S) = Taken(f, R) \cup Units(-f[x], x) /\ Taken(f, R) \cap Units(-f[x], x) = {}
  BY DEF Given, Taken, Units
<1>4. /\ IsFiniteSet(Given(f, S)) /\ IsFiniteSet(Taken(f, S))
      /\ IsFiniteSet(Given(f, R)) /\ IsFiniteSet(Taken(f, R))
  BY <1>1, UnitsAreFinite
<1>5. /\ Cardinality(Given(f, R)) \in Nat /\ Cardinality(Taken(f, R)) \in Nat
      /\ Cardinality({}) = 0
  BY <1>4, FS_CardinalityType, FS_EmptySet
<1>6. f[x] \in Int /\ -f[x] \in Int
  OBVIOUS
<1>7. Cardinality(Given(f, S)) = Cardinality(Given(f, R)) + Cardinality(Units(f[x], x))
  <2> DEFINE V == Units(f[x], x)
             W == Given(f, R)
  <2>1. IsFiniteSet(V) /\ Cardinality(V) \in Nat
    BY <1>6, UnitsOfOne, FS_CardinalityType
  <2>2. IsFiniteSet(W) /\ W \cap V = {} /\ Given(f, S) = W \cup V
    BY <1>3, <1>4
  <2> HIDE DEF V, W
  <2>3. Cardinality(W \cup V) = Cardinality(W) + Cardinality(V) - Cardinality(W \cap V)
    BY <2>1, <2>2, FS_Union
  <2>4. Cardinality(W) \in Nat
    BY <2>2, FS_CardinalityType
  <2>5. Cardinality(W \cup V) = Cardinality(W) + Cardinality(V)
    <3>1. Cardinality(W \cap V) = 0
      BY <2>2, FS_EmptySet
    <3> QED
      BY <2>1, <2>3, <2>4, <3>1
  <2> QED
    BY <2>2, <2>5 DEF V, W
<1>8. Cardinality(Taken(f, S)) = Cardinality(Taken(f, R)) + Cardinality(Units(-f[x], x))
  <2> DEFINE V == Units(-f[x], x)
             W == Taken(f, R)
  <2>1. IsFiniteSet(V) /\ Cardinality(V) \in Nat
    BY <1>6, UnitsOfOne, FS_CardinalityType
  <2>2. IsFiniteSet(W) /\ W \cap V = {} /\ Taken(f, S) = W \cup V
    BY <1>3, <1>4
  <2> HIDE DEF V, W
  <2>3. Cardinality(W \cup V) = Cardinality(W) + Cardinality(V) - Cardinality(W \cap V)
    BY <2>1, <2>2, FS_Union
  <2>4. Cardinality(W) \in Nat
    BY <2>2, FS_CardinalityType
  <2>5. Cardinality(W \cup V) = Cardinality(W) + Cardinality(V)
    <3>1. Cardinality(W \cap V) = 0
      BY <2>2, FS_EmptySet
    <3> QED
      BY <2>1, <2>3, <2>4, <3>1
  <2> QED
    BY <2>2, <2>5 DEF V, W
<1> QED
  BY <1>4, <1>6, <1>7, <1>8, UnitsOfOne

\* An index more adds its value.
LEMMA BalanceStep ==
  ASSUME NEW f, NEW S, IsFiniteSet(S), \A i \in S : f[i] \in Int, NEW x \in S
  PROVE  Balance(f, S) = f[x] + Balance(f, S \ {x})
<1> DEFINE R == S \ {x}
<1>1. Cardinality(Given(f, R)) \in Nat /\ Cardinality(Taken(f, R)) \in Nat
  BY FS_RemoveElement, UnitsAreFinite, FS_CardinalityType
<1> QED
  BY <1>1, UnitsOfMore DEF Balance

\* What SumFunctionOnSet adds up, in whatever order it takes the indices.
LEMMA SumIsBalance ==
  ASSUME NEW f, NEW S, IsFiniteSet(S), \A i \in S : f[i] \in Int
  PROVE  SumFunctionOnSet(f, S) = Balance(f, S)
<1> DEFINE G == CHOOSE g : UnfoldsTo(f, S, g)
           N == [s \in SUBSET S |-> Balance(f, s)]
           pick(s) == CHOOSE x \in s : TRUE
           Wrong == {s \in SUBSET S : G[s] # Balance(f, s)}
<1>1. Balance(f, {}) = 0
  BY FS_EmptySet DEF Balance, Given, Taken
<1>2. ASSUME NEW s \in SUBSET S, s # {}
      PROVE  /\ pick(s) \in s /\ s \ {pick(s)} \in SUBSET S
             /\ Balance(f, s) = f[pick(s)] + Balance(f, s \ {pick(s)})
  <2>1. pick(s) \in s
    BY <1>2
  <2>2. IsFiniteSet(s)
    BY FS_Subset
  <2> HIDE DEF pick
  <2> QED
    BY <2>1, <2>2, BalanceStep
<1>3. UnfoldsTo(f, S, N)
  <2>1. ASSUME NEW s \in SUBSET S, s # {}
        PROVE  N[s] = f[pick(s)] + N[s \ {pick(s)}]
    BY <1>2, <2>1
  <2>2. N[{}] = 0
    BY <1>1
  <2>3. ASSUME NEW s \in SUBSET S
        PROVE  N[s] = IF s = {} THEN 0 ELSE f[pick(s)] + N[s \ {pick(s)}]
    BY <2>1, <2>2
  <2>4. N = [s \in SUBSET S |-> N[s]]
    OBVIOUS
  <2> HIDE DEF N
  <2> QED
    BY <2>3, <2>4 DEF UnfoldsTo
<1>4. UnfoldsTo(f, S, G)
  BY <1>3
<1> HIDE DEF G
<1>5. ASSUME NEW s \in SUBSET S
      PROVE  G[s] = IF s = {} THEN 0 ELSE f[pick(s)] + G[s \ {pick(s)}]
  BY <1>4 DEF UnfoldsTo
<1>6. Wrong = {}
  <2> SUFFICES ASSUME Wrong # {} PROVE FALSE
    OBVIOUS
  <2>1. Wrong \subseteq FiniteSubsetsOf(S)
    BY FS_Subset DEF FiniteSubsetsOf
  <2>2. PICK s \in Wrong : \A u \in Wrong : <<u, s>> \notin StrictSubsetOrdering(S)
    BY <2>1, FS_StrictSubsetOrderingWellFounded, WFMin
  <2>3. s # {}
    BY <1>1, <1>5
  <2> DEFINE u == s \ {pick(s)}
  <2>4. pick(s) \in s /\ u \in SUBSET S /\ Balance(f, s) = f[pick(s)] + Balance(f, u)
    BY <1>2, <2>3
  <2>5. G[s] = f[pick(s)] + G[u]
    BY <1>5, <2>3
  <2> HIDE DEF pick
  <2>6. <<u, s>> \in StrictSubsetOrdering(S)
    BY <2>4 DEF StrictSubsetOrdering
  <2>7. G[u] = Balance(f, u)
    BY <2>2, <2>4, <2>6
  <2> QED
    BY <2>4, <2>5, <2>7
<1>7. SumFunctionOnSet(f, S) = G[S]
  BY SumIsRecursive DEF G
<1> QED
  BY <1>6, <1>7

-----------------------------------------------------------------------------
(* What the other modules cite.                                              *)

LEMMA SumIsInt ==
  ASSUME NEW f, NEW S, IsFiniteSet(S), \A i \in S : f[i] \in Int
  PROVE  SumFunctionOnSet(f, S) \in Int
<1>1. IsFiniteSet(Given(f, S)) /\ IsFiniteSet(Taken(f, S))
  BY UnitsAreFinite
<1> QED
  BY <1>1, SumIsBalance, FS_CardinalityType DEF Balance

LEMMA SumOfNothing == ASSUME NEW f PROVE SumFunctionOnSet(f, {}) = 0
BY SumIsBalance, FS_EmptySet DEF Balance, Given, Taken

\* Whichever index is taken out, its value is what the sum loses.
LEMMA SumOfOneMore ==
  ASSUME NEW f, NEW S, IsFiniteSet(S), \A i \in S : f[i] \in Int, NEW x \in S
  PROVE  SumFunctionOnSet(f, S) = f[x] + SumFunctionOnSet(f, S \ {x})
<1>1. IsFiniteSet(S \ {x}) /\ \A i \in S \ {x} : f[i] \in Int
  BY FS_RemoveElement
<1> QED
  BY <1>1, SumIsBalance, BalanceStep

\* A sum depends on the values it adds up and on nothing else.
LEMMA SumOfSame ==
  ASSUME NEW f, NEW g, NEW S, IsFiniteSet(S), \A i \in S : f[i] \in Int /\ g[i] = f[i]
  PROVE  SumFunctionOnSet(f, S) = SumFunctionOnSet(g, S)
<1>1. Given(f, S) = Given(g, S) /\ Taken(f, S) = Taken(g, S)
  BY DEF Given, Taken
<1> QED
  BY <1>1, SumIsBalance DEF Balance

LEMMA SumOfOnes ==
  ASSUME NEW f, NEW S, IsFiniteSet(S), \A i \in S : f[i] = 1
  PROVE  SumFunctionOnSet(f, S) = Cardinality(S)
<1>1. Given(f, S) = S \X {1} /\ Taken(f, S) = {}
  BY DEF Given, Taken
<1>2. IsFiniteSet({1}) /\ Cardinality({1}) = 1
  BY FS_Singleton
<1>3. Cardinality(S \X {1}) = Cardinality(S) * Cardinality({1})
  BY <1>2, FS_Product
<1>4. Cardinality(S) \in Nat
  BY FS_CardinalityType
<1>5. Cardinality(Given(f, S)) = Cardinality(S) /\ Cardinality(Taken(f, S)) = 0
  BY <1>1, <1>2, <1>3, <1>4, FS_EmptySet
<1>6. Balance(f, S) = Cardinality(S)
  BY <1>4, <1>5 DEF Balance
<1> QED
  BY <1>6, SumIsBalance
=============================================================================
