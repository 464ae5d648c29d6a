------------------------------ MODULE TotalsProofs ------------------------------
(* What the proofs about balances need to know of a sum: nothing adds nothing, one *)
(* more element adds its number, and only the numbers of the set count.            *)
EXTENDS Totals, Functions, FiniteSetTheorems, TLAPS

LEMMA UnitsOfOne ==
  ASSUME NEW f, NEW x, f[x] \in Nat
  PROVE  IsFiniteSet({x} \X (1 .. f[x])) /\ Cardinality({x} \X (1 .. f[x])) = f[x]
  <1>1. IsFiniteSet(1 .. f[x]) /\ Cardinality(1 .. f[x]) = f[x]
    BY FS_Interval, SMTT(30)
  <1>2. IsFiniteSet({x}) /\ Cardinality({x}) = 1
    BY FS_Singleton
  <1> DEFINE T == 1 .. f[x]
             n == f[x]
  <1>3. IsFiniteSet(T) /\ Cardinality(T) = n /\ n \in Nat
    BY <1>1
  <1> HIDE DEF T, n
  <1>4. IsFiniteSet({x} \X T) /\ Cardinality({x} \X T) = 1 * n
    BY <1>2, <1>3, FS_Product
  <1>5. 1 * n = n
    BY <1>3
  <1> QED BY <1>4, <1>5 DEF T, n

LEMMA UnitsFinite ==
  ASSUME NEW S, IsFiniteSet(S), NEW f, \A x \in S : f[x] \in Nat
  PROVE  IsFiniteSet(Units(f, S))
  <1> DEFINE T == {{x} \X (1 .. f[x]) : x \in S}
             g == [x \in S |-> {x} \X (1 .. f[x])]
  <1>1. g \in Surjection(S, T)
    BY DEF Surjection
  <1>2. IsFiniteSet(T)
    BY <1>1, FS_Surjection
  <1>3. \A U \in T : IsFiniteSet(U)
    BY UnitsOfOne
  <1> QED BY <1>2, <1>3, FS_UNION DEF Units

(* A sum is a natural number.                                                      *)
LEMMA TotalType ==
  ASSUME NEW S, IsFiniteSet(S), NEW f, \A x \in S : f[x] \in Nat
  PROVE  Total(f, S) \in Nat
  BY UnitsFinite, FS_CardinalityType DEF Total

LEMMA TotalEmpty == ASSUME NEW f PROVE Total(f, {}) = 0
  <1>1. Units(f, {}) = {}
    BY DEF Units
  <1> QED BY <1>1, FS_EmptySet DEF Total

(* Only what f says of the elements of S counts.                                   *)
LEMMA TotalSame ==
  ASSUME NEW S, NEW f, NEW g, \A x \in S : f[x] = g[x]
  PROVE  Total(f, S) = Total(g, S)
  <1>1. Units(f, S) = Units(g, S)
    BY DEF Units
  <1> QED BY <1>1 DEF Total

LEMMA TotalWith ==
  ASSUME NEW S, IsFiniteSet(S), NEW x, x \notin S, NEW f, \A y \in S \cup {x} : f[y] \in Nat
  PROVE  Total(f, S \cup {x}) = Total(f, S) + f[x]
  <1> DEFINE one == {x} \X (1 .. f[x])
  <1>1. Units(f, S \cup {x}) = Units(f, S) \cup one
    BY DEF Units
  <1>2. Units(f, S) \cap one = {}
    BY DEF Units
  <1>3. IsFiniteSet(one) /\ Cardinality(one) = f[x]
    BY UnitsOfOne
  <1>4. IsFiniteSet(Units(f, S)) /\ Cardinality(Units(f, S)) \in Nat
    BY UnitsFinite, FS_CardinalityType
  <1> DEFINE old == Units(f, S)
             n == f[x]
  <1>5. IsFiniteSet(old) /\ IsFiniteSet(one) /\ old \cap one = {} /\ Cardinality(one) = n
        /\ Cardinality(old) \in Nat /\ n \in Nat
    BY <1>2, <1>3, <1>4
  <1> HIDE DEF one, old, n
  <1>6. Cardinality(old \cup one) = Cardinality(old) + Cardinality(one) - Cardinality({})
    BY <1>5, FS_Union
  <1>7. Cardinality(old \cup one) = Cardinality(old) + n
    BY <1>5, <1>6, FS_EmptySet
  <1> QED BY <1>1, <1>7 DEF Total, old, n

LEMMA TotalWithout ==
  ASSUME NEW S, IsFiniteSet(S), NEW x \in S, NEW f, \A y \in S : f[y] \in Nat
  PROVE  /\ IsFiniteSet(S \ {x}) /\ Total(f, S \ {x}) \in Nat
         /\ Total(f, S) = Total(f, S \ {x}) + f[x]
  <1>1. IsFiniteSet(S \ {x}) /\ x \notin S \ {x} /\ S = (S \ {x}) \cup {x}
    BY FS_Subset
  <1> QED BY <1>1, TotalWith, TotalType

(* One number of the sum changes.                                                  *)
LEMMA TotalUpdate ==
  ASSUME NEW S, IsFiniteSet(S), NEW x \in S, NEW f, NEW g,
         \A y \in S : f[y] \in Nat /\ g[y] \in Nat, \A y \in S \ {x} : g[y] = f[y]
  PROVE  Total(g, S) + f[x] = Total(f, S) + g[x]
  <1>1. Total(f, S \ {x}) = Total(g, S \ {x})
    BY TotalSame
  <1>2. /\ Total(f, S) = Total(f, S \ {x}) + f[x] /\ Total(f, S \ {x}) \in Nat
        /\ Total(g, S) = Total(g, S \ {x}) + g[x]
    BY TotalWithout
  <1>3. f[x] \in Nat /\ g[x] \in Nat
    OBVIOUS
  <1> QED BY <1>1, <1>2, <1>3
================================================================================
