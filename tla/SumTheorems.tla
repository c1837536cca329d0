----------------------------- MODULE SumTheorems -----------------------------
(***************************************************************************)
(* Laws of the sums the models take over finite sets: of positions and     *)
(* balances (ConditionalTokens, Escrow) and of measurements (LoadManager). *)
(***************************************************************************)
EXTENDS Integers, FiniteSets, Functions, FiniteSetTheorems, WellFoundedInduction, TLAPS

(* Sums.  SumFunctionOnSet is a fold: a function the library defines by      *)
(* recursion on subsets.  It is shown to count the units of the summands,    *)
(* which is no recursion; its laws follow from that.                         *)

\* A non-empty collection of subsets of a finite set has a member that leaves
\* the collection whenever an element is taken out of it.
LEMMA MinimalSet ==
    ASSUME NEW S, IsFiniteSet(S), NEW B \in SUBSET (SUBSET S), B # {}
    PROVE  \E T \in B : \A x \in T : (T \ {x}) \notin B
  <1> DEFINE R == StrictSubsetOrdering(S)
  <1>1. IsWellFoundedOn(R, SUBSET S)
    BY FS_StrictSubsetOrderingWellFounded, FS_FiniteSubsetsOfFinite
  <1>2. \E T \in B : \A U \in B : ~(<<U, T>> \in R)
    <2> HIDE DEF R
    <2> QED
      BY <1>1, WFMin
  <1>3. PICK T \in B : \A U \in B : ~(<<U, T>> \in R)
    BY <1>2
  <1>4. ASSUME NEW x \in T, (T \ {x}) \in B
        PROVE  FALSE
    <2>1. <<T \ {x}, T>> \in R
      BY DEF StrictSubsetOrdering
    <2> QED
      BY <1>3, <1>4, <2>1
  <1> QED
    BY <1>3, <1>4

-----------------------------------------------------------------------------
(* The value of a sum without recursion: the number of its units.          *)
UnitsAt(f, x) == {x} \X (1..f[x])
UnitSets(f, S) == {UnitsAt(f, x) : x \in S}
Units(f, S) == UNION UnitSets(f, S)
Total(f, S) == Cardinality(Units(f, S))

LEMMA UnitsAtSize ==
    ASSUME NEW f, NEW x, f[x] \in Nat
    PROVE  IsFiniteSet(UnitsAt(f, x)) /\ Cardinality(UnitsAt(f, x)) = f[x]
  <1>1. IsFiniteSet({x}) /\ Cardinality({x}) = 1
    BY FS_Singleton
  <1>2. IsFiniteSet(1..f[x]) /\ Cardinality(1..f[x]) = f[x]
    BY FS_Interval, SMTT(30)
  <1>3. IsFiniteSet({x} \X (1..f[x])) /\ Cardinality({x} \X (1..f[x])) = 1 * f[x]
    BY <1>1, <1>2, FS_Product, ZenonT(30)
  <1> QED
    BY <1>3 DEF UnitsAt

LEMMA UnitsFinite ==
    ASSUME NEW f, NEW S, IsFiniteSet(S), \A x \in S : f[x] \in Nat
    PROVE  IsFiniteSet(Units(f, S))
  <1> DEFINE m == [x \in S |-> UnitsAt(f, x)]
  <1>1. m \in Surjection(S, UnitSets(f, S))
    BY DEF Surjection, UnitSets
  <1>2. IsFiniteSet(UnitSets(f, S))
    <2> HIDE DEF m
    <2> QED
      BY <1>1, FS_Surjection
  <1>3. \A T \in UnitSets(f, S) : IsFiniteSet(T)
    BY UnitsAtSize DEF UnitSets
  <1> QED
    BY <1>2, <1>3, FS_UNION DEF Units

LEMMA TotalEmpty ==
    ASSUME NEW f
    PROVE  Total(f, {}) = 0
  <1>1. Units(f, {}) = {}
    BY DEF Units, UnitSets
  <1> QED
    BY <1>1, FS_EmptySet DEF Total

LEMMA TotalRemove ==
    ASSUME NEW f, NEW S, IsFiniteSet(S), \A x \in S : f[x] \in Nat, NEW x \in S
    PROVE  Total(f, S) = f[x] + Total(f, S \ {x}) /\ Total(f, S) \in Nat
  <1> DEFINE A == Units(f, S \ {x})
             B == UnitsAt(f, x)
  <1>1. Units(f, S) = A \cup B
    BY DEF Units, UnitSets
  <1>2. A \cap B = {}
    BY DEF Units, UnitSets, UnitsAt
  <1>3. IsFiniteSet(A)
    <2>1. IsFiniteSet(S \ {x})
      BY FS_RemoveElement
    <2> QED
      BY <2>1, UnitsFinite
  <1>4. IsFiniteSet(B) /\ Cardinality(B) = f[x]
    BY UnitsAtSize
  <1>5. Cardinality(A) \in Nat
    BY <1>3, FS_CardinalityType
  <1> HIDE DEF A, B
  <1>6. Cardinality(A \cup B) = Cardinality(A) + Cardinality(B) - Cardinality({})
    BY <1>2, <1>3, <1>4, FS_Union
  <1>7. Cardinality(A \cup B) = Cardinality(A) + f[x]
    BY <1>4, <1>5, <1>6, FS_EmptySet
  <1> QED
    BY <1>1, <1>5, <1>7 DEF Total, A

-----------------------------------------------------------------------------
(* The fold the library defines computes that value.                        *)
Pick(s) == CHOOSE x \in s : TRUE

IsFold(g, f, S) ==
  g = [s \in SUBSET S |-> IF s = {} THEN 0 ELSE f[Pick(s)] + g[s \ {Pick(s)}]]

Fold(f, S) == CHOOSE g : IsFold(g, f, S)

LEMMA SumIsFold ==
    ASSUME NEW f, NEW S
    PROVE  SumFunctionOnSet(f, S) = Fold(f, S)[S]
  BY DEF SumFunctionOnSet, FoldFunctionOnSet, MapThenFoldSet, Fold, IsFold, Pick

LEMMA SumIsTotal ==
    ASSUME NEW f, NEW S, IsFiniteSet(S), \A x \in S : f[x] \in Nat
    PROVE  SumFunctionOnSet(f, S) = Total(f, S)
  <1> DEFINE t == [s \in SUBSET S |-> Total(f, s)]
             g == Fold(f, S)
  <1>0. ASSUME NEW s \in SUBSET S, s # {}
        PROVE  /\ Pick(s) \in s
               /\ (s \ {Pick(s)}) \in SUBSET S
               /\ Total(f, s) = f[Pick(s)] + Total(f, s \ {Pick(s)})
    <2>1. Pick(s) \in s
      BY <1>0 DEF Pick
    <2>2. IsFiniteSet(s)
      BY FS_Subset
    <2> QED
      BY <2>1, <2>2, TotalRemove
  <1>1. IsFold(t, f, S)
    <2>1. ASSUME NEW s \in SUBSET S
          PROVE  t[s] = IF s = {} THEN 0 ELSE f[Pick(s)] + t[s \ {Pick(s)}]
      BY <1>0, TotalEmpty
    <2> QED
      BY <2>1 DEF IsFold
  <1>2. IsFold(g, f, S)
    BY <1>1, Zenon DEF Fold
  <1>3. \A s \in SUBSET S : g[s] = IF s = {} THEN 0 ELSE f[Pick(s)] + g[s \ {Pick(s)}]
    <2> HIDE DEF g
    <2> QED
      BY <1>2 DEF IsFold
  <1> HIDE DEF g, t
  <1> DEFINE B == {s \in SUBSET S : g[s] # Total(f, s)}
  <1>4. B = {}
    <2>1. SUFFICES ASSUME B # {}
                   PROVE  FALSE
      OBVIOUS
    <2>2. PICK T \in B : \A x \in T : (T \ {x}) \notin B
      <3>1. B \in SUBSET (SUBSET S)
        OBVIOUS
      <3> HIDE DEF B
      <3> QED
        BY <2>1, <3>1, MinimalSet
    <2>3. T # {}
      BY <1>3, TotalEmpty
    <2>4. g[T \ {Pick(T)}] = Total(f, T \ {Pick(T)})
      BY <1>0, <2>2, <2>3
    <2> QED
      BY <1>0, <1>3, <2>2, <2>3, <2>4
  <1>5. g[S] = Total(f, S)
    BY <1>4
  <1> QED
    BY <1>5, SumIsFold DEF g
-----------------------------------------------------------------------------
(* Laws of sums of naturals over a finite set.                              *)
NatOn(f, S) == \A x \in S : f[x] \in Nat

LEMMA SumEmpty ==
    ASSUME NEW f
    PROVE  SumFunctionOnSet(f, {}) = 0
  BY SumIsTotal, TotalEmpty, FS_EmptySet

LEMMA SumRemove ==
    ASSUME NEW f, NEW S, IsFiniteSet(S), NatOn(f, S), NEW x \in S
    PROVE  SumFunctionOnSet(f, S) = f[x] + SumFunctionOnSet(f, S \ {x})
  <1>1. IsFiniteSet(S \ {x})
    BY FS_RemoveElement
  <1>2. SumFunctionOnSet(f, S \ {x}) = Total(f, S \ {x})
    BY <1>1, SumIsTotal DEF NatOn
  <1> QED
    BY <1>2, TotalRemove, SumIsTotal DEF NatOn

LEMMA SumNat ==
    ASSUME NEW f, NEW S, IsFiniteSet(S), NatOn(f, S)
    PROVE  SumFunctionOnSet(f, S) \in Nat
  BY SumIsTotal, UnitsFinite, FS_CardinalityType DEF NatOn, Total

\* Only the non-zero values count, and only their values.
LEMMA SumSupport ==
    ASSUME NEW f, NEW g, NEW S, NEW T \in SUBSET S, IsFiniteSet(S), NatOn(f, S),
           \A x \in T : g[x] = f[x], \A x \in S \ T : f[x] = 0
    PROVE  SumFunctionOnSet(g, T) = SumFunctionOnSet(f, S)
  <1>1. Units(g, T) = Units(f, S)
    <2>1. \A x \in T : UnitsAt(g, x) = UnitsAt(f, x)
      BY DEF UnitsAt
    <2>2. \A x \in S \ T : UnitsAt(f, x) = {}
      BY DEF UnitsAt
    <2> QED
      BY <2>1, <2>2 DEF Units, UnitSets
  <1>2. IsFiniteSet(T)
    BY FS_Subset
  <1> QED
    BY <1>1, <1>2, SumIsTotal DEF NatOn, Total

LEMMA SumSame ==
    ASSUME NEW f, NEW g, NEW S, IsFiniteSet(S), NatOn(f, S), \A x \in S : g[x] = f[x]
    PROVE  SumFunctionOnSet(g, S) = SumFunctionOnSet(f, S)
  BY SumSupport

LEMMA SumZero ==
    ASSUME NEW f, NEW S, IsFiniteSet(S), \A x \in S : f[x] = 0
    PROVE  SumFunctionOnSet(f, S) = 0
  <1>1. SumFunctionOnSet(f, {}) = SumFunctionOnSet(f, S)
    BY SumSupport DEF NatOn
  <1> QED
    BY <1>1, SumEmpty

\* A change at one place, and at two.
LEMMA SumChange ==
    ASSUME NEW f, NEW g, NEW S, IsFiniteSet(S), NatOn(f, S), NatOn(g, S), NEW x \in S,
           \A y \in S \ {x} : g[y] = f[y]
    PROVE  SumFunctionOnSet(g, S) + f[x] = SumFunctionOnSet(f, S) + g[x]
  <1>1. IsFiniteSet(S \ {x}) /\ NatOn(f, S \ {x})
    BY FS_RemoveElement DEF NatOn
  <1>2. /\ SumFunctionOnSet(g, S \ {x}) = SumFunctionOnSet(f, S \ {x})
        /\ SumFunctionOnSet(f, S \ {x}) \in Nat
    BY <1>1, SumSame, SumNat
  <1>3. f[x] \in Nat /\ g[x] \in Nat
    BY DEF NatOn
  <1>4. /\ SumFunctionOnSet(f, S) = f[x] + SumFunctionOnSet(f, S \ {x})
        /\ SumFunctionOnSet(g, S) = g[x] + SumFunctionOnSet(g, S \ {x})
    BY SumRemove
  <1> QED
    BY <1>2, <1>3, <1>4

LEMMA SumChangeTwo ==
    ASSUME NEW f, NEW g, NEW S, IsFiniteSet(S), NatOn(f, S), NatOn(g, S),
           NEW x \in S, NEW z \in S, x # z,
           \A y \in S \ {x, z} : g[y] = f[y]
    PROVE  SumFunctionOnSet(g, S) + f[x] + f[z] = SumFunctionOnSet(f, S) + g[x] + g[z]
  <1> DEFINE T == S \ {x}
  <1>1. IsFiniteSet(T) /\ NatOn(f, T) /\ NatOn(g, T) /\ z \in T
    BY FS_RemoveElement DEF NatOn
  <1>2. /\ SumFunctionOnSet(g, T) + f[z] = SumFunctionOnSet(f, T) + g[z]
        /\ SumFunctionOnSet(f, T) \in Nat
        /\ SumFunctionOnSet(g, T) \in Nat
    <2>1. \A y \in T \ {z} : g[y] = f[y]
      OBVIOUS
    <2> HIDE DEF T
    <2> QED
      BY <1>1, <2>1, SumChange, SumNat
  <1>3. f[x] \in Nat /\ g[x] \in Nat /\ f[z] \in Nat /\ g[z] \in Nat
    BY DEF NatOn
  <1>4. /\ SumFunctionOnSet(f, S) = f[x] + SumFunctionOnSet(f, T)
        /\ SumFunctionOnSet(g, S) = g[x] + SumFunctionOnSet(g, T)
    BY SumRemove
  <1> QED
    BY <1>2, <1>3, <1>4

LEMMA SumMember ==
    ASSUME NEW f, NEW S, IsFiniteSet(S), NatOn(f, S), NEW x \in S
    PROVE  f[x] <= SumFunctionOnSet(f, S)
  <1>1. IsFiniteSet(S \ {x}) /\ NatOn(f, S \ {x})
    BY FS_RemoveElement DEF NatOn
  <1>2. SumFunctionOnSet(f, S \ {x}) \in Nat
    BY <1>1, SumNat
  <1> QED
    BY <1>2, SumRemove DEF NatOn

\* Sums add, and have common factors taken out of them.
LEMMA SumPlus ==
    ASSUME NEW f, NEW g, NEW h, NEW S, IsFiniteSet(S), NatOn(f, S), NatOn(g, S),
           \A x \in S : h[x] = f[x] + g[x]
    PROVE  SumFunctionOnSet(h, S) = SumFunctionOnSet(f, S) + SumFunctionOnSet(g, S)
  <1>0. NatOn(h, S)
    BY DEF NatOn
  <1> DEFINE B == {s \in SUBSET S : SumFunctionOnSet(h, s)
                                  # SumFunctionOnSet(f, s) + SumFunctionOnSet(g, s)}
  <1>1. B = {}
    <2>1. SUFFICES ASSUME B # {}
                   PROVE  FALSE
      OBVIOUS
    <2>2. PICK T \in B : \A x \in T : (T \ {x}) \notin B
      <3>1. B \in SUBSET (SUBSET S)
        OBVIOUS
      <3> HIDE DEF B
      <3> QED
        BY <2>1, <3>1, MinimalSet
    <2>3. PICK x \in T : TRUE
      BY <2>2, SumEmpty
    <2>4. IsFiniteSet(T) /\ NatOn(f, T) /\ NatOn(g, T) /\ NatOn(h, T)
      BY <1>0, FS_Subset DEF NatOn
    <2>5. IsFiniteSet(T \ {x}) /\ NatOn(f, T \ {x}) /\ NatOn(g, T \ {x})
      BY <2>4, FS_RemoveElement DEF NatOn
    <2>6. SumFunctionOnSet(h, T \ {x})
            = SumFunctionOnSet(f, T \ {x}) + SumFunctionOnSet(g, T \ {x})
      BY <2>2
    <2>7. /\ SumFunctionOnSet(f, T \ {x}) \in Nat
          /\ SumFunctionOnSet(g, T \ {x}) \in Nat
          /\ f[x] \in Nat
          /\ g[x] \in Nat
      BY <2>4, <2>5, SumNat DEF NatOn
    <2>8. /\ SumFunctionOnSet(f, T) = f[x] + SumFunctionOnSet(f, T \ {x})
          /\ SumFunctionOnSet(g, T) = g[x] + SumFunctionOnSet(g, T \ {x})
          /\ SumFunctionOnSet(h, T) = h[x] + SumFunctionOnSet(h, T \ {x})
      BY <2>4, SumRemove
    <2>9. h[x] = f[x] + g[x]
      BY <2>2
    <2> QED
      BY <2>2, <2>6, <2>7, <2>8, <2>9
  <1> QED
    BY <1>1

LEMMA SumTimes ==
    ASSUME NEW f, NEW h, NEW k \in Nat, NEW S, IsFiniteSet(S), NatOn(f, S),
           \A x \in S : h[x] = k * f[x]
    PROVE  SumFunctionOnSet(h, S) = k * SumFunctionOnSet(f, S)
  <1>0. NatOn(h, S)
    BY DEF NatOn
  <1> DEFINE B == {s \in SUBSET S : SumFunctionOnSet(h, s) # k * SumFunctionOnSet(f, s)}
  <1>1. B = {}
    <2>1. SUFFICES ASSUME B # {}
                   PROVE  FALSE
      OBVIOUS
    <2>2. PICK T \in B : \A x \in T : (T \ {x}) \notin B
      <3>1. B \in SUBSET (SUBSET S)
        OBVIOUS
      <3> HIDE DEF B
      <3> QED
        BY <2>1, <3>1, MinimalSet
    <2>3. PICK x \in T : TRUE
      <3>1. k * 0 = 0
        OBVIOUS
      <3>2. SumFunctionOnSet(h, {}) = k * SumFunctionOnSet(f, {})
        BY <3>1, SumEmpty, Zenon
      <3> QED
        BY <2>2, <3>2
    <2>4. IsFiniteSet(T) /\ NatOn(f, T) /\ NatOn(h, T)
      BY <1>0, FS_Subset DEF NatOn
    <2>5. IsFiniteSet(T \ {x}) /\ NatOn(f, T \ {x})
      BY <2>4, FS_RemoveElement DEF NatOn
    <2>6. SumFunctionOnSet(h, T \ {x}) = k * SumFunctionOnSet(f, T \ {x})
      BY <2>2
    <2>7. SumFunctionOnSet(f, T \ {x}) \in Nat /\ f[x] \in Nat
      BY <2>4, <2>5, SumNat DEF NatOn
    <2>8. /\ SumFunctionOnSet(f, T) = f[x] + SumFunctionOnSet(f, T \ {x})
          /\ SumFunctionOnSet(h, T) = h[x] + SumFunctionOnSet(h, T \ {x})
      BY <2>4, SumRemove
    <2>9. h[x] = k * f[x]
      BY <2>2
    <2>10. k * (f[x] + SumFunctionOnSet(f, T \ {x}))
             = k * f[x] + k * SumFunctionOnSet(f, T \ {x})
      BY <2>7
    <2> QED
      BY <2>2, <2>6, <2>8, <2>9, <2>10
  <1> QED
    BY <1>1

LEMMA SumMonotone ==
    ASSUME NEW f, NEW g, NEW S, IsFiniteSet(S), NatOn(f, S), NatOn(g, S),
           \A x \in S : f[x] <= g[x]
    PROVE  SumFunctionOnSet(f, S) <= SumFunctionOnSet(g, S)
  <1> DEFINE d == [x \in S |-> g[x] - f[x]]
  <1>1. NatOn(d, S) /\ \A x \in S : g[x] = f[x] + d[x]
    BY DEF NatOn
  <1> HIDE DEF d
  <1>2. SumFunctionOnSet(g, S) = SumFunctionOnSet(f, S) + SumFunctionOnSet(d, S)
    BY <1>1, SumPlus
  <1>3. SumFunctionOnSet(f, S) \in Nat /\ SumFunctionOnSet(d, S) \in Nat
    BY <1>1, SumNat
  <1> QED
    BY <1>2, <1>3

\* Fewer summands, and summands in other places.
LEMMA SumSubset ==
    ASSUME NEW f, NEW S, NEW T \in SUBSET S, IsFiniteSet(S), NatOn(f, S)
    PROVE  SumFunctionOnSet(f, T) <= SumFunctionOnSet(f, S)
  <1> DEFINE g == [x \in S |-> IF x \in T THEN f[x] ELSE 0]
  <1>1. NatOn(g, S) /\ \A x \in S : g[x] <= f[x]
    BY DEF NatOn
  <1>2. SumFunctionOnSet(g, S) <= SumFunctionOnSet(f, S)
    <2> HIDE DEF g
    <2> QED
      BY <1>1, SumMonotone
  <1>3. (\A x \in T : f[x] = g[x]) /\ \A x \in S \ T : g[x] = 0
    OBVIOUS
  <1>4. SumFunctionOnSet(f, T) = SumFunctionOnSet(g, S)
    <2> HIDE DEF g
    <2> QED
      BY <1>1, <1>3, SumSupport
  <1> QED
    BY <1>2, <1>4

Shifted(S, m) == {i + m : i \in S}

SameOn(g, f, S) == \A i \in S : g[i] = f[i]

ShiftedOn(g, f, S, m) == \A i \in S : g[i] = f[i + m]

LEMMA SumShift ==
    ASSUME NEW f, NEW g, NEW m \in Int, NEW S \in SUBSET Int, IsFiniteSet(S),
           NatOn(g, S), ShiftedOn(g, f, S, m)
    PROVE  SumFunctionOnSet(g, S) = SumFunctionOnSet(f, Shifted(S, m))
  <1> USE DEF ShiftedOn
  <1> DEFINE M(s) == {i + m : i \in s}
             B == {s \in SUBSET S : SumFunctionOnSet(g, s) # SumFunctionOnSet(f, M(s))}
  <1>1. B = {}
    <2>1. SUFFICES ASSUME B # {}
                   PROVE  FALSE
      OBVIOUS
    <2>2. PICK T \in B : \A x \in T : (T \ {x}) \notin B
      <3>1. B \in SUBSET (SUBSET S)
        OBVIOUS
      <3> HIDE DEF B
      <3> QED
        BY <2>1, <3>1, MinimalSet
    <2>3. PICK x \in T : TRUE
      <3>1. M({}) = {}
        OBVIOUS
      <3>2. SumFunctionOnSet(g, {}) = SumFunctionOnSet(f, M({}))
        BY <3>1, SumEmpty, Zenon
      <3>3. T # {}
        BY <2>2, <3>2
      <3> QED
        BY <3>3
    <2>4. IsFiniteSet(T) /\ NatOn(g, T) /\ T \subseteq Int
      BY FS_Subset DEF NatOn
    <2>5. IsFiniteSet(M(T))
      <3> DEFINE h == [i \in T |-> i + m]
      <3>1. h \in Surjection(T, M(T))
        BY DEF Surjection
      <3> HIDE DEF h, M
      <3> QED
        BY <2>4, <3>1, FS_Surjection
    <2>6. NatOn(f, M(T)) /\ x + m \in M(T) /\ g[x] = f[x + m]
      BY <2>4 DEF NatOn
    <2>7. M(T) \ {x + m} = M(T \ {x})
      BY <2>4
    <2>8. SumFunctionOnSet(g, T \ {x}) = SumFunctionOnSet(f, M(T \ {x}))
      BY <2>2
    <2>9. SumFunctionOnSet(g, T) = g[x] + SumFunctionOnSet(g, T \ {x})
      BY <2>4, SumRemove
    <2>10. SumFunctionOnSet(f, M(T)) = f[x + m] + SumFunctionOnSet(f, M(T) \ {x + m})
      <3> HIDE DEF M
      <3> QED
        BY <2>5, <2>6, SumRemove
    <2>11. SumFunctionOnSet(g, T) = SumFunctionOnSet(f, M(T))
      BY <2>6, <2>7, <2>8, <2>9, <2>10
    <2> QED
      BY <2>2, <2>11
  <1> QED
    BY <1>1 DEF Shifted

\* The sum of a prefix and that of the rest.
LEMMA SumSplit ==
    ASSUME NEW f, NEW n \in Nat, NEW m \in 0..n, NatOn(f, 1..n)
    PROVE  SumFunctionOnSet(f, 1..n)
             = SumFunctionOnSet(f, 1..m) + SumFunctionOnSet(f, (m + 1)..n)
  <1> DEFINE S == 1..n
             a == [i \in S |-> IF i <= m THEN f[i] ELSE 0]
             b == [i \in S |-> IF i <= m THEN 0 ELSE f[i]]
  <1>1. IsFiniteSet(S) /\ (1..m) \in SUBSET S /\ ((m + 1)..n) \in SUBSET S
    BY FS_Interval
  <1>2. NatOn(a, S) /\ NatOn(b, S) /\ \A i \in S : f[i] = a[i] + b[i]
    BY DEF NatOn
  <1>3. SumFunctionOnSet(f, S) = SumFunctionOnSet(a, S) + SumFunctionOnSet(b, S)
    <2> HIDE DEF a, b, S
    <2> QED
      BY <1>1, <1>2, SumPlus
  <1>4. /\ \A i \in 1..m : f[i] = a[i]
        /\ \A i \in S \ (1..m) : a[i] = 0
        /\ \A i \in (m + 1)..n : f[i] = b[i]
        /\ \A i \in S \ ((m + 1)..n) : b[i] = 0
    OBVIOUS
  <1>5. SumFunctionOnSet(f, 1..m) = SumFunctionOnSet(a, S)
    <2> HIDE DEF a, b, S
    <2> QED
      BY <1>1, <1>2, <1>4, SumSupport
  <1>6. SumFunctionOnSet(f, (m + 1)..n) = SumFunctionOnSet(b, S)
    <2> HIDE DEF a, b, S
    <2> QED
      BY <1>1, <1>2, <1>4, SumSupport
  <1> QED
    BY <1>3, <1>5, <1>6

\* A sum in two parts, and a sum of bounded summands.
LEMMA SumParts ==
    ASSUME NEW f, NEW S, NEW T \in SUBSET S, IsFiniteSet(S), NatOn(f, S)
    PROVE  SumFunctionOnSet(f, S) = SumFunctionOnSet(f, T) + SumFunctionOnSet(f, S \ T)
  <1> DEFINE a == [x \in S |-> IF x \in T THEN f[x] ELSE 0]
             b == [x \in S |-> IF x \in T THEN 0 ELSE f[x]]
             U == S \ T
  <1>1. NatOn(a, S) /\ NatOn(b, S) /\ \A x \in S : f[x] = a[x] + b[x]
    BY DEF NatOn
  <1>2. /\ \A x \in T : f[x] = a[x]
        /\ \A x \in S \ T : a[x] = 0
        /\ \A x \in U : f[x] = b[x]
        /\ \A x \in S \ U : b[x] = 0
        /\ U \in SUBSET S
    OBVIOUS
  <1> HIDE DEF a, b, U
  <1>3. SumFunctionOnSet(f, S) = SumFunctionOnSet(a, S) + SumFunctionOnSet(b, S)
    BY <1>1, SumPlus
  <1>4. SumFunctionOnSet(f, T) = SumFunctionOnSet(a, S)
    BY <1>1, <1>2, SumSupport
  <1>5. SumFunctionOnSet(f, U) = SumFunctionOnSet(b, S)
    BY <1>1, <1>2, SumSupport
  <1> QED
    BY <1>3, <1>4, <1>5 DEF U

LEMMA SumBounded ==
    ASSUME NEW f, NEW m \in Nat, NEW S, IsFiniteSet(S), \A x \in S : f[x] \in 0..m
    PROVE  SumFunctionOnSet(f, S) <= Cardinality(S) * m
  <1> DEFINE B == {s \in SUBSET S : ~(SumFunctionOnSet(f, s) <= Cardinality(s) * m)}
  <1>1. B = {}
    <2>1. SUFFICES ASSUME B # {}
                   PROVE  FALSE
      OBVIOUS
    <2>2. PICK T \in B : \A x \in T : (T \ {x}) \notin B
      <3>1. B \in SUBSET (SUBSET S)
        OBVIOUS
      <3> HIDE DEF B
      <3> QED
        BY <2>1, <3>1, MinimalSet
    <2>3. PICK x \in T : TRUE
      <3>1. 0 <= 0 * m
        OBVIOUS
      <3>2. SumFunctionOnSet(f, {}) <= Cardinality({}) * m
        BY <3>1, SumEmpty, FS_EmptySet, Zenon
      <3> QED
        BY <2>2, <3>2
    <2>4. IsFiniteSet(T) /\ NatOn(f, T) /\ IsFiniteSet(T \ {x}) /\ NatOn(f, T \ {x})
      <3>1. IsFiniteSet(T)
        BY FS_Subset
      <3> QED
        BY <3>1, FS_RemoveElement DEF NatOn
    <2>5. SumFunctionOnSet(f, T \ {x}) <= Cardinality(T \ {x}) * m
      BY <2>2
    <2>6. SumFunctionOnSet(f, T) = f[x] + SumFunctionOnSet(f, T \ {x})
      BY <2>4, SumRemove
    <2>7. Cardinality(T \ {x}) = Cardinality(T) - 1 /\ Cardinality(T) \in Nat
      BY <2>4, FS_RemoveElement, FS_CardinalityType
    <2>8. SumFunctionOnSet(f, T \ {x}) \in Nat /\ f[x] \in 0..m
      BY <2>4, SumNat
    <2>9. PICK n \in Int : n = Cardinality(T)
      BY <2>7
    <2>10. (n - 1) * m + m = n * m /\ n * m \in Int /\ (n - 1) * m \in Int
      OBVIOUS
    <2>11. ~(SumFunctionOnSet(f, T) <= n * m)
      BY <2>2, <2>9
    <2>12. SumFunctionOnSet(f, T \ {x}) <= (n - 1) * m
      BY <2>5, <2>7, <2>9
    <2> QED
      BY <2>6, <2>8, <2>10, <2>11, <2>12
  <1> QED
    BY <1>1
=============================================================================
