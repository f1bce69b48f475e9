-------------------------------- MODULE Sums --------------------------------
(***************************************************************************)
(* Facts about SumFunctionOnSet, the sum of the values of a function over  *)
(* a finite set, which every total of the models is written with.          *)
(***************************************************************************)
EXTENDS Integers, Functions, FiniteSetTheorems, WellFoundedInduction, TLAPS

\* The element a sum takes next, and the recursion it runs.
AnyOf(s) == CHOOSE x \in s : TRUE
Adds(f, S, g) ==
    g = [s \in SUBSET S |-> IF s = {} THEN 0 ELSE f[AnyOf(s)] + g[s \ {AnyOf(s)}]]

\* Of a set of subsets of a finite set, some member has none of the others below it.
LEMMA SmallestSubset ==
    ASSUME NEW S, IsFiniteSet(S), NEW B \in SUBSET (SUBSET S), B # {}
    PROVE  \E T \in B : \A U \in B : U \subseteq T => U = T
  <1>1. FiniteSubsetsOf(S) = SUBSET S
    BY FS_FiniteSubsetsOfFinite
  <1>2. IsWellFoundedOn(StrictSubsetOrdering(S), SUBSET S)
    BY <1>1, FS_StrictSubsetOrderingWellFounded
  <1>3. PICK T \in B : \A U \in B : ~ (<<U, T>> \in StrictSubsetOrdering(S))
    BY <1>2, WFMin, Zenon
  <1>4. \A U \in B : U \subseteq T /\ U # T => <<U, T>> \in StrictSubsetOrdering(S)
    BY DEF StrictSubsetOrdering
  <1>5. \A U \in B : U \subseteq T => U = T
    BY <1>3, <1>4
  <1> QED BY <1>5

LEMMA TakenIn == ASSUME NEW s, s # {} PROVE AnyOf(s) \in s
  BY DEF AnyOf

\* The recursion has at most one solution.
LEMMA AddsOnce ==
    ASSUME NEW f, NEW S, IsFiniteSet(S), NEW g, NEW h, Adds(f, S, g), Adds(f, S, h)
    PROVE  g = h
  <1> DEFINE B == {s \in SUBSET S : g[s] # h[s]}
  <1>1. B = {}
    <2> SUFFICES ASSUME B # {} PROVE FALSE
      OBVIOUS
    <2>0. B \in SUBSET (SUBSET S)
      OBVIOUS
    <2>1. PICK s \in B : \A u \in B : u \subseteq s => u = s
      <3> HIDE DEF B
      <3> QED BY <2>0, SmallestSubset
    <2>2. s # {}
      BY <2>1 DEF Adds
    <2>3. AnyOf(s) \in s
      BY <2>2, TakenIn
    <2>4. s \ {AnyOf(s)} \in SUBSET S /\ s \ {AnyOf(s)} \notin B
      BY <2>1, <2>3
    <2>5. g[s \ {AnyOf(s)}] = h[s \ {AnyOf(s)}]
      BY <2>4
    <2>6. g[s] = f[AnyOf(s)] + g[s \ {AnyOf(s)}] /\ h[s] = f[AnyOf(s)] + h[s \ {AnyOf(s)}]
      BY <2>1, <2>2 DEF Adds
    <2> QED BY <2>1, <2>5, <2>6
  <1>2. \A s \in SUBSET S : g[s] = h[s]
    BY <1>1
  <1>3. g = [s \in SUBSET S |-> g[s]] /\ h = [s \in SUBSET S |-> h[s]]
    BY DEF Adds
  <1> HIDE DEF B
  <1> QED BY <1>2, <1>3, Zenon

\* A solution on a set, cut down to a subset, is the solution there.
LEMMA AddsCut ==
    ASSUME NEW f, NEW S, NEW T \in SUBSET S, NEW g, Adds(f, S, g),
           NEW h, h = [s \in SUBSET T |-> g[s]]
    PROVE  Adds(f, T, h)
  <1>1. ASSUME NEW s \in SUBSET T
        PROVE  h[s] = IF s = {} THEN 0 ELSE f[AnyOf(s)] + h[s \ {AnyOf(s)}]
    <2>1. s \in SUBSET S /\ s \ {AnyOf(s)} \in SUBSET T
      OBVIOUS
    <2>2. g[s] = IF s = {} THEN 0 ELSE f[AnyOf(s)] + g[s \ {AnyOf(s)}]
      BY <2>1 DEF Adds
    <2> QED BY <2>1, <2>2
  <1>2. h = [s \in SUBSET T |-> h[s]]
    OBVIOUS
  <1>3. h = [s \in SUBSET T |-> IF s = {} THEN 0 ELSE f[AnyOf(s)] + h[s \ {AnyOf(s)}]]
    BY <1>1, <1>2
  <1> QED BY <1>3 DEF Adds

\* The recursion has a solution on every finite set.
LEMMA AddsExists ==
    ASSUME NEW f, NEW S, IsFiniteSet(S)
    PROVE  \E g : Adds(f, S, g)
  <1> DEFINE B == {T \in SUBSET S : ~ \E g : Adds(f, T, g)}
             G(T) == CHOOSE g : Adds(f, T, g)
  <1> SUFFICES ASSUME B # {} PROVE FALSE
    OBVIOUS
  <1>0. B \in SUBSET (SUBSET S)
    OBVIOUS
  <1>1. PICK T \in B : \A U \in B : U \subseteq T => U = T
    <2> HIDE DEF B
    <2> QED BY <1>0, SmallestSubset
  <1>2. \A U \in SUBSET T : U # T => Adds(f, U, G(U))
    BY <1>1
  <1>3. \A U \in SUBSET T : IsFiniteSet(U)
    BY <1>1, FS_Subset
  <1> DEFINE less(s) == s \ {AnyOf(s)}
             h == [s \in SUBSET T |-> IF s = {} THEN 0 ELSE f[AnyOf(s)] + G(less(s))[less(s)]]
  <1> HIDE DEF G
  <1>4. ASSUME NEW s \in SUBSET T, s # {}
        PROVE  h[less(s)] = G(less(s))[less(s)]
    <2> DEFINE u == less(s)
    <2>1. AnyOf(s) \in s /\ u \in SUBSET T /\ u # T
      BY <1>4, TakenIn
    <2>2. Adds(f, u, G(u))
      BY <2>1, <1>2
    <2>3. CASE u = {}
      BY <2>1, <2>2, <2>3 DEF Adds
    <2>4. CASE u # {}
      <3>1. AnyOf(u) \in u /\ less(u) \in SUBSET u /\ less(u) \in SUBSET T /\ less(u) # T
        BY <2>1, <2>4, TakenIn
      <3>2. Adds(f, less(u), G(less(u)))
        BY <3>1, <1>2
      <3>3. Adds(f, less(u), [v \in SUBSET less(u) |-> G(u)[v]])
        <4>1. PICK g : g = G(u)
          OBVIOUS
        <4>2. PICK R : R = less(u)
          OBVIOUS
        <4>3. R \in SUBSET u /\ Adds(f, u, g)
          BY <3>1, <2>2, <4>1, <4>2
        <4> HIDE DEF u, less, h
        <4>4. Adds(f, R, [v \in SUBSET R |-> g[v]])
          BY ONLY <4>3, AddsCut
        <4> QED BY <4>1, <4>2, <4>4
      <3>4. G(less(u)) = [v \in SUBSET less(u) |-> G(u)[v]]
        BY <3>1, <3>2, <3>3, <1>3, AddsOnce
      <3>5. G(less(u))[less(u)] = G(u)[less(u)]
        BY <3>4
      <3>6. G(u)[u] = f[AnyOf(u)] + G(u)[less(u)]
        BY <2>2, <2>4 DEF Adds
      <3>7. h[u] = f[AnyOf(u)] + G(less(u))[less(u)]
        BY <2>1, <2>4
      <3> QED BY <3>5, <3>6, <3>7
    <2> QED BY <2>3, <2>4
  <1>5. h = [s \in SUBSET T |-> IF s = {} THEN 0 ELSE f[AnyOf(s)] + h[less(s)]]
    BY <1>4
  <1>6. Adds(f, T, h)
    BY <1>5 DEF Adds
  <1> QED BY <1>1, <1>6

LEMMA SumIs ==
    ASSUME NEW f, NEW S, IsFiniteSet(S), NEW g, Adds(f, S, g)
    PROVE  SumFunctionOnSet(f, S) = g[S]
  <1>1. \A h : Adds(f, S, h) => h = g
    BY AddsOnce
  <1> QED
    BY <1>1 DEF SumFunctionOnSet, FoldFunctionOnSet, MapThenFoldSet, Adds, AnyOf

LEMMA SumEmpty == ASSUME NEW f PROVE SumFunctionOnSet(f, {}) = 0
  <1>1. IsFiniteSet({})
    BY FS_EmptySet
  <1>2. PICK g : Adds(f, {}, g)
    BY <1>1, AddsExists
  <1>3. g[{}] = 0
    BY <1>2 DEF Adds
  <1> QED BY <1>1, <1>2, <1>3, SumIs

LEMMA SumAnyOf ==
    ASSUME NEW f, NEW S, IsFiniteSet(S), S # {}
    PROVE  SumFunctionOnSet(f, S) = f[AnyOf(S)] + SumFunctionOnSet(f, S \ {AnyOf(S)})
  <1> DEFINE T == S \ {AnyOf(S)}
  <1>1. PICK g : Adds(f, S, g)
    BY AddsExists
  <1>2. T \in SUBSET S /\ IsFiniteSet(T)
    BY FS_Subset
  <1> HIDE DEF T
  <1> DEFINE h == [s \in SUBSET T |-> g[s]]
  <1>3. h = [s \in SUBSET T |-> g[s]] /\ h[T] = g[T]
    OBVIOUS
  <1> HIDE DEF h
  <1>4. Adds(f, T, h)
    BY <1>1, <1>2, <1>3, AddsCut
  <1>5. SumFunctionOnSet(f, T) = h[T]
    BY <1>2, <1>4, SumIs
  <1>6. SumFunctionOnSet(f, S) = g[S]
    BY <1>1, SumIs
  <1>7. g[S] = f[AnyOf(S)] + g[T]
    BY <1>1 DEF Adds, T
  <1> QED BY <1>3, <1>5, <1>6, <1>7 DEF T

-----------------------------------------------------------------------------
\* A sum of integers is an integer.
THEOREM SumInt ==
    ASSUME NEW S, IsFiniteSet(S), NEW f, \A x \in S : f[x] \in Int
    PROVE  SumFunctionOnSet(f, S) \in Int
  <1> DEFINE B == {T \in SUBSET S : SumFunctionOnSet(f, T) \notin Int}
  <1>1. B \in SUBSET (SUBSET S)
    OBVIOUS
  <1>2. ASSUME B # {} PROVE FALSE
    <2>1. PICK T \in B : \A U \in B : U \subseteq T => U = T
      <3> HIDE DEF B
      <3> QED BY <1>1, <1>2, SmallestSubset
    <2>2. IsFiniteSet(T) /\ T # {}
      <3>1. T \in SUBSET S /\ T # {}
        BY SumEmpty
      <3> QED BY <3>1, FS_Subset
    <2>3. AnyOf(T) \in T
      BY <2>2, TakenIn
    <2>4. SumFunctionOnSet(f, T \ {AnyOf(T)}) \in Int
      BY <2>1, <2>3
    <2>5. f[AnyOf(T)] \in Int
      BY <2>3
    <2> QED BY <2>2, <2>4, <2>5, SumAnyOf
  <1> QED BY <1>2

\* Any element can be taken out of a sum.
THEOREM SumOut ==
    ASSUME NEW S, IsFiniteSet(S), NEW f, \A x \in S : f[x] \in Int, NEW x \in S
    PROVE  SumFunctionOnSet(f, S) = f[x] + SumFunctionOnSet(f, S \ {x})
  <1> DEFINE Sum(T) == SumFunctionOnSet(f, T)
             B == {T \in SUBSET S : \E y \in T : Sum(T) # f[y] + Sum(T \ {y})}
  <1>1. B \in SUBSET (SUBSET S)
    OBVIOUS
  <1>2. \A T \in SUBSET S : IsFiniteSet(T) /\ Sum(T) \in Int
    BY FS_Subset, SumInt
  <1>3. ASSUME B # {} PROVE FALSE
    <2>1. PICK T \in B : \A U \in B : U \subseteq T => U = T
      <3> HIDE DEF B
      <3> QED BY <1>1, <1>3, SmallestSubset
    <2>2. PICK y \in T : Sum(T) # f[y] + Sum(T \ {y})
      OBVIOUS
    <2> DEFINE t == AnyOf(T)
    <2>3. t \in T
      BY TakenIn
    <2>4. IsFiniteSet(T) /\ Sum(T) = f[t] + Sum(T \ {t})
      BY <2>2, <1>2, SumAnyOf
    <2>5. t # y
      BY <2>2, <2>4
    <2> HIDE DEF t
    <2>6. Sum(T \ {t}) = f[y] + Sum((T \ {t}) \ {y})
      <3>1. T \ {t} \in SUBSET S /\ T \ {t} \notin B /\ y \in T \ {t}
        BY <2>1, <2>3, <2>5
      <3> HIDE DEF Sum
      <3> QED BY <3>1
    <2>7. Sum(T \ {y}) = f[t] + Sum((T \ {y}) \ {t})
      <3>1. T \ {y} \in SUBSET S /\ T \ {y} \notin B /\ t \in T \ {y}
        BY <2>1, <2>3, <2>5
      <3> HIDE DEF Sum
      <3> QED BY <3>1
    <2>8. (T \ {t}) \ {y} = (T \ {y}) \ {t} /\ (T \ {t}) \ {y} \in SUBSET S
      OBVIOUS
    <2>9. f[t] \in Int /\ f[y] \in Int /\ Sum((T \ {t}) \ {y}) \in Int
      BY <2>3, <2>8, <1>2
    <2> HIDE DEF Sum
    <2> QED BY <2>2, <2>4, <2>6, <2>7, <2>8, <2>9
  <1> QED BY <1>3

\* Sums over one set compare as the functions do, value by value.
THEOREM SumOrder ==
    ASSUME NEW S, IsFiniteSet(S), NEW f, NEW g,
           \A x \in S : f[x] \in Int /\ g[x] \in Int /\ f[x] <= g[x]
    PROVE  SumFunctionOnSet(f, S) <= SumFunctionOnSet(g, S)
  <1> DEFINE B == {T \in SUBSET S : ~ SumFunctionOnSet(f, T) <= SumFunctionOnSet(g, T)}
  <1>1. B \in SUBSET (SUBSET S)
    OBVIOUS
  <1>2. ASSUME B # {} PROVE FALSE
    <2>1. PICK T \in B : \A U \in B : U \subseteq T => U = T
      <3> HIDE DEF B
      <3> QED BY <1>1, <1>2, SmallestSubset
    <2>2. IsFiniteSet(T) /\ T # {}
      <3>1. T \in SUBSET S /\ T # {}
        BY SumEmpty
      <3> QED BY <3>1, FS_Subset
    <2>3. PICK x : x \in T
      BY <2>2
    <2> DEFINE U == T \ {x}
    <2>4. IsFiniteSet(U) /\ U \in SUBSET S
      BY <2>2, FS_Subset
    <2>5. SumFunctionOnSet(f, U) <= SumFunctionOnSet(g, U)
      BY <2>1, <2>3
    <2>6. SumFunctionOnSet(f, U) \in Int /\ SumFunctionOnSet(g, U) \in Int
      BY <2>4, SumInt
    <2>7. SumFunctionOnSet(f, T) = f[x] + SumFunctionOnSet(f, U)
      BY <2>2, <2>3, SumOut
    <2>8. SumFunctionOnSet(g, T) = g[x] + SumFunctionOnSet(g, U)
      BY <2>2, <2>3, SumOut
    <2>9. f[x] \in Int /\ g[x] \in Int /\ f[x] <= g[x]
      BY <2>3
    <2>10. ~ SumFunctionOnSet(f, T) <= SumFunctionOnSet(g, T)
      OBVIOUS
    <2> QED BY <2>5, <2>6, <2>7, <2>8, <2>9, <2>10
  <1> QED BY <1>2

\* Functions that agree on a set have one sum over it.
THEOREM SumSame ==
    ASSUME NEW S, IsFiniteSet(S), NEW f, NEW g,
           \A x \in S : f[x] \in Int /\ g[x] = f[x]
    PROVE  SumFunctionOnSet(g, S) = SumFunctionOnSet(f, S)
  <1>1. SumFunctionOnSet(g, S) <= SumFunctionOnSet(f, S)
    BY SumOrder
  <1>2. SumFunctionOnSet(f, S) <= SumFunctionOnSet(g, S)
    BY SumOrder
  <1>3. SumFunctionOnSet(f, S) \in Int /\ SumFunctionOnSet(g, S) \in Int
    BY SumInt
  <1> QED BY <1>1, <1>2, <1>3

\* One value changes: the sum changes by as much.
THEOREM SumChange ==
    ASSUME NEW S, IsFiniteSet(S), NEW f, NEW g, NEW x \in S,
           \A y \in S : f[y] \in Int /\ g[y] \in Int,
           \A y \in S \ {x} : g[y] = f[y]
    PROVE  SumFunctionOnSet(g, S) = SumFunctionOnSet(f, S) - f[x] + g[x]
  <1> DEFINE T == S \ {x}
  <1>1. IsFiniteSet(T) /\ \A y \in T : f[y] \in Int /\ g[y] = f[y]
    BY FS_Subset
  <1>2. SumFunctionOnSet(g, T) = SumFunctionOnSet(f, T) /\ SumFunctionOnSet(f, T) \in Int
    BY <1>1, SumSame, SumInt
  <1>3. SumFunctionOnSet(f, S) = f[x] + SumFunctionOnSet(f, T)
    BY SumOut
  <1>4. SumFunctionOnSet(g, S) = g[x] + SumFunctionOnSet(g, T)
    BY SumOut
  <1> HIDE DEF T
  <1> QED BY <1>2, <1>3, <1>4

\* A sum whose values are all zero is zero.
THEOREM SumZero ==
    ASSUME NEW S, IsFiniteSet(S), NEW f, \A x \in S : f[x] = 0
    PROVE  SumFunctionOnSet(f, S) = 0
  <1> DEFINE B == {T \in SUBSET S : SumFunctionOnSet(f, T) # 0}
  <1>1. B \in SUBSET (SUBSET S)
    OBVIOUS
  <1>2. ASSUME B # {} PROVE FALSE
    <2>1. PICK T \in B : \A U \in B : U \subseteq T => U = T
      <3> HIDE DEF B
      <3> QED BY <1>1, <1>2, SmallestSubset
    <2>2. IsFiniteSet(T) /\ T # {}
      <3>1. T \in SUBSET S /\ T # {}
        BY SumEmpty
      <3> QED BY <3>1, FS_Subset
    <2>3. AnyOf(T) \in T
      BY <2>2, TakenIn
    <2>4. SumFunctionOnSet(f, T \ {AnyOf(T)}) = 0
      BY <2>1, <2>3
    <2>5. f[AnyOf(T)] = 0
      BY <2>3
    <2> QED BY <2>2, <2>4, <2>5, SumAnyOf
  <1> QED BY <1>2

\* A sum of naturals is a natural.
THEOREM SumNat ==
    ASSUME NEW S, IsFiniteSet(S), NEW f, \A x \in S : f[x] \in Nat
    PROVE  SumFunctionOnSet(f, S) \in Nat
  <1> DEFINE none == [x \in S |-> 0]
  <1>1. SumFunctionOnSet(none, S) = 0
    BY SumZero
  <1>2. SumFunctionOnSet(none, S) <= SumFunctionOnSet(f, S)
    BY SumOrder
  <1>3. SumFunctionOnSet(f, S) \in Int
    BY SumInt
  <1> HIDE DEF none
  <1> QED BY <1>1, <1>2, <1>3

\* The sum of two functions, value by value, is the sum of their sums.
THEOREM SumPlus ==
    ASSUME NEW S, IsFiniteSet(S), NEW f, NEW g, NEW h,
           \A x \in S : f[x] \in Int /\ g[x] \in Int /\ h[x] = f[x] + g[x]
    PROVE  SumFunctionOnSet(h, S) = SumFunctionOnSet(f, S) + SumFunctionOnSet(g, S)
  <1> DEFINE Sum(k, T) == SumFunctionOnSet(k, T)
             B == {T \in SUBSET S : Sum(h, T) # Sum(f, T) + Sum(g, T)}
  <1>1. B \in SUBSET (SUBSET S)
    OBVIOUS
  <1>2. ASSUME B # {} PROVE FALSE
    <2>1. PICK T \in B : \A U \in B : U \subseteq T => U = T
      <3> HIDE DEF B
      <3> QED BY <1>1, <1>2, SmallestSubset
    <2>2. IsFiniteSet(T) /\ T # {}
      <3>1. Sum(h, {}) = 0 /\ Sum(f, {}) = 0 /\ Sum(g, {}) = 0
        BY SumEmpty
      <3>2. T \in SUBSET S /\ Sum(h, T) # Sum(f, T) + Sum(g, T)
        OBVIOUS
      <3>3. T # {}
        <4> HIDE DEF Sum, B
        <4>1. ASSUME T = {} PROVE FALSE
          <5>1. Sum(h, T) = 0 /\ Sum(f, T) = 0 /\ Sum(g, T) = 0
            BY <3>1, <4>1, Zenon
          <5> QED BY <5>1, <3>2
        <4> QED BY <4>1
      <3> QED BY <3>2, <3>3, FS_Subset
    <2>3. AnyOf(T) \in T
      BY <2>2, TakenIn
    <2> DEFINE t == AnyOf(T)
               U == T \ {t}
    <2>4. U \in SUBSET S /\ U \notin B /\ IsFiniteSet(U)
      BY <2>1, <2>2, <2>3, FS_Subset
    <2>5. Sum(h, U) = Sum(f, U) + Sum(g, U)
      BY <2>4
    <2>6. /\ Sum(f, T) = f[t] + Sum(f, U)
          /\ Sum(g, T) = g[t] + Sum(g, U)
          /\ Sum(h, T) = h[t] + Sum(h, U)
      BY <2>2, SumAnyOf
    <2>7. Sum(f, U) \in Int /\ Sum(g, U) \in Int
      BY <2>4, SumInt
    <2>8. f[t] \in Int /\ g[t] \in Int /\ h[t] = f[t] + g[t]
      BY <2>3
    <2>9. Sum(h, T) # Sum(f, T) + Sum(g, T)
      OBVIOUS
    <2> HIDE DEF Sum, t, U
    <2> QED BY <2>5, <2>6, <2>7, <2>8, <2>9
  <1> QED BY <1>2

\* A sum of values of at most m over n elements is at most n * m.
THEOREM SumBound ==
    ASSUME NEW S, IsFiniteSet(S), NEW f, NEW m \in Int,
           \A x \in S : f[x] \in Int /\ f[x] <= m
    PROVE  SumFunctionOnSet(f, S) <= Cardinality(S) * m
  <1> DEFINE B == {T \in SUBSET S : ~ SumFunctionOnSet(f, T) <= Cardinality(T) * m}
  <1>1. B \in SUBSET (SUBSET S)
    OBVIOUS
  <1>2. ASSUME B # {} PROVE FALSE
    <2>1. PICK T \in B : \A U \in B : U \subseteq T => U = T
      <3> HIDE DEF B
      <3> QED BY <1>1, <1>2, SmallestSubset
    <2>2. IsFiniteSet(T) /\ T # {}
      <3>1. Cardinality({}) = 0 /\ SumFunctionOnSet(f, {}) = 0 /\ 0 * m = 0
        BY SumEmpty, FS_EmptySet
      <3>2. T \in SUBSET S /\ T # {}
        BY <3>1
      <3> QED BY <3>2, FS_Subset
    <2>3. AnyOf(T) \in T
      BY <2>2, TakenIn
    <2> DEFINE t == AnyOf(T)
               U == T \ {t}
               c == Cardinality(U)
    <2>4. U \in SUBSET S /\ U \notin B /\ IsFiniteSet(U)
      BY <2>1, <2>2, <2>3, FS_Subset
    <2>5. SumFunctionOnSet(f, U) <= c * m
      BY <2>4
    <2>6. c \in Nat /\ Cardinality(T) = c + 1
      BY <2>2, <2>3, <2>4, FS_RemoveElement, FS_CardinalityType
    <2>7. SumFunctionOnSet(f, T) = f[t] + SumFunctionOnSet(f, U)
      BY <2>2, SumAnyOf
    <2>8. SumFunctionOnSet(f, U) \in Int /\ f[t] \in Int /\ f[t] <= m
      BY <2>3, <2>4, SumInt
    <2>9. ~ SumFunctionOnSet(f, T) <= Cardinality(T) * m
      OBVIOUS
    <2> HIDE DEF t, U, c
    <2>10. (c + 1) * m = c * m + m /\ c * m \in Int
      BY <2>6
    <2> QED BY <2>5, <2>6, <2>7, <2>8, <2>9, <2>10
  <1> QED BY <1>2

\* On a finite set that is not empty a function has a greatest value.
THEOREM MaxAt ==
    ASSUME NEW S, IsFiniteSet(S), S # {}, NEW f, \A x \in S : f[x] \in Int
    PROVE  \E x \in S : \A y \in S : f[y] <= f[x]
  <1> DEFINE B == {T \in SUBSET S : T # {} /\ ~ \E x \in T : \A y \in T : f[y] <= f[x]}
  <1>1. B \in SUBSET (SUBSET S)
    OBVIOUS
  <1>2. ASSUME B # {} PROVE FALSE
    <2>1. PICK T \in B : \A U \in B : U \subseteq T => U = T
      <3> HIDE DEF B
      <3> QED BY <1>1, <1>2, SmallestSubset
    <2>2. PICK t : t \in T
      OBVIOUS
    <2>3. CASE T = {t}
      BY <2>2, <2>3
    <2>4. CASE T # {t}
      <3>1. T \ {t} \in SUBSET S /\ T \ {t} # {} /\ T \ {t} \notin B
        BY <2>1, <2>2, <2>4
      <3>2. PICK x \in T \ {t} : \A y \in T \ {t} : f[y] <= f[x]
        BY <3>1
      <3>3. f[t] \in Int /\ f[x] \in Int /\ x \in T /\ \A y \in T : f[y] \in Int
        BY <2>2, <3>2
      <3>4. CASE f[x] <= f[t]
        BY <2>2, <3>2, <3>3, <3>4
      <3>5. CASE f[t] <= f[x]
        BY <2>2, <3>2, <3>3, <3>5
      <3> QED BY <3>3, <3>4, <3>5
    <2> QED BY <2>3, <2>4
  <1> QED BY <1>2
=============================================================================
