------------------------------- MODULE SumProofs -------------------------------
(* Facts about what this project's invariants are stated with: the sum of a  *)
(* function over a finite set (SumFunctionOnSet), recursions over an         *)
(* interval, and powers.  The library defines the sum by a recursive         *)
(* function over the subsets of S that takes an arbitrary element away at    *)
(* each call, Power recurses over an interval: these lemmas show that the    *)
(* functions exist, and that the order of summation does not matter.         *)
EXTENDS Powers, Functions, FiniteSets, FiniteSetTheorems, WellFoundedInduction, TLAPS

-----------------------------------------------------------------------------
(* Induction, as facts about sets: the theorems of the library that take an  *)
(* operator are of no use to the provers.                                    *)

LEMMA SmallestSubset ==
  ASSUME NEW S, IsFiniteSet(S), NEW B, B \subseteq SUBSET S, B # {}
  PROVE  \E s \in B : \A u \in B : u \subseteq s => u = s
  <1>1. IsWellFoundedOn(StrictSubsetOrdering(S), SUBSET S)
    BY FS_StrictSubsetOrderingWellFounded, FS_FiniteSubsetsOfFinite
  <1>2. PICK s \in B : \A u \in B : ~(<<u, s>> \in StrictSubsetOrdering(S))
    BY <1>1, WFMin
  <1>3. ASSUME NEW u \in B, u \subseteq s, u # s PROVE FALSE
    <2>1. <<u, s>> \in (SUBSET S) \X (SUBSET S)
      OBVIOUS
    <2>2. <<u, s>> \in StrictSubsetOrdering(S)
      BY <1>3, <2>1 DEF StrictSubsetOrdering
    <2> QED
      BY <1>2, <2>2
  <1> QED
    BY <1>3

LEMMA SmallestNumber ==
  ASSUME NEW B, B \subseteq Nat, B # {}
  PROVE  \E n \in B : \A m \in B : n <= m
  <1>1. IsWellFoundedOn(OpToRel(<, Nat), Nat)
    BY NatLessThanWellFounded
  <1>2. PICK n \in B : \A m \in B : ~(<<m, n>> \in OpToRel(<, Nat))
    BY <1>1, WFMin
  <1>3. ASSUME NEW m \in B, ~(n <= m) PROVE FALSE
    <2>1. m < n /\ m \in Nat /\ n \in Nat
      BY <1>3
    <2>2. <<m, n>> \in OpToRel(<, Nat)
      BY <2>1 DEF OpToRel
    <2> QED
      BY <1>2, <2>2
  <1> QED
    BY <1>3

LEMMA InductiveSet ==
  ASSUME NEW S, 0 \in S, \A n \in Nat : n \in S => n + 1 \in S
  PROVE  Nat \subseteq S
  <1> DEFINE B == Nat \ S
  <1> SUFFICES ASSUME B # {} PROVE FALSE
    OBVIOUS
  <1>1. PICK n \in B : \A m \in B : n <= m
    <2>1. B \subseteq Nat
      OBVIOUS
    <2> HIDE DEF B
    <2> QED
      BY <2>1, SmallestNumber
  <1>2. n - 1 \in Nat /\ ~(n <= n - 1) /\ (n - 1) + 1 = n
    BY <1>1
  <1> QED
    BY <1>1, <1>2

-----------------------------------------------------------------------------
(* The recursion behind SumFunctionOnSet.                                    *)

First(s) == CHOOSE x \in s : TRUE

Iterates(g, f, S) ==
  g = [s \in SUBSET S |-> IF s = {} THEN 0 ELSE f[First(s)] + g[s \ {First(s)}]]

LEMMA FirstIn == ASSUME NEW s, s # {} PROVE First(s) \in s
  BY DEF First

LEMMA SumIsIterate ==
  ASSUME NEW f, NEW S PROVE SumFunctionOnSet(f, S) = (CHOOSE g : Iterates(g, f, S))[S]
  BY DEF SumFunctionOnSet, FoldFunctionOnSet, MapThenFoldSet, Iterates, First

(* Two solutions of the recursion agree on the sets both are defined on.     *)
LEMMA IteratesAgree ==
  ASSUME NEW f, NEW S, IsFiniteSet(S), NEW T \in SUBSET S, NEW g, NEW h,
         Iterates(g, f, S), Iterates(h, f, T)
  PROVE  \A u \in SUBSET T : g[u] = h[u]
  <1> DEFINE Bad == {u \in SUBSET T : g[u] # h[u]}
  <1> SUFFICES ASSUME Bad # {} PROVE FALSE
    OBVIOUS
  <1>1. IsFiniteSet(T)
    BY FS_Subset
  <1>2. PICK u \in Bad : \A v \in Bad : v \subseteq u => v = u
    <2>1. Bad \subseteq SUBSET T
      OBVIOUS
    <2> HIDE DEF Bad
    <2> QED
      BY <1>1, <2>1, SmallestSubset
  <1>3. CASE u = {}
    BY <1>2, <1>3 DEF Iterates
  <1>4. CASE u # {}
    <2> DEFINE v == u \ {First(u)}
    <2>1. v \subseteq u /\ v # u
      BY <1>4, FirstIn
    <2>2. v \notin Bad /\ v \in SUBSET T /\ u \in SUBSET T
      BY <1>2, <2>1
    <2>3. g[v] = h[v]
      BY <2>2
    <2>4. g[u] = f[First(u)] + g[v] /\ h[u] = f[First(u)] + h[v]
      BY <1>4, <2>2 DEF Iterates
    <2> QED
      BY <1>2, <2>3, <2>4
  <1> QED
    BY <1>3, <1>4

Solution(f, S) == CHOOSE g : Iterates(g, f, S)

(* The recursion has a solution: built from those of the smaller sets.       *)
LEMMA IteratesExists ==
  ASSUME NEW f, NEW S, IsFiniteSet(S)
  PROVE  \E g : Iterates(g, f, S)
  <1> DEFINE Bad == {s \in SUBSET S : ~\E g : Iterates(g, f, s)}
  <1> SUFFICES ASSUME Bad # {} PROVE FALSE
    OBVIOUS
  <1>1. PICK s \in Bad : \A u \in Bad : u \subseteq s => u = s
    <2>1. Bad \subseteq SUBSET S
      OBVIOUS
    <2> HIDE DEF Bad
    <2> QED
      BY <2>1, SmallestSubset
  <1>2. IsFiniteSet(s) /\ \A u \in SUBSET s : IsFiniteSet(u)
    BY FS_Subset
  <1>3. ASSUME NEW u \in SUBSET s, u # s PROVE Iterates(Solution(f, u), f, u)
    <2>1. \E g : Iterates(g, f, u)
      BY <1>1, <1>3
    <2> QED
      BY <2>1 DEF Solution
  <1> DEFINE below(u) == Solution(f, u)[u]
             value(u) == IF u = {} THEN 0 ELSE f[First(u)] + below(u \ {First(u)})
             g == [u \in SUBSET s |-> value(u)]
  <1>4. ASSUME NEW u \in SUBSET s, u # s PROVE g[u] = below(u)
    <2>1. Iterates(Solution(f, u), f, u) /\ IsFiniteSet(u)
      BY <1>2, <1>3, <1>4
    <2>2. CASE u = {}
      BY <2>1, <2>2 DEF Iterates
    <2>3. CASE u # {}
      <3> DEFINE v == u \ {First(u)}
      <3>1. v \in SUBSET u /\ u \in SUBSET u /\ v \in SUBSET s /\ v # s
        BY <1>4, <2>3, FirstIn
      <3>2. Iterates(Solution(f, v), f, v)
        BY <1>3, <3>1
      <3>3. Solution(f, u)[v] = Solution(f, v)[v]
        BY <2>1, <3>1, <3>2, IteratesAgree
      <3>4. Solution(f, u)[u] = f[First(u)] + Solution(f, u)[v]
        BY <2>1, <2>3, <3>1 DEF Iterates
      <3> QED
        BY <2>3, <3>3, <3>4
    <2> QED
      BY <2>2, <2>3
  <1>5. ASSUME NEW u \in SUBSET s
        PROVE  g[u] = IF u = {} THEN 0 ELSE f[First(u)] + g[u \ {First(u)}]
    <2>1. CASE u = {}
      BY <2>1
    <2>2. CASE u # {}
      <3>1. u \ {First(u)} \in SUBSET s /\ u \ {First(u)} # s
        BY <2>2, FirstIn
      <3>2. g[u \ {First(u)}] = below(u \ {First(u)})
        BY <1>4, <3>1
      <3> QED
        BY <2>2, <3>2
    <2> QED
      BY <2>1, <2>2
  <1> HIDE DEF value
  <1>6. Iterates(g, f, s)
    <2>1. g = [u \in SUBSET s |-> g[u]]
      OBVIOUS
    <2> HIDE DEF g
    <2> QED
      BY <1>5, <2>1 DEF Iterates
  <1> QED
    BY <1>1, <1>6

-----------------------------------------------------------------------------
(* The sum of nothing, and one element taken away.                           *)

LEMMA SumSolution ==
  ASSUME NEW f, NEW S, IsFiniteSet(S)
  PROVE  Iterates(Solution(f, S), f, S) /\ SumFunctionOnSet(f, S) = Solution(f, S)[S]
  BY IteratesExists, SumIsIterate DEF Solution

LEMMA SumEmpty == ASSUME NEW f PROVE SumFunctionOnSet(f, {}) = 0
  <1>1. IsFiniteSet({}) /\ {} \in SUBSET {}
    BY FS_EmptySet
  <1>2. Iterates(Solution(f, {}), f, {}) /\ SumFunctionOnSet(f, {}) = Solution(f, {})[{}]
    BY <1>1, SumSolution
  <1> QED
    BY <1>1, <1>2 DEF Iterates

LEMMA SumFirst ==
  ASSUME NEW f, NEW S, IsFiniteSet(S), S # {}
  PROVE  SumFunctionOnSet(f, S) = f[First(S)] + SumFunctionOnSet(f, S \ {First(S)})
  <1> DEFINE v == S \ {First(S)}
  <1>1. v \in SUBSET S /\ S \in SUBSET S /\ IsFiniteSet(v)
    BY FS_Subset
  <1>2. Iterates(Solution(f, S), f, S) /\ Iterates(Solution(f, v), f, v)
    BY <1>1, SumSolution
  <1>3. Solution(f, S)[v] = Solution(f, v)[v]
    <2>1. \A u \in SUBSET v : Solution(f, S)[u] = Solution(f, v)[u]
      BY <1>1, <1>2, IteratesAgree
    <2> QED
      BY <2>1
  <1>4. Solution(f, S)[S] = f[First(S)] + Solution(f, S)[v]
    BY <1>1, <1>2 DEF Iterates
  <1> QED
    BY <1>1, <1>3, <1>4, SumSolution

LEMMA SumInt ==
  ASSUME NEW f, NEW S, IsFiniteSet(S), \A x \in S : f[x] \in Int
  PROVE  SumFunctionOnSet(f, S) \in Int
  <1> DEFINE Bad == {s \in SUBSET S : SumFunctionOnSet(f, s) \notin Int}
  <1> SUFFICES ASSUME Bad # {} PROVE FALSE
    OBVIOUS
  <1>1. PICK s \in Bad : \A u \in Bad : u \subseteq s => u = s
    <2>1. Bad \subseteq SUBSET S
      OBVIOUS
    <2> HIDE DEF Bad
    <2> QED
      BY <2>1, SmallestSubset
  <1>2. IsFiniteSet(s)
    BY FS_Subset
  <1>3. s # {}
    <2>1. SumFunctionOnSet(f, {}) \in Int
      BY SumEmpty
    <2> QED
      BY <1>1, <2>1
  <1> DEFINE v == s \ {First(s)}
  <1>4. First(s) \in s /\ v \subseteq s /\ v # s
    BY <1>3, FirstIn
  <1>5. SumFunctionOnSet(f, v) \in Int
    BY <1>1, <1>4
  <1>6. SumFunctionOnSet(f, s) = f[First(s)] + SumFunctionOnSet(f, v)
    BY <1>2, <1>3, SumFirst
  <1>7. f[First(s)] \in Int
    BY <1>4
  <1> QED
    BY <1>1, <1>5, <1>6, <1>7

(* Any element may be taken away: the order of summation does not matter.    *)
LEMMA SumTake ==
  ASSUME NEW f, NEW S, IsFiniteSet(S), \A x \in S : f[x] \in Int, NEW x \in S
  PROVE  SumFunctionOnSet(f, S) = f[x] + SumFunctionOnSet(f, S \ {x})
  <1> DEFINE Total(s) == SumFunctionOnSet(f, s)
             Bad == {s \in SUBSET S : \E y \in s : Total(s) # f[y] + Total(s \ {y})}
  <1> SUFFICES ASSUME Bad # {} PROVE FALSE
    OBVIOUS
  <1>1. PICK s \in Bad : \A u \in Bad : u \subseteq s => u = s
    <2>1. Bad \subseteq SUBSET S
      OBVIOUS
    <2> HIDE DEF Bad
    <2> QED
      BY <2>1, SmallestSubset
  <1>2. s \subseteq S /\ IsFiniteSet(s)
    BY FS_Subset
  <1>3. PICK y \in s : Total(s) # f[y] + Total(s \ {y})
    BY <1>1
  <1>4. First(s) \in s /\ Total(s) = f[First(s)] + Total(s \ {First(s)})
    BY <1>2, <1>3, FirstIn, SumFirst
  <1>5. First(s) # y
    BY <1>3, <1>4
  <1> DEFINE rest == (s \ {First(s)}) \ {y}
  <1>6. Total(s \ {First(s)}) = f[y] + Total(rest)
    <2>1. s \ {First(s)} \notin Bad
      BY <1>1, <1>4
    <2> QED
      BY <1>2, <1>3, <1>5, <2>1
  <1>7. Total(s \ {y}) = f[First(s)] + Total(rest)
    <2>1. s \ {y} \notin Bad
      BY <1>1, <1>3
    <2>2. (s \ {y}) \ {First(s)} = rest
      OBVIOUS
    <2> QED
      BY <1>2, <1>4, <1>5, <2>1, <2>2
  <1>8. f[First(s)] \in Int /\ f[y] \in Int /\ Total(rest) \in Int
    <2>1. IsFiniteSet(rest) /\ rest \subseteq S
      BY <1>2, FS_Subset
    <2>2. Total(rest) \in Int
      BY <2>1, SumInt
    <2> QED
      BY <1>2, <1>4, <2>2
  <1> HIDE DEF Total, rest
  <1> QED
    BY <1>3, <1>4, <1>6, <1>7, <1>8

LEMMA SumAdd ==
  ASSUME NEW f, NEW S, IsFiniteSet(S), NEW x, x \notin S, \A y \in S \cup {x} : f[y] \in Int
  PROVE  SumFunctionOnSet(f, S \cup {x}) = SumFunctionOnSet(f, S) + f[x]
  <1> DEFINE T == S \cup {x}
  <1>1. IsFiniteSet(T) /\ x \in T /\ T \ {x} = S /\ \A y \in T : f[y] \in Int
    BY FS_AddElement
  <1> HIDE DEF T
  <1>2. SumFunctionOnSet(f, T) = f[x] + SumFunctionOnSet(f, T \ {x})
    BY <1>1, SumTake
  <1>3. SumFunctionOnSet(f, S) \in Int /\ f[x] \in Int
    BY <1>1, SumInt
  <1>4. SumFunctionOnSet(f, T) = f[x] + SumFunctionOnSet(f, S)
    BY <1>1, <1>2
  <1>5. SumFunctionOnSet(f, T) = SumFunctionOnSet(f, S) + f[x]
    BY <1>3, <1>4
  <1> QED
    BY <1>5 DEF T

(* Only the values on the set count.                                         *)
LEMMA SumSame ==
  ASSUME NEW f, NEW g, NEW S, IsFiniteSet(S), \A x \in S : f[x] = g[x]
  PROVE  SumFunctionOnSet(f, S) = SumFunctionOnSet(g, S)
  <1> DEFINE Bad == {s \in SUBSET S : SumFunctionOnSet(f, s) # SumFunctionOnSet(g, s)}
  <1> SUFFICES ASSUME Bad # {} PROVE FALSE
    OBVIOUS
  <1>1. PICK s \in Bad : \A u \in Bad : u \subseteq s => u = s
    <2>1. Bad \subseteq SUBSET S
      OBVIOUS
    <2> HIDE DEF Bad
    <2> QED
      BY <2>1, SmallestSubset
  <1>2. IsFiniteSet(s)
    BY FS_Subset
  <1>3. s # {}
    BY <1>1, SumEmpty
  <1>4. First(s) \in s /\ s \ {First(s)} \notin Bad
    BY <1>1, <1>3, FirstIn
  <1>5. /\ SumFunctionOnSet(f, s) = f[First(s)] + SumFunctionOnSet(f, s \ {First(s)})
        /\ SumFunctionOnSet(g, s) = g[First(s)] + SumFunctionOnSet(g, s \ {First(s)})
    BY <1>2, <1>3, SumFirst
  <1> QED
    BY <1>1, <1>4, <1>5

(* One value changed.                                                        *)
LEMMA SumChange ==
  ASSUME NEW f, NEW g, NEW S, IsFiniteSet(S), NEW x \in S,
         \A y \in S : f[y] \in Int /\ g[y] \in Int,
         \A y \in S : y # x => g[y] = f[y]
  PROVE  SumFunctionOnSet(g, S) = SumFunctionOnSet(f, S) + (g[x] - f[x])
  <1> DEFINE rest == S \ {x}
  <1>1. IsFiniteSet(rest) /\ \A y \in rest : g[y] = f[y] /\ f[y] \in Int
    BY FS_Subset
  <1>2. /\ SumFunctionOnSet(f, S) = f[x] + SumFunctionOnSet(f, rest)
        /\ SumFunctionOnSet(g, S) = g[x] + SumFunctionOnSet(g, rest)
    BY SumTake
  <1> HIDE DEF rest
  <1>3. SumFunctionOnSet(g, rest) = SumFunctionOnSet(f, rest) /\ SumFunctionOnSet(f, rest) \in Int
    BY <1>1, SumSame, SumInt
  <1> QED
    BY <1>2, <1>3

LEMMA SumZero ==
  ASSUME NEW f, NEW S, IsFiniteSet(S), \A x \in S : f[x] = 0
  PROVE  SumFunctionOnSet(f, S) = 0
  <1> DEFINE Bad == {s \in SUBSET S : SumFunctionOnSet(f, s) # 0}
  <1> SUFFICES ASSUME Bad # {} PROVE FALSE
    OBVIOUS
  <1>1. PICK s \in Bad : \A u \in Bad : u \subseteq s => u = s
    <2>1. Bad \subseteq SUBSET S
      OBVIOUS
    <2> HIDE DEF Bad
    <2> QED
      BY <2>1, SmallestSubset
  <1>2. s # {} /\ IsFiniteSet(s)
    BY <1>1, SumEmpty, FS_Subset
  <1>3. First(s) \in s /\ s \ {First(s)} \notin Bad
    BY <1>1, <1>2, FirstIn
  <1>4. SumFunctionOnSet(f, s) = f[First(s)] + SumFunctionOnSet(f, s \ {First(s)})
    BY <1>2, SumFirst
  <1> QED
    BY <1>1, <1>3, <1>4

LEMMA NextMultiple == ASSUME NEW c \in Nat, NEW m \in Int PROVE (c + 1) * m = c * m + m
  OBVIOUS

(* A sum of values of at most m is at most m times their number.             *)
LEMMA SumBelow ==
  ASSUME NEW f, NEW S, IsFiniteSet(S), NEW m \in Int, \A x \in S : f[x] \in Int /\ f[x] <= m
  PROVE  SumFunctionOnSet(f, S) <= Cardinality(S) * m
  <1> DEFINE Bad == {s \in SUBSET S : ~(SumFunctionOnSet(f, s) <= Cardinality(s) * m)}
  <1> SUFFICES ASSUME Bad # {} PROVE FALSE
    OBVIOUS
  <1>1. PICK s \in Bad : \A u \in Bad : u \subseteq s => u = s
    <2>1. Bad \subseteq SUBSET S
      OBVIOUS
    <2> HIDE DEF Bad
    <2> QED
      BY <2>1, SmallestSubset
  <1>2. IsFiniteSet(s) /\ s \subseteq S
    BY <1>1, FS_Subset
  <1>3. s # {}
    <2>1. SumFunctionOnSet(f, {}) = 0 /\ Cardinality({}) = 0 /\ 0 * m = 0 /\ 0 <= 0
      BY SumEmpty, FS_EmptySet
    <2>2. SumFunctionOnSet(f, {}) <= Cardinality({}) * m
      BY <2>1
    <2>3. {} \notin Bad
      BY <2>2
    <2> QED
      BY <1>1, <2>3
  <1>4. PICK x \in s : TRUE
    BY <1>3
  <1> DEFINE rest == s \ {x}
  <1>5. rest \notin Bad /\ rest \in SUBSET S /\ IsFiniteSet(rest)
    BY <1>1, <1>2, FS_Subset
  <1>6. SumFunctionOnSet(f, rest) <= Cardinality(rest) * m
    BY <1>5
  <1>7. SumFunctionOnSet(f, s) = f[x] + SumFunctionOnSet(f, rest) /\ f[x] \in Int /\ f[x] <= m
    BY <1>2, SumTake
  <1>8. Cardinality(rest) \in Nat /\ Cardinality(s) = Cardinality(rest) + 1
    BY <1>2, <1>5, FS_RemoveElement, FS_CardinalityType
  <1>9. SumFunctionOnSet(f, rest) \in Int
    BY <1>2, <1>5, SumInt
  <1> HIDE DEF rest
  <1>10. Cardinality(s) * m = Cardinality(rest) * m + m
    BY <1>8, NextMultiple
  <1>11. Cardinality(rest) * m \in Int
    BY <1>8
  <1>12. SumFunctionOnSet(f, s) <= Cardinality(s) * m
    BY <1>6, <1>7, <1>9, <1>10, <1>11
  <1> QED
    BY <1>1, <1>12

LEMMA SumNat ==
  ASSUME NEW f, NEW S, IsFiniteSet(S), \A x \in S : f[x] \in Nat
  PROVE  SumFunctionOnSet(f, S) \in Nat
  <1> DEFINE Bad == {s \in SUBSET S : SumFunctionOnSet(f, s) \notin Nat}
  <1> SUFFICES ASSUME Bad # {} PROVE FALSE
    OBVIOUS
  <1>1. PICK s \in Bad : \A u \in Bad : u \subseteq s => u = s
    <2>1. Bad \subseteq SUBSET S
      OBVIOUS
    <2> HIDE DEF Bad
    <2> QED
      BY <2>1, SmallestSubset
  <1>2. s # {} /\ IsFiniteSet(s)
    <2>1. SumFunctionOnSet(f, {}) \in Nat
      BY SumEmpty
    <2>2. {} \notin Bad
      BY <2>1
    <2> QED
      BY <1>1, <2>2, FS_Subset
  <1>3. First(s) \in s /\ s \ {First(s)} \notin Bad
    BY <1>1, <1>2, FirstIn
  <1>4. SumFunctionOnSet(f, s) = f[First(s)] + SumFunctionOnSet(f, s \ {First(s)})
    BY <1>2, SumFirst
  <1> QED
    BY <1>1, <1>3, <1>4

(* A part of values that are not negative sums up to at most the whole.      *)
LEMMA SumMonotone ==
  ASSUME NEW f, NEW S, IsFiniteSet(S), \A x \in S : f[x] \in Nat, NEW T, T \subseteq S
  PROVE  SumFunctionOnSet(f, T) <= SumFunctionOnSet(f, S)
  <1> DEFINE Bad == {s \in SUBSET S : T \subseteq s
                                      /\ ~(SumFunctionOnSet(f, T) <= SumFunctionOnSet(f, s))}
  <1> SUFFICES ASSUME Bad # {} PROVE FALSE
    OBVIOUS
  <1>1. PICK s \in Bad : \A u \in Bad : u \subseteq s => u = s
    <2>1. Bad \subseteq SUBSET S
      OBVIOUS
    <2> HIDE DEF Bad
    <2> QED
      BY <2>1, SmallestSubset
  <1>2. SumFunctionOnSet(f, T) \in Nat /\ IsFiniteSet(s)
    BY <1>1, FS_Subset, SumNat
  <1>3. PICK x \in s : x \notin T
    <2>1. T \notin Bad
      BY <1>2
    <2>2. T \subseteq s
      BY <1>1
    <2> HIDE DEF Bad
    <2>3. s # T
      BY <1>1, <2>1
    <2> QED
      BY <2>2, <2>3
  <1>4. SumFunctionOnSet(f, T) <= SumFunctionOnSet(f, s \ {x})
    BY <1>1, <1>3
  <1>5. SumFunctionOnSet(f, s) = f[x] + SumFunctionOnSet(f, s \ {x})
    BY <1>1, <1>2, <1>3, SumTake
  <1>6. SumFunctionOnSet(f, s \ {x}) \in Nat /\ f[x] \in Nat
    <2>1. IsFiniteSet(s \ {x})
      BY <1>2, FS_Subset
    <2> QED
      BY <1>1, <1>3, <2>1, SumNat
  <1>7. SumFunctionOnSet(f, T) <= SumFunctionOnSet(f, s)
    BY <1>2, <1>4, <1>5, <1>6
  <1> QED
    BY <1>1, <1>7

(* The same values at other places of the number line have the same sum.     *)
Shifted(f, a, b, g, c, e) ==
  /\ a \in Int /\ b \in Int /\ c \in Int /\ e \in Int /\ e - c = b - a
  /\ \A i \in a..b : f[i] \in Int /\ g[i + (c - a)] = f[i]

LEMMA SumShift ==
  ASSUME NEW f, NEW a, NEW b, NEW g, NEW c, NEW e, Shifted(f, a, b, g, c, e)
  PROVE  SumFunctionOnSet(g, c..e) = SumFunctionOnSet(f, a..b)
  <1> USE DEF Shifted
  <1> DEFINE d == c - a
  <1> DEFINE F(n) == SumFunctionOnSet(f, a..(a + n - 1))
             G(n) == SumFunctionOnSet(g, c..(c + n - 1))
             Bad == {n \in Nat : n <= b - a + 1 /\ F(n) # G(n)}
  <1>1. F(0) = G(0)
    <2>1. a..(a + 0 - 1) = {} /\ c..(c + 0 - 1) = {}
      OBVIOUS
    <2> QED
      BY <2>1, SumEmpty
  <1>2. ASSUME NEW n \in Nat, n # 0, n <= b - a + 1, F(n - 1) = G(n - 1) PROVE F(n) = G(n)
    <2> DEFINE i == a + n - 1
               A == a..(i - 1)
               B == c..(i + d - 1)
    <2>1. i \in a..b /\ i + d \in Int
      BY <1>2
    <2>9. a \in Int /\ c \in Int /\ n \in Nat /\ n > 0 /\ i + d = c + n - 1
      BY <1>2
    <2>2. /\ a..(a + n - 1) = A \cup {i} /\ i \notin A
          /\ a..(a + (n - 1) - 1) = A
      BY <2>9
    <2>8. /\ c..(c + n - 1) = B \cup {i + d} /\ i + d \notin B
          /\ c..(c + (n - 1) - 1) = B
      <3>1. B = c..(c + n - 2)
        BY <2>9
      <3> HIDE DEF i, B, d
      <3>2. /\ c..(c + n - 1) = B \cup {c + n - 1} /\ c + n - 1 \notin B
            /\ c..(c + (n - 1) - 1) = B
        BY <2>9, <3>1
      <3> QED
        BY <2>9, <3>2
    <2>3. IsFiniteSet(A) /\ \A j \in A \cup {i} : f[j] \in Int
      <3>1. A \cup {i} \subseteq a..b
        BY <1>2
      <3>2. IsFiniteSet(A)
        BY <2>1, FS_Interval
      <3> QED
        BY <3>1, <3>2
    <2>4. IsFiniteSet(B) /\ \A j \in B \cup {i + d} : g[j] \in Int
      <3>1. ASSUME NEW j \in B \cup {i + d} PROVE g[j] \in Int
        <4>1. j - d \in a..b /\ (j - d) + d = j
          BY <1>2, <3>1
        <4> QED
          BY <4>1
      <3>2. IsFiniteSet(B)
        BY <2>1, FS_Interval
      <3> QED
        BY <3>1, <3>2
    <2>5. g[i + d] = f[i]
      BY <2>1
    <2> HIDE DEF A, B
    <2>6. F(n) = SumFunctionOnSet(f, A) + f[i]
      <3>1. SumFunctionOnSet(f, A \cup {i}) = SumFunctionOnSet(f, A) + f[i]
        BY <2>2, <2>3, SumAdd
      <3> QED
        BY <2>2, <3>1
    <2>7. G(n) = SumFunctionOnSet(g, B) + g[i + d]
      <3>1. SumFunctionOnSet(g, B \cup {i + d}) = SumFunctionOnSet(g, B) + g[i + d]
        BY <2>4, <2>8, SumAdd
      <3> QED
        BY <2>8, <3>1
    <2> QED
      BY <1>2, <2>2, <2>5, <2>6, <2>7, <2>8
  <1>6. a \in Int /\ b \in Int
    OBVIOUS
  <1> HIDE DEF F, G, Shifted
  <1>3. ASSUME Bad # {} PROVE FALSE
    <2>1. PICK n \in Bad : \A m \in Bad : n <= m
      <3>1. Bad \subseteq Nat
        OBVIOUS
      <3> HIDE DEF Bad
      <3> QED
        BY <1>3, <3>1, SmallestNumber
    <2>2. n \in Nat /\ n <= b - a + 1 /\ F(n) # G(n)
      BY <2>1
    <2>3. n # 0
      BY <1>1, <2>2
    <2>4. n - 1 \in Nat /\ n - 1 <= b - a + 1 /\ ~(n <= n - 1)
      BY <1>6, <2>2, <2>3
    <2>5. F(n - 1) = G(n - 1)
      BY <2>1, <2>4
    <2> QED
      BY <1>2, <2>2, <2>3, <2>5
  <1>4. CASE b < a
    <2>1. a..b = {} /\ c..e = {}
      BY <1>4 DEF Shifted
    <2> QED
      BY <2>1, SumEmpty
  <1>5. CASE b >= a
    <2> DEFINE n == b - a + 1
    <2>1. n \in Nat /\ n <= b - a + 1 /\ a + n - 1 = b /\ c + n - 1 = e
      BY <1>5 DEF Shifted
    <2>2. F(n) = G(n)
      BY <1>3, <2>1
    <2> HIDE DEF n
    <2>3. F(n) = SumFunctionOnSet(f, a..b) /\ G(n) = SumFunctionOnSet(g, c..e)
      BY <2>1 DEF F, G
    <2> QED
      BY <2>2, <2>3
  <1>7. b < a \/ b >= a
    BY <1>6
  <1> QED
    BY <1>4, <1>5, <1>7

(* A constant factor.                                                        *)
LEMMA SumScaled ==
  ASSUME NEW f, NEW g, NEW S, IsFiniteSet(S), NEW c \in Int,
         \A x \in S : f[x] \in Int /\ g[x] = c * f[x]
  PROVE  SumFunctionOnSet(g, S) = c * SumFunctionOnSet(f, S)
  <1> DEFINE Bad == {s \in SUBSET S : SumFunctionOnSet(g, s) # c * SumFunctionOnSet(f, s)}
  <1> SUFFICES ASSUME Bad # {} PROVE FALSE
    OBVIOUS
  <1>1. PICK s \in Bad : \A u \in Bad : u \subseteq s => u = s
    <2>1. Bad \subseteq SUBSET S
      OBVIOUS
    <2> HIDE DEF Bad
    <2> QED
      BY <2>1, SmallestSubset
  <1>2. s # {} /\ IsFiniteSet(s)
    <2>1. SumFunctionOnSet(g, {}) = c * SumFunctionOnSet(f, {})
      BY SumEmpty
    <2>2. {} \notin Bad
      BY <2>1
    <2> QED
      BY <1>1, <2>2, FS_Subset
  <1>3. First(s) \in s /\ s \ {First(s)} \notin Bad
    BY <1>1, <1>2, FirstIn
  <1> DEFINE x == First(s)
             rest == s \ {First(s)}
  <1>4. /\ SumFunctionOnSet(f, s) = f[x] + SumFunctionOnSet(f, rest)
        /\ SumFunctionOnSet(g, s) = g[x] + SumFunctionOnSet(g, rest)
    BY <1>2, SumFirst
  <1>5. SumFunctionOnSet(g, rest) = c * SumFunctionOnSet(f, rest)
    BY <1>1, <1>3
  <1>6. SumFunctionOnSet(f, rest) \in Int /\ f[x] \in Int /\ g[x] = c * f[x]
    <2>1. IsFiniteSet(rest) /\ rest \subseteq S /\ x \in S
      BY <1>1, <1>2, <1>3, FS_Subset
    <2> QED
      BY <2>1, SumInt
  <1>7. SumFunctionOnSet(g, s) = c * SumFunctionOnSet(f, s)
    <2> DEFINE t == SumFunctionOnSet(f, rest)
    <2>1. t \in Int /\ SumFunctionOnSet(g, s) = c * f[x] + c * t /\ SumFunctionOnSet(f, s) = f[x] + t
      BY <1>4, <1>5, <1>6
    <2> HIDE DEF t
    <2>2. \A a, b \in Int : c * a + c * b = c * (a + b)
      OBVIOUS
    <2> QED
      BY <1>6, <2>1, <2>2
  <1> QED
    BY <1>1, <1>7

-----------------------------------------------------------------------------
(* A recursion over an interval has a solution, and two of them agree as far *)
(* as their steps do.                                                        *)
Solves(f, a, b, base, step) ==
  \A k \in a..b : f[k] = IF k = a THEN base ELSE step[k][f[k - 1]]

LEMMA RecursionExists ==
  ASSUME NEW a \in Int, NEW b \in Int, NEW S, NEW base \in S, NEW step \in [a..b -> [S -> S]]
  PROVE  \E f \in [a..b -> S] : Solves(f, a, b, base, step)
  <1> DEFINE Has(c) == \E f \in [a..c -> S] : Solves(f, a, c, base, step)
             Bad == {n \in Nat : a + n <= b /\ ~Has(a + n)}
  <1>1. ASSUME Bad # {} PROVE FALSE
    <2>1. PICK n \in Bad : \A m \in Bad : n <= m
      <3>1. Bad \subseteq Nat
        OBVIOUS
      <3> HIDE DEF Bad
      <3> QED
        BY <1>1, <3>1, SmallestNumber
    <2>2. n \in Nat /\ a + n <= b /\ ~Has(a + n)
      BY <2>1
    <2>3. CASE n = 0
      <3> DEFINE f == [k \in a..a |-> base]
      <3>1. f \in [a..a -> S] /\ Solves(f, a, a, base, step)
        BY DEF Solves
      <3>2. a + n = a
        BY <2>3
      <3> HIDE DEF f
      <3> QED
        BY <2>2, <3>1, <3>2
    <2>4. CASE n # 0
      <3> DEFINE c == a + n
      <3>1. n - 1 \in Nat /\ ~(n <= n - 1) /\ a + (n - 1) = c - 1 /\ c - 1 <= b /\ c \in Int
            /\ c \in a..b /\ c # a
        BY <2>2, <2>4
      <3>2. Has(c - 1)
        <4>1. n - 1 \notin Bad
          BY <2>1, <3>1
        <4>2. Has(a + (n - 1))
          BY <3>1, <4>1
        <4> QED
          BY <3>1, <4>2
      <3> HIDE DEF c
      <3>3. PICK f \in [a..(c - 1) -> S] : Solves(f, a, c - 1, base, step)
        BY <3>2
      <3> DEFINE g == [k \in a..c |-> IF k = c THEN step[k][f[k - 1]] ELSE f[k]]
      <3>4. c - 1 \in a..(c - 1) /\ f[c - 1] \in S /\ step[c][f[c - 1]] \in S
        BY <3>1
      <3>5. \A k \in a..c : k # c => k \in a..(c - 1) /\ (k # a => k - 1 \in a..(c - 1) /\ k - 1 # c)
        BY <3>1
      <3>6. g \in [a..c -> S]
        BY <3>4, <3>5
      <3>7. ASSUME NEW k \in a..c PROVE g[k] = IF k = a THEN base ELSE step[k][g[k - 1]]
        <4>1. CASE k = c
          <5>1. g[c - 1] = f[c - 1] /\ g[c] = step[c][f[c - 1]]
            BY <3>1, <3>4, <4>1
          <5> QED
            BY <3>1, <4>1, <5>1
        <4>2. CASE k # c
          <5>1. g[k] = f[k]
            BY <4>2
          <5>2. f[k] = IF k = a THEN base ELSE step[k][f[k - 1]]
            BY <3>3, <3>5, <4>2 DEF Solves
          <5>3. CASE k = a
            BY <5>1, <5>2, <5>3
          <5>4. CASE k # a
            <6>1. k - 1 \in a..c /\ k - 1 # c
              BY <3>1, <3>5, <4>2, <5>4
            <6>2. g[k - 1] = f[k - 1]
              BY <6>1
            <6> QED
              BY <5>1, <5>2, <5>4, <6>2
          <5> QED
            BY <5>3, <5>4
        <4> QED
          BY <4>1, <4>2
      <3> HIDE DEF g
      <3>8. Has(c)
        BY <3>6, <3>7 DEF Solves
      <3> QED
        BY <2>2, <3>8 DEF c
    <2> QED
      BY <2>3, <2>4
  <1>2. CASE a > b
    <2> DEFINE f == [k \in a..b |-> base]
    <2>1. f \in [a..b -> S] /\ Solves(f, a, b, base, step)
      BY <1>2 DEF Solves
    <2> QED
      BY <2>1
  <1>3. CASE a <= b
    <2>1. b - a \in Nat /\ a + (b - a) = b
      BY <1>3
    <2>2. b - a \notin Bad
      BY <1>1
    <2>3. Has(a + (b - a))
      BY <2>1, <2>2
    <2> QED
      BY <2>1, <2>3
  <1> QED
    BY <1>2, <1>3

SameSteps(f, g, a, b) ==
  f[a] = g[a] /\ \A k \in (a + 1)..b : f[k - 1] = g[k - 1] => f[k] = g[k]

LEMMA RecursionsAgree ==
  ASSUME NEW a \in Int, NEW b \in Int, NEW f, NEW g, SameSteps(f, g, a, b)
  PROVE  \A k \in a..b : f[k] = g[k]
  <1> DEFINE Bad == {n \in Nat : a + n <= b /\ f[a + n] # g[a + n]}
  <1>1. ASSUME Bad # {} PROVE FALSE
    <2>1. PICK n \in Bad : \A m \in Bad : n <= m
      <3>1. Bad \subseteq Nat
        OBVIOUS
      <3> HIDE DEF Bad
      <3> QED
        BY <1>1, <3>1, SmallestNumber
    <2>2. n \in Nat /\ a + n <= b /\ f[a + n] # g[a + n] /\ n # 0
      <3>1. a + 0 = a
        OBVIOUS
      <3> QED
        BY <2>1, <3>1 DEF SameSteps
    <2>3. /\ n - 1 \in Nat /\ ~(n <= n - 1) /\ a + (n - 1) <= b
          /\ a + n \in (a + 1)..b /\ a + (n - 1) = (a + n) - 1
      BY <2>2
    <2>4. f[a + (n - 1)] = g[a + (n - 1)]
      BY <2>1, <2>3
    <2> QED
      BY <2>2, <2>3, <2>4 DEF SameSteps
  <1>2. ASSUME NEW k \in a..b PROVE f[k] = g[k]
    <2>1. k - a \in Nat /\ a + (k - a) = k /\ k <= b
      OBVIOUS
    <2>2. k - a \notin Bad
      BY <1>1
    <2> QED
      BY <2>1, <2>2
  <1> QED
    BY <1>2

-----------------------------------------------------------------------------
(* Terms that fade by a factor.                                              *)
LEMMA Factors ==
  ASSUME NEW a \in Int, NEW b \in Int, NEW c \in Int, NEW d \in Int
  PROVE  a * ((b * c) * d) = b * (a * (c * d))
<1>1. (b * c) * d = b * (c * d) /\ c * d \in Int
  BY Z3
<1>2. \A x \in Int : a * (b * x) = b * (a * x)
  BY Z3
<1>3. QED  BY <1>1, <1>2

(* What a sum of terms that fade by a factor becomes when one joins them.    *)
Fades(f, g, a, n, c) ==
  /\ a \in Int /\ n \in Int /\ a <= n + 1 /\ c \in Int
  /\ \A i \in a..n : f[i] \in Int /\ g[i] = c * f[i]
  /\ g[n + 1] \in Int

LEMMA FadedSum ==
  ASSUME NEW f, NEW g, NEW a, NEW n, NEW c, Fades(f, g, a, n, c)
  PROVE  /\ SumFunctionOnSet(f, a..n) \in Int
         /\ SumFunctionOnSet(g, a..(n + 1)) = c * SumFunctionOnSet(f, a..n) + g[n + 1]
<1>1. a \in Int /\ n \in Int /\ c \in Int /\ a <= n + 1
  BY DEF Fades
<1> DEFINE S == a..n
<1>2. IsFiniteSet(S) /\ a..(n + 1) = S \cup {n + 1} /\ n + 1 \notin S
  BY <1>1, FS_Interval
<1>3. \A i \in S : f[i] \in Int /\ g[i] = c * f[i]
  BY DEF Fades
<1> HIDE DEF S
<1>4. SumFunctionOnSet(g, S) = c * SumFunctionOnSet(f, S)
  BY <1>1, <1>2, <1>3, SumScaled
<1>5. \A i \in S \cup {n + 1} : g[i] \in Int
  <2>1. \A x \in Int : c * x \in Int
    BY <1>1
  <2>2. QED  BY <1>3, <2>1 DEF Fades
<1>6. SumFunctionOnSet(g, S \cup {n + 1}) = SumFunctionOnSet(g, S) + g[n + 1]
  BY <1>2, <1>5, SumAdd
<1>7. SumFunctionOnSet(f, S) \in Int
  BY <1>2, <1>3, SumInt
<1>8. QED  BY <1>2, <1>4, <1>6, <1>7 DEF S

-----------------------------------------------------------------------------
(* Powers: the recursion of Power has a solution.                            *)

IsPower(f, b, n) == f = [k \in 0..n |-> IF k = 0 THEN 1 ELSE b * f[k - 1]]

PowersTo(b, n) == CHOOSE f : IsPower(f, b, n)

LEMMA PowerSolution ==
  ASSUME NEW b \in Int, NEW n \in Nat
  PROVE  /\ Power(b, n) = PowersTo(b, n)[n]
         /\ PowersTo(b, n) \in [0..n -> Int]
         /\ PowersTo(b, n)[0] = 1
         /\ \A k \in 1..n : PowersTo(b, n)[k] = b * PowersTo(b, n)[k - 1]
<1> DEFINE step == [k \in 0..n |-> [x \in Int |-> b * x]]
<1>1. step \in [0..n -> [Int -> Int]] /\ 0 \in Int /\ n \in Int /\ 1 \in Int
  OBVIOUS
<1>2. \A k \in 0..n, x \in Int : step[k][x] = b * x
  OBVIOUS
<1> HIDE DEF step
<1>3. PICK f \in [0..n -> Int] : Solves(f, 0, n, 1, step)
  BY <1>1, RecursionExists
<1>4. ASSUME NEW k \in 0..n PROVE f[k] = IF k = 0 THEN 1 ELSE b * f[k - 1]
  <2>1. k # 0 => k - 1 \in 0..n
    OBVIOUS
  <2>2. QED  BY <1>2, <1>3, <2>1 DEF Solves
<1>5. IsPower(f, b, n)
  <2>1. f = [k \in 0..n |-> f[k]]
    BY <1>3
  <2>2. QED  BY <1>4, <2>1 DEF IsPower
<1>6. IsPower(PowersTo(b, n), b, n)
  BY <1>5 DEF PowersTo
<1> DEFINE g == PowersTo(b, n)
<1> HIDE DEF g
<1>7. g = [k \in 0..n |-> IF k = 0 THEN 1 ELSE b * g[k - 1]]
  BY <1>6 DEF IsPower, g
<1>8. /\ g[0] = 1 /\ f[0] = 1
      /\ \A k \in 1..n : g[k] = b * g[k - 1] /\ f[k] = b * f[k - 1]
  BY <1>4, <1>7
<1>9. \A k \in 0..n : g[k] = f[k]
  <2>1. SameSteps(g, f, 0, n)
    BY <1>8 DEF SameSteps
  <2>2. 0 \in Int /\ n \in Int
    OBVIOUS
  <2>3. QED  BY <2>1, <2>2, RecursionsAgree
<1>10. g \in [0..n -> Int]
  BY <1>3, <1>7, <1>9
<1>11. Power(b, n) = PowersTo(b, n)[n]
  BY DEF Power, PowersTo, IsPower
<1>12. QED  BY <1>8, <1>10, <1>11 DEF g

LEMMA PowerStep ==
  ASSUME NEW b \in Int, NEW n \in Nat
  PROVE  Power(b, 0) = 1 /\ Power(b, n) \in Int /\ Power(b, n + 1) = b * Power(b, n)
<1> DEFINE f == PowersTo(b, n)
           g == PowersTo(b, n + 1)
<1>1. n + 1 \in Nat /\ n \in 0..n /\ n + 1 \in 1..(n + 1) /\ (n + 1) - 1 = n
  OBVIOUS
<1>2. /\ Power(b, n) = f[n] /\ f \in [0..n -> Int] /\ f[0] = 1
      /\ \A k \in 1..n : f[k] = b * f[k - 1]
  BY PowerSolution
<1>3. /\ Power(b, n + 1) = g[n + 1] /\ g[0] = 1
      /\ \A k \in 1..(n + 1) : g[k] = b * g[k - 1]
  BY <1>1, PowerSolution
<1>4. Power(b, 0) = 1
  BY PowerSolution
<1> HIDE DEF f, g
<1>5. \A k \in 0..n : f[k] = g[k]
  <2>1. SameSteps(f, g, 0, n)
    BY <1>2, <1>3 DEF SameSteps
  <2>2. 0 \in Int /\ n \in Int
    OBVIOUS
  <2>3. QED  BY <2>1, <2>2, RecursionsAgree
<1>6. g[n + 1] = b * g[n]
  BY <1>1, <1>3
<1>7. QED  BY <1>1, <1>2, <1>3, <1>4, <1>5, <1>6

LEMMA ProductPositive == ASSUME NEW a \in Int, NEW b \in Int, a > 0, b > 0 PROVE a * b > 0
  BY Z3

LEMMA PowerPositive ==
  ASSUME NEW b \in Nat \ {0}, NEW n \in Nat PROVE Power(b, n) \in Nat \ {0}
<1> DEFINE Bad == {k \in Nat : ~(Power(b, k) > 0)}
<1>1. ASSUME Bad # {} PROVE FALSE
  <2>1. PICK k \in Bad : \A m \in Bad : k <= m
    <3>1. Bad \subseteq Nat
      OBVIOUS
    <3> HIDE DEF Bad
    <3>2. QED  BY <1>1, <3>1, SmallestNumber
  <2>2. k \in Nat /\ ~(Power(b, k) > 0)
    BY <2>1
  <2>3. k # 0
    BY <2>2, PowerStep
  <2>4. k - 1 \in Nat /\ ~(k <= k - 1) /\ (k - 1) + 1 = k
    BY <2>2, <2>3
  <2>5. Power(b, k - 1) > 0
    BY <2>1, <2>4
  <2>6. Power(b, (k - 1) + 1) = b * Power(b, k - 1) /\ Power(b, k - 1) \in Int
    <3>1. PICK m \in Nat : m = k - 1
      BY <2>4
    <3>2. b \in Int
      OBVIOUS
    <3>3. Power(b, m + 1) = b * Power(b, m) /\ Power(b, m) \in Int
      BY <3>2, PowerStep, Zenon
    <3>4. QED  BY <3>1, <3>3
  <2>7. Power(b, k) > 0
    BY <2>4, <2>5, <2>6, ProductPositive
  <2>8. QED  BY <2>2, <2>7
<1>2. n \notin Bad
  BY <1>1
<1>3. Power(b, n) \in Int
  BY PowerStep
<1>4. QED  BY <1>2, <1>3

LEMMA PowerInt == ASSUME NEW b \in Int, NEW n \in Nat PROVE Power(b, n) \in Int
  BY PowerStep

LEMMA PowerNext ==
  ASSUME NEW b \in Int, NEW n \in Int, NEW m \in Int, m >= 0, n = m + 1
  PROVE  Power(b, n) = b * Power(b, m)
<1>1. PICK k \in Nat : k = m
  OBVIOUS
<1>2. Power(b, k + 1) = b * Power(b, k)
  BY PowerStep
<1>3. QED  BY <1>1, <1>2

LEMMA ProductTypes ==
  ASSUME NEW a \in Nat \ {0}, NEW b \in Nat \ {0}, NEW c \in Int, NEW d \in Int
  PROVE  a * b \in Nat \ {0} /\ c * d \in Int
<1>1. a * b > 0 /\ a * b \in Int
  BY ProductPositive
<1>2. QED  BY <1>1

LEMMA PowerAdd ==
  ASSUME NEW b \in Int, NEW m \in Nat, NEW n \in Nat
  PROVE  Power(b, m + n) = Power(b, m) * Power(b, n)
<1> DEFINE S == {k \in Nat : Power(b, m + k) = Power(b, m) * Power(b, k)}
<1>1. 0 \in S
  <2>1. Power(b, 0) = 1 /\ Power(b, m) \in Int
    BY PowerStep
  <2>2. m + 0 = m /\ \A x \in Int : x * 1 = x
    OBVIOUS
  <2>3. QED  BY <2>1, <2>2
<1>2. ASSUME NEW k \in Nat, k \in S PROVE k + 1 \in S
  <2>1. Power(b, k + 1) = b * Power(b, k) /\ Power(b, k) \in Int /\ Power(b, m) \in Int
    BY PowerStep
  <2>2. Power(b, (m + k) + 1) = b * Power(b, m + k)
    BY PowerStep
  <2>3. m + (k + 1) = (m + k) + 1
    OBVIOUS
  <2>4. \A x, y \in Int : b * (x * y) = x * (b * y)
    BY Z3
  <2>5. QED  BY <1>2, <2>1, <2>2, <2>3, <2>4
<1>3. Nat \subseteq S
  <2> HIDE DEF S
  <2>1. QED  BY <1>1, <1>2, InductiveSet
<1>4. QED  BY <1>3

LEMMA PowerExceeds ==
  ASSUME NEW b \in Nat, b > 1, NEW n \in Nat PROVE n < Power(b, n)
<1> DEFINE S == {k \in Nat : k < Power(b, k)}
<1>1. 0 \in S
  BY PowerStep
<1>2. ASSUME NEW k \in Nat, k \in S PROVE k + 1 \in S
  <2>1. Power(b, k + 1) = b * Power(b, k) /\ Power(b, k) \in Int
    BY PowerStep
  <2>2. \A x \in Nat : b * x >= 2 * x
    BY Z3
  <2>3. Power(b, k) >= k + 1
    BY <1>2, <2>1
  <2>4. QED  BY <2>1, <2>2, <2>3
<1>3. Nat \subseteq S
  <2> HIDE DEF S
  <2>1. QED  BY <1>1, <1>2, InductiveSet
<1>4. QED  BY <1>3
=============================================================================
