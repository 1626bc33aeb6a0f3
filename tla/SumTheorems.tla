----------------------------- MODULE SumTheorems -----------------------------
(***************************************************************************)
(* Facts about SumFunctionOnSet(f, S), the sum of f[x] for x in S, for     *)
(* the ledgers and stocks of the other modules.  The sum is a fold, so it  *)
(* is defined by recursion over the subsets of S; here the recursion is    *)
(* shown to have a solution, and the sum not to depend on the order.       *)
(***************************************************************************)
EXTENDS Integers, FiniteSets, Functions, FiniteSetTheorems, WellFoundedInduction, TLAPS

Pick(s) == CHOOSE x \in s : TRUE

\* g adds up f along the elements that Pick takes, on every subset of S.
Adds(g, f, S) ==
  g = [s \in SUBSET S |-> IF s = {} THEN 0 ELSE f[Pick(s)] + g[s \ {Pick(s)}]]

Adder(f, S) == CHOOSE g : Adds(g, f, S)

\* Pick takes an element.
LEMMA PickIsElement == ASSUME NEW s, s # {} PROVE Pick(s) \in s
BY DEF Pick

\* A set of subsets of a finite set has a smallest member.
LEMMA MinimalSubset ==
  ASSUME NEW S, IsFiniteSet(S), NEW B, B \subseteq SUBSET S, B # {}
  PROVE  \E T \in B : \A U \in B : U \subseteq T => U = T
<1>1. IsWellFoundedOn(StrictSubsetOrdering(S), SUBSET S)
  BY FS_StrictSubsetOrderingWellFounded, FS_FiniteSubsetsOfFinite
<1>2. \E T \in B : \A U \in B : ~ (<<U, T>> \in StrictSubsetOrdering(S))
  BY <1>1, WFMin
<1>3. PICK T \in B : \A U \in B : ~ (<<U, T>> \in StrictSubsetOrdering(S))
  BY <1>2
<1>4. ASSUME NEW U \in B, U \subseteq T PROVE U = T
  <2>1. U \in SUBSET S /\ T \in SUBSET S
    OBVIOUS
  <2>2. U # T => <<U, T>> \in StrictSubsetOrdering(S)
    BY <2>1, <1>4 DEF StrictSubsetOrdering
  <2>3. QED BY <2>2, <1>3
<1>5. QED BY <1>4

\* The library's sum is the value of the solution at S.
LEMMA SumIsAdder ==
  ASSUME NEW f, NEW S
  PROVE  SumFunctionOnSet(f, S) = Adder(f, S)[S]
BY DEF SumFunctionOnSet, FoldFunctionOnSet, MapThenFoldSet, Adder, Adds, Pick

\* Two solutions agree wherever both are defined.
LEMMA AdderUnique ==
  ASSUME NEW f, NEW S, NEW T, NEW g, NEW h, Adds(g, f, S), Adds(h, f, T),
         NEW V, V \subseteq S, V \subseteq T, IsFiniteSet(V)
  PROVE  g[V] = h[V]
<1> DEFINE B == {U \in SUBSET V : g[U] # h[U]}
<1>1. SUFFICES ASSUME V \in B PROVE FALSE
  OBVIOUS
<1>2. PICK U \in B : \A W \in B : W \subseteq U => W = U
  <2>1. B \subseteq SUBSET V /\ B # {}
    BY <1>1
  <2> HIDE DEF B
  <2>2. QED BY <2>1, MinimalSubset
<1>3. U \in SUBSET S /\ U \in SUBSET T /\ g[U] # h[U]
  OBVIOUS
<1>4. /\ g[U] = IF U = {} THEN 0 ELSE f[Pick(U)] + g[U \ {Pick(U)}]
      /\ h[U] = IF U = {} THEN 0 ELSE f[Pick(U)] + h[U \ {Pick(U)}]
  BY <1>3 DEF Adds
<1>5. U # {}
  BY <1>3, <1>4
<1>6. U \ {Pick(U)} # U /\ U \ {Pick(U)} \in SUBSET V
  BY <1>5, PickIsElement
<1>7. U \ {Pick(U)} \notin B
  BY <1>2, <1>6
<1>8. g[U \ {Pick(U)}] = h[U \ {Pick(U)}]
  BY <1>6, <1>7
<1>9. QED BY <1>3, <1>4, <1>8

\* The recursion has a solution on the subsets of every finite set.
LEMMA AdderExists ==
  ASSUME NEW f, NEW S, IsFiniteSet(S)
  PROVE  Adds(Adder(f, S), f, S)
<1> DEFINE B == {U \in SUBSET S : ~ Adds(Adder(f, U), f, U)}
<1>1. SUFFICES ASSUME S \in B PROVE FALSE
  OBVIOUS
<1>2. PICK T \in B : \A W \in B : W \subseteq T => W = T
  <2>1. B \subseteq SUBSET S /\ B # {}
    BY <1>1
  <2> HIDE DEF B
  <2>2. QED BY <2>1, MinimalSubset
<1>3. T \in SUBSET S /\ ~ Adds(Adder(f, T), f, T)
  OBVIOUS
<1>4. ASSUME NEW U, U \subseteq T, U # T PROVE Adds(Adder(f, U), f, U) /\ IsFiniteSet(U)
  <2>1. U \in SUBSET S
    BY <1>3, <1>4
  <2>2. U \notin B
    BY <1>2, <1>4
  <2>3. QED BY <2>1, <2>2, FS_Subset
<1> DEFINE rest(s) == s \ {Pick(s)}
           g == [s \in SUBSET T |-> IF s = {} THEN 0 ELSE f[Pick(s)] + Adder(f, rest(s))[rest(s)]]
<1>5. ASSUME NEW s \in SUBSET T, s # {}, rest(s) # {}
      PROVE  Adder(f, rest(s))[rest(s)] = f[Pick(rest(s))] + Adder(f, rest(rest(s)))[rest(rest(s))]
  <2>1. rest(s) \subseteq T /\ rest(s) # T /\ rest(rest(s)) \subseteq T /\ rest(rest(s)) # T
        /\ rest(rest(s)) \subseteq rest(s)
    BY <1>5, PickIsElement
  <2>2. Adds(Adder(f, rest(s)), f, rest(s)) /\ Adds(Adder(f, rest(rest(s))), f, rest(rest(s)))
        /\ IsFiniteSet(rest(rest(s)))
    BY <2>1, <1>4
  <2>3. Adder(f, rest(s))[rest(s)] = f[Pick(rest(s))] + Adder(f, rest(s))[rest(rest(s))]
    <3> DEFINE R == rest(s)
               a == Adder(f, rest(s))
    <3>1. Adds(a, f, R) /\ R # {}
      BY <2>2, <1>5
    <3> HIDE DEF R, a
    <3>2. a[R] = f[Pick(R)] + a[R \ {Pick(R)}]
      BY <3>1 DEF Adds
    <3>3. QED BY <3>2 DEF R, a
  <2>4. Adder(f, rest(s))[rest(rest(s))] = Adder(f, rest(rest(s)))[rest(rest(s))]
    <3> HIDE DEF rest
    <3>1. QED BY <2>1, <2>2, AdderUnique
  <2>5. QED BY <2>3, <2>4
<1>6. ASSUME NEW s \in SUBSET T, s # {}, rest(s) = {}
      PROVE  Adder(f, rest(s))[rest(s)] = 0
  <2>1. {} \subseteq T /\ {} # T
    BY <1>6
  <2>2. Adds(Adder(f, {}), f, {})
    BY <2>1, <1>4
  <2> DEFINE a == Adder(f, {})
  <2>3. Adds(a, f, {})
    BY <2>2
  <2> HIDE DEF a
  <2>4. a[{}] = 0
    BY <2>3 DEF Adds
  <2>5. QED BY <2>4, <1>6 DEF a
<1>7. ASSUME NEW s \in SUBSET T, s # {}
      PROVE  g[rest(s)] = Adder(f, rest(s))[rest(s)]
  <2>1. rest(s) \in SUBSET T
    OBVIOUS
  <2>2. CASE rest(s) = {}
    BY <2>1, <2>2, <1>6, <1>7
  <2>3. CASE rest(s) # {}
    BY <2>1, <2>3, <1>5, <1>7
  <2>4. QED BY <2>2, <2>3
<1>8. Adds(g, f, T)
  <2>1. \A s \in SUBSET T : s # {} => g[rest(s)] = Adder(f, rest(s))[rest(s)]
    BY <1>7
  <2>2. g = [s \in SUBSET T |-> IF s = {} THEN 0 ELSE f[Pick(s)] + g[s \ {Pick(s)}]]
    BY <2>1
  <2>3. QED BY <2>2 DEF Adds
<1>9. Adds(Adder(f, T), f, T)
  BY <1>8 DEF Adder
<1>10. QED BY <1>3, <1>9

------------------------------------------------------------------------------
\* The sum over the empty set is zero.
LEMMA SumEmpty == ASSUME NEW f PROVE SumFunctionOnSet(f, {}) = 0
<1>1. Adds(Adder(f, {}), f, {})
  BY FS_EmptySet, AdderExists
<1> DEFINE a == Adder(f, {})
<1>2. Adds(a, f, {})
  BY <1>1
<1> HIDE DEF a
<1>3. a[{}] = 0
  BY <1>2 DEF Adds
<1>4. QED BY <1>3, SumIsAdder DEF a

\* The sum is the picked value and the sum of the rest.
LEMMA SumPick ==
  ASSUME NEW f, NEW S, IsFiniteSet(S), S # {}
  PROVE  SumFunctionOnSet(f, S) = f[Pick(S)] + SumFunctionOnSet(f, S \ {Pick(S)})
<1> DEFINE R == S \ {Pick(S)}
           a == Adder(f, S)
           b == Adder(f, R)
<1>1. IsFiniteSet(R)
  BY FS_RemoveElement
<1>2. Adds(a, f, S) /\ Adds(b, f, R)
  <2> HIDE DEF R
  <2>1. QED BY <1>1, AdderExists
<1>3. R \subseteq S
  OBVIOUS
<1>4. a[S] = f[Pick(S)] + a[R]
  <2> HIDE DEF a
  <2>1. QED BY <1>2 DEF Adds
<1>5. a[R] = b[R]
  <2> HIDE DEF a, b, R
  <2>1. QED BY <1>1, <1>2, <1>3, AdderUnique
<1>6. SumFunctionOnSet(f, S) = a[S] /\ SumFunctionOnSet(f, R) = b[R]
  BY SumIsAdder
<1>7. QED BY <1>4, <1>5, <1>6

\* A sum of integers is an integer.
LEMMA SumIsInt ==
  ASSUME NEW S, IsFiniteSet(S), NEW f, \A y \in S : f[y] \in Int
  PROVE  SumFunctionOnSet(f, S) \in Int
<1> DEFINE B == {U \in SUBSET S : SumFunctionOnSet(f, U) \notin Int}
<1>1. SUFFICES ASSUME S \in B PROVE FALSE
  OBVIOUS
<1>2. PICK T \in B : \A W \in B : W \subseteq T => W = T
  <2>1. B \subseteq SUBSET S /\ B # {}
    BY <1>1
  <2> HIDE DEF B
  <2>2. QED BY <2>1, MinimalSubset
<1>3. T \in SUBSET S /\ SumFunctionOnSet(f, T) \notin Int /\ IsFiniteSet(T)
  BY FS_Subset
<1>4. T # {}
  BY <1>3, SumEmpty
<1>5. Pick(T) \in T /\ T \ {Pick(T)} \in SUBSET S /\ T \ {Pick(T)} # T
  BY <1>3, <1>4, PickIsElement
<1>6. SumFunctionOnSet(f, T \ {Pick(T)}) \in Int
  BY <1>2, <1>5
<1>7. SumFunctionOnSet(f, T) = f[Pick(T)] + SumFunctionOnSet(f, T \ {Pick(T)})
  BY <1>3, <1>4, SumPick
<1>8. QED BY <1>3, <1>5, <1>6, <1>7

\* A sum of naturals is a natural.
LEMMA SumIsNat ==
  ASSUME NEW S, IsFiniteSet(S), NEW f, \A y \in S : f[y] \in Nat
  PROVE  SumFunctionOnSet(f, S) \in Nat
<1> DEFINE B == {U \in SUBSET S : SumFunctionOnSet(f, U) \notin Nat}
<1>1. SUFFICES ASSUME S \in B PROVE FALSE
  OBVIOUS
<1>2. PICK T \in B : \A W \in B : W \subseteq T => W = T
  <2>1. B \subseteq SUBSET S /\ B # {}
    BY <1>1
  <2> HIDE DEF B
  <2>2. QED BY <2>1, MinimalSubset
<1>3. T \in SUBSET S /\ SumFunctionOnSet(f, T) \notin Nat /\ IsFiniteSet(T)
  BY FS_Subset
<1>4. T # {}
  BY <1>3, SumEmpty
<1>5. Pick(T) \in T /\ T \ {Pick(T)} \in SUBSET S /\ T \ {Pick(T)} # T
  BY <1>3, <1>4, PickIsElement
<1>6. SumFunctionOnSet(f, T \ {Pick(T)}) \in Nat
  BY <1>2, <1>5
<1>7. SumFunctionOnSet(f, T) = f[Pick(T)] + SumFunctionOnSet(f, T \ {Pick(T)})
  BY <1>3, <1>4, SumPick
<1>8. QED BY <1>3, <1>5, <1>6, <1>7

\* The sum depends on the values of f on S only.
LEMMA SumAgrees ==
  ASSUME NEW S, IsFiniteSet(S), NEW f, NEW g, \A y \in S : f[y] = g[y]
  PROVE  SumFunctionOnSet(f, S) = SumFunctionOnSet(g, S)
<1> DEFINE B == {U \in SUBSET S : SumFunctionOnSet(f, U) # SumFunctionOnSet(g, U)}
<1>1. SUFFICES ASSUME S \in B PROVE FALSE
  OBVIOUS
<1>2. PICK T \in B : \A W \in B : W \subseteq T => W = T
  <2>1. B \subseteq SUBSET S /\ B # {}
    BY <1>1
  <2> HIDE DEF B
  <2>2. QED BY <2>1, MinimalSubset
<1>3. T \in SUBSET S /\ SumFunctionOnSet(f, T) # SumFunctionOnSet(g, T) /\ IsFiniteSet(T)
  BY FS_Subset
<1>4. T # {}
  BY <1>3, SumEmpty
<1>5. Pick(T) \in T /\ T \ {Pick(T)} \in SUBSET S /\ T \ {Pick(T)} # T
  BY <1>3, <1>4, PickIsElement
<1>6. SumFunctionOnSet(f, T \ {Pick(T)}) = SumFunctionOnSet(g, T \ {Pick(T)})
  BY <1>2, <1>5
<1>7. /\ SumFunctionOnSet(f, T) = f[Pick(T)] + SumFunctionOnSet(f, T \ {Pick(T)})
      /\ SumFunctionOnSet(g, T) = g[Pick(T)] + SumFunctionOnSet(g, T \ {Pick(T)})
  BY <1>3, <1>4, SumPick
<1>8. QED BY <1>3, <1>5, <1>6, <1>7

\* Any element may be taken first.
LEMMA SumRemove ==
  ASSUME NEW S, IsFiniteSet(S), NEW f, \A y \in S : f[y] \in Int, NEW x \in S
  PROVE  SumFunctionOnSet(f, S) = f[x] + SumFunctionOnSet(f, S \ {x})
<1> DEFINE sum(U) == SumFunctionOnSet(f, U)
           B == {U \in SUBSET S : \E y \in U : sum(U) # f[y] + sum(U \ {y})}
<1>1. SUFFICES ASSUME S \in B PROVE FALSE
  OBVIOUS
<1>2. PICK T \in B : \A W \in B : W \subseteq T => W = T
  <2>1. B \subseteq SUBSET S /\ B # {}
    BY <1>1
  <2> HIDE DEF B
  <2>2. QED BY <2>1, MinimalSubset
<1>3. PICK q \in T : sum(T) # f[q] + sum(T \ {q})
  OBVIOUS
<1>4. T \in SUBSET S /\ IsFiniteSet(T)
  BY FS_Subset
<1> DEFINE p == Pick(T)
<1>5. p \in T /\ sum(T) = f[p] + sum(T \ {p})
  BY <1>4, SumPick, PickIsElement
<1>6. p # q
  BY <1>3, <1>5
<1>7. ASSUME NEW U, U \subseteq T, U # T, NEW y \in U
      PROVE  sum(U) = f[y] + sum(U \ {y})
  BY <1>2, <1>4, <1>7
<1>8. sum(T \ {p}) = f[q] + sum((T \ {p}) \ {q})
  BY <1>5, <1>6, <1>7
<1>9. sum(T \ {q}) = f[p] + sum((T \ {q}) \ {p})
  BY <1>5, <1>6, <1>7
<1>10. sum((T \ {p}) \ {q}) = sum((T \ {q}) \ {p})
  <2>1. (T \ {p}) \ {q} = (T \ {q}) \ {p}
    OBVIOUS
  <2> HIDE DEF sum, p
  <2>2. QED BY <2>1, Zenon
<1>11. sum((T \ {p}) \ {q}) \in Int
  <2>1. (T \ {p}) \ {q} \in SUBSET S
    BY <1>4
  <2>2. QED BY <2>1, FS_Subset, SumIsInt
<1>12. f[p] \in Int /\ f[q] \in Int
  BY <1>4, <1>5
<1> HIDE DEF p, sum
<1>13. QED BY <1>3, <1>5, <1>8, <1>9, <1>10, <1>11, <1>12

\* Sums of functions that agree on S, up to one element.
LEMMA SumDiffersAt ==
  ASSUME NEW S, IsFiniteSet(S), NEW f, NEW g, NEW x \in S,
         \A y \in S : f[y] \in Int /\ g[y] \in Int,
         \A y \in S \ {x} : f[y] = g[y]
  PROVE  SumFunctionOnSet(g, S) = SumFunctionOnSet(f, S) - f[x] + g[x]
<1>1. IsFiniteSet(S \ {x}) /\ \A y \in S \ {x} : f[y] \in Int
  BY FS_RemoveElement
<1>2. SumFunctionOnSet(g, S \ {x}) = SumFunctionOnSet(f, S \ {x})
  BY <1>1, SumAgrees
<1>3. SumFunctionOnSet(f, S \ {x}) \in Int
  BY <1>1, SumIsInt
<1>4. /\ SumFunctionOnSet(f, S) = f[x] + SumFunctionOnSet(f, S \ {x})
      /\ SumFunctionOnSet(g, S) = g[x] + SumFunctionOnSet(g, S \ {x})
  BY SumRemove
<1>5. QED BY <1>2, <1>3, <1>4

\* A new element adds its value.
LEMMA SumInsert ==
  ASSUME NEW S, IsFiniteSet(S), NEW x, x \notin S,
         NEW f, \A y \in S \cup {x} : f[y] \in Int
  PROVE  SumFunctionOnSet(f, S \cup {x}) = f[x] + SumFunctionOnSet(f, S)
<1>1. IsFiniteSet(S \cup {x})
  BY FS_AddElement
<1>2. (S \cup {x}) \ {x} = S
  OBVIOUS
<1>3. SumFunctionOnSet(f, S \cup {x}) = f[x] + SumFunctionOnSet(f, (S \cup {x}) \ {x})
  BY <1>1, SumRemove
<1>4. QED BY <1>2, <1>3

------------------------------------------------------------------------------
\* The same facts for SumFunction, the sum over a function's whole domain.

\* A sum of integers is an integer.
LEMMA SumFunctionIsInt ==
  ASSUME NEW S, IsFiniteSet(S), NEW f \in [S -> Int]
  PROVE  SumFunction(f) \in Int
BY SumIsInt DEF SumFunction

\* A sum of naturals is a natural.
LEMMA SumFunctionIsNat ==
  ASSUME NEW S, IsFiniteSet(S), NEW f \in [S -> Nat]
  PROVE  SumFunction(f) \in Nat
BY SumIsNat DEF SumFunction

\* Sums of functions that agree up to one element.
LEMMA SumFunctionDiffersAt ==
  ASSUME NEW S, IsFiniteSet(S), NEW f \in [S -> Int], NEW g \in [S -> Int], NEW x \in S,
         \A y \in S \ {x} : f[y] = g[y]
  PROVE  SumFunction(g) = SumFunction(f) - f[x] + g[x]
BY SumDiffersAt DEF SumFunction

\* A sum of zeros is zero.
LEMMA SumFunctionZero ==
  ASSUME NEW S, IsFiniteSet(S), NEW f \in [S -> Int], \A y \in S : f[y] = 0
  PROVE  SumFunction(f) = 0
<1> DEFINE B == {U \in SUBSET S : SumFunctionOnSet(f, U) # 0}
<1>1. SUFFICES ASSUME S \in B PROVE FALSE
  BY DEF SumFunction
<1>2. PICK T \in B : \A W \in B : W \subseteq T => W = T
  <2>1. B \subseteq SUBSET S /\ B # {}
    BY <1>1
  <2> HIDE DEF B
  <2>2. QED BY <2>1, MinimalSubset
<1>3. T \in SUBSET S /\ SumFunctionOnSet(f, T) # 0 /\ IsFiniteSet(T)
  BY FS_Subset
<1>4. T # {}
  BY <1>3, SumEmpty
<1>5. Pick(T) \in T /\ T \ {Pick(T)} \in SUBSET S /\ T \ {Pick(T)} # T
  BY <1>3, <1>4, PickIsElement
<1>6. SumFunctionOnSet(f, T \ {Pick(T)}) = 0
  BY <1>2, <1>5
<1>7. SumFunctionOnSet(f, T) = f[Pick(T)] + SumFunctionOnSet(f, T \ {Pick(T)})
  BY <1>3, <1>4, SumPick
<1>8. QED BY <1>3, <1>5, <1>6, <1>7

\* A sum of values of at most q is at most q times their number.
LEMMA SumBounded ==
  ASSUME NEW S, IsFiniteSet(S), NEW q \in Nat, NEW f, \A y \in S : f[y] \in 0..q
  PROVE  SumFunctionOnSet(f, S) <= q * Cardinality(S)
<1> DEFINE B == {U \in SUBSET S : ~ (SumFunctionOnSet(f, U) <= q * Cardinality(U))}
<1>1. SUFFICES ASSUME S \in B PROVE FALSE
  OBVIOUS
<1>2. PICK T \in B : \A W \in B : W \subseteq T => W = T
  <2>1. B \subseteq SUBSET S /\ B # {}
    BY <1>1
  <2> HIDE DEF B
  <2>2. QED BY <2>1, MinimalSubset
<1>3. T \in SUBSET S /\ ~ (SumFunctionOnSet(f, T) <= q * Cardinality(T)) /\ IsFiniteSet(T)
  BY FS_Subset
<1>4. T # {}
  <2>1. q * 0 = 0
    OBVIOUS
  <2>2. QED BY <1>3, <2>1, SumEmpty, FS_EmptySet
<1> DEFINE R == T \ {Pick(T)}
<1>5. Pick(T) \in T /\ R \in SUBSET S /\ R # T
  BY <1>3, <1>4, PickIsElement
<1>6. SumFunctionOnSet(f, R) <= q * Cardinality(R)
  BY <1>2, <1>5
<1>7. SumFunctionOnSet(f, T) = f[Pick(T)] + SumFunctionOnSet(f, R)
  BY <1>3, <1>4, SumPick
<1>8. Cardinality(T) \in Nat /\ Cardinality(R) = Cardinality(T) - 1 /\ IsFiniteSet(R)
  BY <1>3, <1>5, FS_RemoveElement, FS_CardinalityType
<1>9. SumFunctionOnSet(f, R) \in Int
  <2>1. \A y \in R : f[y] \in Int
    BY <1>5
  <2> HIDE DEF R
  <2>2. QED BY <1>8, <2>1, SumIsInt
<1>10. f[Pick(T)] \in 0..q
  BY <1>3, <1>5
<1>11. q * Cardinality(T) = q + q * (Cardinality(T) - 1)
  BY <1>8, SMT
<1>12. q * Cardinality(T) \in Int /\ q * (Cardinality(T) - 1) \in Int
  BY <1>8
<1>13. QED
  <2> DEFINE a == SumFunctionOnSet(f, R)
             b == q * Cardinality(T)
             d == q * (Cardinality(T) - 1)
             v == f[Pick(T)]
  <2>1. a \in Int /\ b \in Int /\ d \in Int /\ v \in 0..q /\ b = q + d /\ a <= d /\ ~(v + a <= b)
    BY <1>3, <1>6, <1>7, <1>8, <1>9, <1>10, <1>11, <1>12
  <2> HIDE DEF a, b, d, v
  <2>2. QED BY <2>1

\* The sum of a pointwise sum is the sum of the sums.
LEMMA SumOfSums ==
  ASSUME NEW S, IsFiniteSet(S), NEW f, NEW g, NEW h,
         \A y \in S : f[y] \in Int /\ g[y] \in Int /\ h[y] = f[y] + g[y]
  PROVE  SumFunctionOnSet(h, S) = SumFunctionOnSet(f, S) + SumFunctionOnSet(g, S)
<1> DEFINE B == {U \in SUBSET S :
                   SumFunctionOnSet(h, U) # SumFunctionOnSet(f, U) + SumFunctionOnSet(g, U)}
<1>1. SUFFICES ASSUME S \in B PROVE FALSE
  OBVIOUS
<1>2. PICK T \in B : \A W \in B : W \subseteq T => W = T
  <2>1. B \subseteq SUBSET S /\ B # {}
    BY <1>1
  <2> HIDE DEF B
  <2>2. QED BY <2>1, MinimalSubset
<1>3. /\ T \in SUBSET S /\ IsFiniteSet(T)
      /\ SumFunctionOnSet(h, T) # SumFunctionOnSet(f, T) + SumFunctionOnSet(g, T)
  BY FS_Subset
<1>4. T # {}
  BY <1>3, SumEmpty
<1> DEFINE R == T \ {Pick(T)}
<1>5. Pick(T) \in T /\ R \in SUBSET S /\ R # T
  BY <1>3, <1>4, PickIsElement
<1>6. SumFunctionOnSet(h, R) = SumFunctionOnSet(f, R) + SumFunctionOnSet(g, R)
  BY <1>2, <1>5
<1>7. /\ SumFunctionOnSet(f, T) = f[Pick(T)] + SumFunctionOnSet(f, R)
      /\ SumFunctionOnSet(g, T) = g[Pick(T)] + SumFunctionOnSet(g, R)
      /\ SumFunctionOnSet(h, T) = h[Pick(T)] + SumFunctionOnSet(h, R)
  BY <1>3, <1>4, SumPick
<1>8. SumFunctionOnSet(f, R) \in Int /\ SumFunctionOnSet(g, R) \in Int
  <2>1. IsFiniteSet(R) /\ \A y \in R : f[y] \in Int /\ g[y] \in Int
    BY <1>3, <1>5, FS_Subset
  <2> HIDE DEF R
  <2>2. QED BY <2>1, SumIsInt
<1>9. f[Pick(T)] \in Int /\ g[Pick(T)] \in Int /\ h[Pick(T)] = f[Pick(T)] + g[Pick(T)]
  BY <1>3, <1>5
<1>10. QED
  <2> HIDE DEF R
  <2>1. QED BY <1>3, <1>6, <1>7, <1>8, <1>9

\* A sum of values no greater is no greater.
LEMMA SumMonotone ==
  ASSUME NEW S, IsFiniteSet(S), NEW f, NEW g,
         \A y \in S : f[y] \in Int /\ g[y] \in Int /\ f[y] <= g[y]
  PROVE  SumFunctionOnSet(f, S) <= SumFunctionOnSet(g, S)
<1> DEFINE d == [y \in S |-> g[y] - f[y]]
<1>1. \A y \in S : d[y] \in Nat /\ d[y] \in Int /\ f[y] \in Int /\ g[y] = d[y] + f[y]
  OBVIOUS
<1> HIDE DEF d
<1>2. SumFunctionOnSet(g, S) = SumFunctionOnSet(d, S) + SumFunctionOnSet(f, S)
  BY <1>1, SumOfSums
<1>3. SumFunctionOnSet(d, S) \in Nat /\ SumFunctionOnSet(f, S) \in Int
  BY <1>1, SumIsNat, SumIsInt
<1>4. QED BY <1>2, <1>3

\* A sum of one and the same value is that value times the number of terms.
LEMMA SumConstant ==
  ASSUME NEW S, IsFiniteSet(S), NEW q \in Int, NEW f, \A y \in S : f[y] = q
  PROVE  SumFunctionOnSet(f, S) = q * Cardinality(S)
<1> DEFINE B == {U \in SUBSET S : SumFunctionOnSet(f, U) # q * Cardinality(U)}
<1>1. SUFFICES ASSUME S \in B PROVE FALSE
  OBVIOUS
<1>2. PICK T \in B : \A W \in B : W \subseteq T => W = T
  <2>1. B \subseteq SUBSET S /\ B # {}
    BY <1>1
  <2> HIDE DEF B
  <2>2. QED BY <2>1, MinimalSubset
<1>3. T \in SUBSET S /\ SumFunctionOnSet(f, T) # q * Cardinality(T) /\ IsFiniteSet(T)
  BY FS_Subset
<1>4. T # {}
  <2>1. q * 0 = 0
    OBVIOUS
  <2>2. QED BY <1>3, <2>1, SumEmpty, FS_EmptySet
<1> DEFINE R == T \ {Pick(T)}
<1>5. Pick(T) \in T /\ R \in SUBSET S /\ R # T
  BY <1>3, <1>4, PickIsElement
<1>6. SumFunctionOnSet(f, R) = q * Cardinality(R)
  BY <1>2, <1>5
<1>7. SumFunctionOnSet(f, T) = q + SumFunctionOnSet(f, R)
  BY <1>3, <1>4, <1>5, SumPick
<1>8. Cardinality(T) \in Nat /\ Cardinality(R) = Cardinality(T) - 1
  BY <1>3, <1>5, FS_RemoveElement, FS_CardinalityType
<1>9. q * Cardinality(T) = q + q * (Cardinality(T) - 1)
  BY <1>8, SMT
<1>10. QED BY <1>3, <1>6, <1>7, <1>8, <1>9

------------------------------------------------------------------------------
\* A finite set of numbers that is not empty has a smallest one.
LEMMA SmallestExists ==
  ASSUME NEW S, IsFiniteSet(S), S # {}, \A x \in S : x \in Int
  PROVE  \E c \in S : \A d \in S : c <= d
<1> DEFINE below(c) == {d \in S : d < c}
           B == {below(c) : c \in S}
<1>1. B \subseteq SUBSET S /\ B # {}
  OBVIOUS
<1>2. PICK T \in B : \A U \in B : U \subseteq T => U = T
  <2> HIDE DEF B
  <2>1. QED BY <1>1, MinimalSubset
<1>3. PICK c \in S : T = below(c)
  OBVIOUS
<1>4. ASSUME NEW d \in S, ~(c <= d) PROVE FALSE
  <2>1. d < c /\ d \in T /\ d \notin below(d)
    BY <1>3, <1>4
  <2>2. ASSUME NEW e \in below(d) PROVE e \in T
    <3>1. e \in S /\ e < d /\ e \in Int /\ d \in Int /\ c \in Int
      OBVIOUS
    <3>2. e < c
      BY <2>1, <3>1
    <3>3. QED BY <1>3, <3>1, <3>2
  <2>3. QED BY <1>2, <2>1, <2>2
<1>5. QED BY <1>4

\* A finite set of numbers that is not empty has a largest one.
LEMMA LargestExists ==
  ASSUME NEW S, IsFiniteSet(S), S # {}, \A x \in S : x \in Int
  PROVE  \E c \in S : \A d \in S : d <= c
<1> DEFINE above(c) == {d \in S : d > c}
           B == {above(c) : c \in S}
<1>1. B \subseteq SUBSET S /\ B # {}
  OBVIOUS
<1>2. PICK T \in B : \A U \in B : U \subseteq T => U = T
  <2> HIDE DEF B
  <2>1. QED BY <1>1, MinimalSubset
<1>3. PICK c \in S : T = above(c)
  OBVIOUS
<1>4. ASSUME NEW d \in S, ~(d <= c) PROVE FALSE
  <2>1. d > c /\ d \in T /\ d \notin above(d)
    BY <1>3, <1>4
  <2>2. ASSUME NEW e \in above(d) PROVE e \in T
    <3>1. e \in S /\ e > d /\ e \in Int /\ d \in Int /\ c \in Int
      OBVIOUS
    <3>2. e > c
      BY <2>1, <3>1
    <3>3. QED BY <1>3, <3>1, <3>2
  <2>3. QED BY <1>2, <2>1, <2>2
<1>5. QED BY <1>4
==============================================================================
