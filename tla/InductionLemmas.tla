-------------------------- MODULE InductionLemmas --------------------------
(***************************************************************************)
(* Induction without operator parameters, for the proofs about loops and   *)
(* sums: the property to prove is a set of numbers, and a loop body a      *)
(* function.  With it, what Max, Min and SumFunctionOnSet of the community *)
(* modules compute.                                                        *)
(***************************************************************************)
EXTENDS Integers, FiniteSetsExt, Functions, FiniteSetTheorems, WellFoundedInduction, TLAPS

LEMMA NatSetInduction ==
    ASSUME NEW S, 0 \in S, \A n \in Nat : n \in S => n + 1 \in S
    PROVE  Nat \subseteq S
<1> DEFINE R == OpToRel(<, Nat)
           T == Nat \ S
<1>1. IsWellFoundedOn(R, Nat)
  BY NatLessThanWellFounded
<1>2. \A m, n \in Nat : m < n => <<m, n>> \in R
  BY DEF OpToRel
<1> HIDE DEF R
<1>3. SUFFICES ASSUME T # {} PROVE FALSE
  OBVIOUS
<1>4. PICK x \in T : \A y \in T : <<y, x>> \notin R
  BY <1>1, <1>3, WFMin
<1>5. x \in Nat /\ x - 1 \in Nat /\ x - 1 < x /\ (x - 1) + 1 = x
  BY <1>4
<1>6. x - 1 \in S
  BY <1>2, <1>4, <1>5
<1> QED
  BY <1>4, <1>5, <1>6

\* Up to a bound.
LEMMA RangeInduction ==
    ASSUME NEW n \in Nat, NEW S, 0 \in S, \A i \in 1 .. n : i - 1 \in S => i \in S
    PROVE  \A i \in 0 .. n : i \in S
<1> DEFINE T == {m \in Nat : m <= n => m \in S}
<1>1. 0 \in T
  OBVIOUS
<1>2. ASSUME NEW m \in Nat, m \in T PROVE m + 1 \in T
  <2> SUFFICES ASSUME m + 1 <= n PROVE m + 1 \in S
    OBVIOUS
  <2>1. m \in S /\ m + 1 \in 1 .. n /\ (m + 1) - 1 = m
    BY <1>2
  <2> QED
    BY <2>1
<1>3. Nat \subseteq T
  <2> HIDE DEF T
  <2> QED
    BY <1>1, <1>2, NatSetInduction
<1> QED
  BY <1>3

\* A loop of n rounds over values in V.
IsLoop(n, V, init, body) == n \in Nat /\ init \in V /\ body \in [1 .. n -> [V -> V]]
IsRun(n, V, init, body, f) ==
    f \in [0 .. n -> V] /\ f[0] = init /\ \A i \in 1 .. n : f[i] = body[i][f[i - 1]]

LEMMA LoopRuns ==
    ASSUME NEW n, NEW V, NEW init, NEW body, IsLoop(n, V, init, body)
    PROVE  \E f : IsRun(n, V, init, body, f)
<1> USE DEF IsLoop
<1> DEFINE Runs(m, f) == f[0] = init /\ \A i \in 1 .. m : f[i] = body[i][f[i - 1]]
           S == {m \in 0 .. n : \E f \in [0 .. m -> V] : Runs(m, f)}
<1>1. 0 \in S
  <2> DEFINE f == [i \in 0 .. 0 |-> init]
  <2>1. f \in [0 .. 0 -> V] /\ Runs(0, f)
    OBVIOUS
  <2>2. 0 \in 0 .. n
    OBVIOUS
  <2> HIDE DEF f, Runs
  <2> QED
    BY <2>1, <2>2
<1>2. ASSUME NEW m \in 1 .. n, m - 1 \in S PROVE m \in S
  <2>1. PICK f \in [0 .. m - 1 -> V] : Runs(m - 1, f)
    BY <1>2
  <2> DEFINE g == [i \in 0 .. m |-> IF i = m THEN body[m][f[m - 1]] ELSE f[i]]
  <2>2. f[m - 1] \in V /\ body[m][f[m - 1]] \in V
    OBVIOUS
  <2>3. g \in [0 .. m -> V]
    BY <2>2
  <2>4. g[0] = init /\ g[m] = body[m][g[m - 1]]
    <3>1. g[0] = f[0] /\ g[m - 1] = f[m - 1] /\ g[m] = body[m][f[m - 1]]
      OBVIOUS
    <3> QED
      BY <2>1, <3>1
  <2>5. ASSUME NEW i \in 1 .. m - 1 PROVE g[i] = body[i][g[i - 1]]
    <3>1. g[i] = f[i] /\ g[i - 1] = f[i - 1]
      OBVIOUS
    <3> QED
      BY <2>1, <3>1
  <2>6. Runs(m, g)
    <3> HIDE DEF g
    <3>1. \A i \in 1 .. m : i = m \/ i \in 1 .. m - 1
      OBVIOUS
    <3> QED
      BY <2>4, <2>5, <3>1
  <2> HIDE DEF g, Runs
  <2> QED
    BY <2>3, <2>6
<1>3. \A m \in 0 .. n : m \in S
  <2> HIDE DEF S
  <2> QED
    BY <1>1, <1>2, RangeInduction
<1>4. n \in S
  BY <1>3
<1> QED
  BY <1>4 DEF IsRun

-----------------------------------------------------------------------------
\* Finite sets of numbers have a largest element.
LEMMA MaxIsMember ==
    ASSUME NEW S \in SUBSET Int, S # {}, IsFiniteSet(S)
    PROVE  Max(S) \in S /\ \A x \in S : x <= Max(S)
<1> DEFINE HasMax(T) == \E m \in T : \A x \in T : x <= m
           Sizes == {n \in Nat : \A T \in SUBSET Int :
                       T # {} /\ IsFiniteSet(T) /\ Cardinality(T) = n => HasMax(T)}
<1>1. 0 \in Sizes
  BY FS_EmptySet
<1>2. ASSUME NEW n \in Nat, n \in Sizes PROVE n + 1 \in Sizes
  <2> SUFFICES ASSUME NEW T \in SUBSET Int, T # {}, IsFiniteSet(T), Cardinality(T) = n + 1
               PROVE  HasMax(T)
    OBVIOUS
  <2>1. PICK y \in T : TRUE
    OBVIOUS
  <2>2. IsFiniteSet(T \ {y}) /\ Cardinality(T \ {y}) = n
    <3> HIDE DEF Sizes, HasMax
    <3>1. /\ IsFiniteSet(T \ {y})
          /\ Cardinality(T \ {y}) = IF y \in T THEN Cardinality(T) - 1 ELSE Cardinality(T)
      BY FS_RemoveElement
    <3> QED
      BY <2>1, <3>1
  <2>3. CASE T \ {y} = {}
    BY <2>1, <2>3
  <2>4. CASE T \ {y} # {}
    <3>1. PICK m \in T \ {y} : \A x \in T \ {y} : x <= m
      BY <1>2, <2>2, <2>4
    <3>2. m \in Int /\ y \in Int /\ \A x \in T : x \in Int
      BY <2>1
    <3> QED
      BY <2>1, <3>1, <3>2
  <2> QED
    BY <2>3, <2>4
<1>3. Nat \subseteq Sizes
  <2> HIDE DEF Sizes
  <2> QED
    BY <1>1, <1>2, NatSetInduction
<1>4. HasMax(S)
  BY <1>3, FS_CardinalityType
<1>5. \E m \in S : \A x \in S : m >= x
  BY <1>4
<1>6. Max(S) \in S /\ \A x \in S : Max(S) >= x
  BY <1>5 DEF Max
<1> QED
  BY <1>6

\* Sets of natural numbers have a smallest element.
LEMMA MinIsMember ==
    ASSUME NEW S \in SUBSET Nat, S # {}
    PROVE  Min(S) \in S /\ \A x \in S : Min(S) <= x
<1> DEFINE R == OpToRel(<, Nat)
<1>1. IsWellFoundedOn(R, Nat)
  BY NatLessThanWellFounded
<1>2. \A m, n \in Nat : m < n => <<m, n>> \in R
  BY DEF OpToRel
<1> HIDE DEF R
<1>5. S \subseteq Nat
  OBVIOUS
<1>3. PICK m \in S : \A y \in S : ~(<<y, m>> \in R)
  BY <1>1, <1>5, WFMin
<1>4. \A y \in S : m <= y
  <2>1. \A y \in S : y \in Nat /\ m \in Nat /\ ~(y < m)
    BY <1>2, <1>3, <1>5
  <2> QED
    BY <2>1
<1>6. \E z \in S : \A y \in S : z <= y
  BY <1>3, <1>4
<1> QED
  BY <1>6 DEF Min

-----------------------------------------------------------------------------
NatOn(f, S) == \A x \in S : f[x] \in Nat
Member(T) == CHOOSE x \in T : TRUE

\* What SumFunctionOnSet computes on its way to the sum over S.
IsSum(g, f, S) ==
    /\ g[{}] = 0
    /\ \A T \in SUBSET S : T # {} => g[T] = f[Member(T)] + g[T \ {Member(T)}]

LEMMA Shrinks ==
    ASSUME NEW S, IsFiniteSet(S), NEW T \in SUBSET S
    PROVE  /\ IsFiniteSet(T) /\ Cardinality(T) \in Nat /\ (Cardinality(T) = 0 <=> T = {})
           /\ T # {} => /\ Member(T) \in T /\ T \ {Member(T)} \in SUBSET S
                        /\ Cardinality(T \ {Member(T)}) = Cardinality(T) - 1
<1>1. IsFiniteSet(T) /\ Cardinality(T) \in Nat /\ (Cardinality(T) = 0 <=> T = {})
  BY FS_Subset, FS_CardinalityType, FS_EmptySet
<1>2. ASSUME T # {} PROVE Member(T) \in T
  BY <1>2 DEF Member
<1>3. ASSUME T # {} PROVE Cardinality(T \ {Member(T)}) = Cardinality(T) - 1
  BY <1>1, <1>2, <1>3, FS_RemoveElement
<1> QED
  BY <1>1, <1>2, <1>3

LEMMA SumExists ==
    ASSUME NEW S, IsFiniteSet(S), NEW f, NatOn(f, S)
    PROVE  \E g \in [SUBSET S -> Nat] : IsSum(g, f, S)
<1> DEFINE Step(g, T) == g[T] = f[Member(T)] + g[T \ {Member(T)}]
           Upto(g, n) == \A T \in SUBSET S : T # {} /\ Cardinality(T) <= n => Step(g, T)
           Sizes == {n \in Nat : \E g \in [SUBSET S -> Nat] : g[{}] = 0 /\ Upto(g, n)}
<1>1. 0 \in Sizes
  <2> DEFINE g == [T \in SUBSET S |-> 0]
  <2>1. g \in [SUBSET S -> Nat] /\ g[{}] = 0
    OBVIOUS
  <2>2. Upto(g, 0)
    <3> SUFFICES ASSUME NEW T \in SUBSET S, T # {}, Cardinality(T) <= 0 PROVE FALSE
      OBVIOUS
    <3> HIDE DEF g, Sizes, Upto, Step
    <3>1. Cardinality(T) \in Nat /\ Cardinality(T) # 0
      BY Shrinks
    <3> QED
      BY <3>1
  <2> HIDE DEF g, Upto
  <2> QED
    BY <2>1, <2>2
<1>2. ASSUME NEW n \in Nat, n \in Sizes PROVE n + 1 \in Sizes
  <2>1. PICK g \in [SUBSET S -> Nat] : g[{}] = 0 /\ Upto(g, n)
    BY <1>2
  <2> DEFINE h == [T \in SUBSET S |-> IF Cardinality(T) <= n THEN g[T]
                                      ELSE f[Member(T)] + g[T \ {Member(T)}]]
  <2>2. \A T \in SUBSET S : T # {} => /\ f[Member(T)] \in Nat /\ g[T \ {Member(T)}] \in Nat
                                      /\ T \ {Member(T)} \in SUBSET S
                                      /\ Cardinality(T \ {Member(T)}) = Cardinality(T) - 1
    BY Shrinks DEF NatOn
  <2>3. \A T \in SUBSET S : Cardinality(T) \in Nat /\ (Cardinality(T) = 0 <=> T = {})
    BY Shrinks
  <2>4. h \in [SUBSET S -> Nat]
    <3> SUFFICES ASSUME NEW T \in SUBSET S
                 PROVE  (IF Cardinality(T) <= n THEN g[T] ELSE f[Member(T)] + g[T \ {Member(T)}]) \in Nat
      OBVIOUS
    <3>1. CASE Cardinality(T) <= n
      BY <2>1, <3>1
    <3>2. CASE ~(Cardinality(T) <= n)
      <4>1. T # {}
        BY <2>3, <3>2
      <4> QED
        BY <2>2, <3>2, <4>1
    <3> QED
      BY <3>1, <3>2
  <2>5. h[{}] = 0
    BY <2>1, <2>3
  <2>6. Upto(h, n + 1)
    <3> SUFFICES ASSUME NEW T \in SUBSET S, T # {}, Cardinality(T) <= n + 1 PROVE Step(h, T)
      BY DEF Upto
    <3> DEFINE U == T \ {Member(T)}
    <3>1. U \in SUBSET S /\ Cardinality(U) <= n
      BY <2>2, <2>3
    <3>2. h[U] = g[U]
      BY <3>1
    <3>3. h[T] = f[Member(T)] + g[U]
      BY <2>1
    <3> QED
      BY <3>2, <3>3
  <2> HIDE DEF h, Upto
  <2> QED
    BY <2>4, <2>5, <2>6
<1>3. Nat \subseteq Sizes
  <2> HIDE DEF Sizes
  <2> QED
    BY <1>1, <1>2, NatSetInduction
<1>4. Cardinality(S) \in Nat /\ \A T \in SUBSET S : Cardinality(T) <= Cardinality(S)
  BY FS_CardinalityType, FS_Subset
<1>5. PICK g \in [SUBSET S -> Nat] : g[{}] = 0 /\ Upto(g, Cardinality(S))
  <2> HIDE DEF Upto
  <2> QED
    BY <1>3, <1>4
<1>6. IsSum(g, f, S)
  BY <1>4, <1>5 DEF IsSum
<1> QED
  BY <1>6

LEMMA SumUnique ==
    ASSUME NEW S, IsFiniteSet(S), NEW R \in SUBSET S, NEW f, NEW g, NEW h,
           IsSum(g, f, S), IsSum(h, f, R)
    PROVE  g[R] = h[R]
<1> DEFINE Sizes == {n \in Nat : \A T \in SUBSET R : Cardinality(T) = n => g[T] = h[T]}
<1>1. 0 \in Sizes
  BY Shrinks DEF IsSum
<1>2. ASSUME NEW n \in Nat, n \in Sizes PROVE n + 1 \in Sizes
  <2> SUFFICES ASSUME NEW T \in SUBSET R, Cardinality(T) = n + 1 PROVE g[T] = h[T]
    OBVIOUS
  <2> DEFINE U == T \ {Member(T)}
  <2>1. T \in SUBSET S /\ T # {}
    <3>1. T \in SUBSET S
      OBVIOUS
    <3>2. Cardinality(T) = 0 <=> T = {}
      BY <3>1, Shrinks
    <3> QED
      BY <3>1, <3>2
  <2>2. U \in SUBSET R /\ Cardinality(U) = n
    BY <2>1, Shrinks
  <2>3. g[U] = h[U]
    BY <1>2, <2>2
  <2>4. g[T] = f[Member(T)] + g[U] /\ h[T] = f[Member(T)] + h[U]
    BY <2>1 DEF IsSum
  <2> QED
    BY <2>3, <2>4
<1>3. Nat \subseteq Sizes
  <2> HIDE DEF Sizes
  <2> QED
    BY <1>1, <1>2, NatSetInduction
<1>4. Cardinality(R) \in Nat
  BY Shrinks
<1> QED
  BY <1>3, <1>4

LEMMA SumIs ==
    ASSUME NEW S, IsFiniteSet(S), NEW f, NatOn(f, S)
    PROVE  \E g \in [SUBSET S -> Nat] : IsSum(g, f, S) /\ SumFunctionOnSet(f, S) = g[S]
<1> DEFINE Value(g, T) == IF T = {} THEN 0
                          ELSE LET x == CHOOSE y \in T : TRUE IN f[x] + g[T \ {x}]
           Is(g) == g = [T \in SUBSET S |-> Value(g, T)]
           iter[T \in SUBSET S] == IF T = {} THEN 0
                                   ELSE LET x == CHOOSE y \in T : TRUE IN f[x] + iter[T \ {x}]
<1>1. SumFunctionOnSet(f, S) = iter[S]
  BY Zenon DEF SumFunctionOnSet, FoldFunctionOnSet, MapThenFoldSet
<1>2. PICK g \in [SUBSET S -> Nat] : IsSum(g, f, S)
  BY SumExists
<1>3. Is(iter)
  <2>1. \A T \in SUBSET S : g[T] = Value(g, T)
    BY <1>2 DEF IsSum, Member
  <2>2. g = [T \in SUBSET S |-> g[T]]
    BY <1>2
  <2>3. Is(g)
    <3> HIDE DEF Value
    <3> QED
      BY <2>1, <2>2
  <2>4. \E e : Is(e)
    BY <2>3
  <2>5. Is(CHOOSE e : Is(e))
    BY <2>4, Zenon
  <2> QED
    BY <2>5
<1> HIDE DEF iter
<1>4. \A T \in SUBSET S : iter[T] = Value(iter, T)
  <2> HIDE DEF Value
  <2> QED
    BY <1>3
<1>5. IsSum(iter, f, S)
  BY <1>4 DEF IsSum, Member
<1>6. iter[S] = g[S]
  <2> S \in SUBSET S
    OBVIOUS
  <2> QED
    BY <1>2, <1>5, SumUnique
<1> QED
  BY <1>1, <1>2, <1>6

LEMMA SumType ==
    ASSUME NEW S, IsFiniteSet(S), NEW f, NatOn(f, S)
    PROVE  SumFunctionOnSet(f, S) \in Nat
<1>1. PICK g \in [SUBSET S -> Nat] : SumFunctionOnSet(f, S) = g[S]
  BY SumIs
<1> QED
  BY <1>1

LEMMA SumEmpty == ASSUME NEW f PROVE SumFunctionOnSet(f, {}) = 0
<1>1. IsFiniteSet({}) /\ NatOn(f, {})
  BY FS_EmptySet DEF NatOn
<1> QED
  BY <1>1, SumIs DEF IsSum

LEMMA SumOfMember ==
    ASSUME NEW S, IsFiniteSet(S), S # {}, NEW f, NatOn(f, S)
    PROVE  SumFunctionOnSet(f, S) = f[Member(S)] + SumFunctionOnSet(f, S \ {Member(S)})
<1> DEFINE R == S \ {Member(S)}
<1>1. PICK g \in [SUBSET S -> Nat] : IsSum(g, f, S) /\ SumFunctionOnSet(f, S) = g[S]
  BY SumIs
<1>2. IsFiniteSet(R) /\ R \in SUBSET S /\ NatOn(f, R)
  BY FS_Subset DEF NatOn
<1>3. PICK h \in [SUBSET R -> Nat] : IsSum(h, f, R) /\ SumFunctionOnSet(f, R) = h[R]
  BY <1>2, SumIs
<1>4. g[R] = h[R]
  BY <1>1, <1>2, <1>3, SumUnique
<1>5. g[S] = f[Member(S)] + g[R]
  BY <1>1 DEF IsSum
<1> QED
  BY <1>1, <1>3, <1>4, <1>5

\* A sum does not depend on the order its terms are taken in.
LEMMA SumRemove ==
    ASSUME NEW S, IsFiniteSet(S), NEW f, NatOn(f, S), NEW x \in S
    PROVE  SumFunctionOnSet(f, S) = f[x] + SumFunctionOnSet(f, S \ {x})
<1> DEFINE Sum(T) == SumFunctionOnSet(f, T)
           Sizes == {n \in Nat : \A T \in SUBSET S : Cardinality(T) = n =>
                       \A y \in T : Sum(T) = f[y] + Sum(T \ {y})}
<1>1. 0 \in Sizes
  BY Shrinks
<1>2. ASSUME NEW n \in Nat, n \in Sizes PROVE n + 1 \in Sizes
  <2> SUFFICES ASSUME NEW T \in SUBSET S, Cardinality(T) = n + 1, NEW y \in T
               PROVE  Sum(T) = f[y] + Sum(T \ {y})
    OBVIOUS
  <2> DEFINE c == Member(T)
  <2>1. \A U \in SUBSET S : IsFiniteSet(U) /\ NatOn(f, U) /\ Sum(U) \in Nat
    BY FS_Subset, SumType DEF NatOn
  <2>2. c \in T /\ T \ {c} \in SUBSET S /\ Cardinality(T \ {c}) = n
    BY Shrinks
  <2>3. Sum(T) = f[c] + Sum(T \ {c})
    BY <2>1, <2>2, SumOfMember
  <2>4. CASE y = c
    BY <2>3, <2>4
  <2>5. CASE y # c
    <3>1. y \in T \ {c} /\ c \in T \ {y}
      BY <2>2, <2>5
    <3>2. Sum(T \ {c}) = f[y] + Sum((T \ {c}) \ {y})
      BY <1>2, <2>2, <3>1
    <3>3. T \ {y} \in SUBSET S /\ Cardinality(T \ {y}) = n
      <4>1. Cardinality(T \ {y}) = IF y \in T THEN Cardinality(T) - 1 ELSE Cardinality(T)
        <5> HIDE DEF Sizes, Sum
        <5> QED
          BY <2>1, FS_RemoveElement
      <4> QED
        BY <4>1
    <3>4. Sum(T \ {y}) = f[c] + Sum((T \ {y}) \ {c})
      BY <1>2, <3>1, <3>3
    <3>5. (T \ {c}) \ {y} = (T \ {y}) \ {c} /\ (T \ {c}) \ {y} \in SUBSET S
      OBVIOUS
    <3>6. f[c] \in Nat /\ f[y] \in Nat /\ Sum((T \ {c}) \ {y}) \in Nat
      BY <2>1, <2>2, <3>5 DEF NatOn
    <3> DEFINE U == (T \ {c}) \ {y}
    <3>7. /\ Sum(T) = f[c] + (f[y] + Sum(U)) /\ Sum(T \ {y}) = f[c] + Sum(U)
          /\ f[c] \in Nat /\ f[y] \in Nat /\ Sum(U) \in Nat
      <4> HIDE DEF Sum, c
      <4> QED
        BY <2>3, <3>2, <3>4, <3>5, <3>6
    <3> HIDE DEF Sum, c, U
    <3> QED
      BY <3>7
  <2> QED
    BY <2>4, <2>5
<1>3. Nat \subseteq Sizes
  <2> HIDE DEF Sizes
  <2> QED
    BY <1>1, <1>2, NatSetInduction
<1>4. Cardinality(S) \in Nat /\ S \in SUBSET S
  BY FS_CardinalityType
<1> QED
  BY <1>3, <1>4

Below(f, h, S) == \A x \in S : f[x] <= h[x]
Multiples(f, n, S) == \A x \in S : \E q \in Nat : f[x] = q * n

\* A sum is at least each of its terms.
LEMMA SumAtLeast ==
    ASSUME NEW S, IsFiniteSet(S), NEW f, NatOn(f, S), NEW x \in S
    PROVE  f[x] <= SumFunctionOnSet(f, S)
<1>1. IsFiniteSet(S \ {x}) /\ NatOn(f, S \ {x}) /\ f[x] \in Nat
  BY FS_Subset DEF NatOn
<1>2. SumFunctionOnSet(f, S \ {x}) \in Nat
  BY <1>1, SumType
<1>3. SumFunctionOnSet(f, S) = f[x] + SumFunctionOnSet(f, S \ {x})
  BY SumRemove
<1> QED
  BY <1>1, <1>2, <1>3

LEMMA SumMonotone ==
    ASSUME NEW S, IsFiniteSet(S), NEW f, NEW h, NatOn(f, S), NatOn(h, S), Below(f, h, S)
    PROVE  SumFunctionOnSet(f, S) <= SumFunctionOnSet(h, S)
<1> DEFINE F(T) == SumFunctionOnSet(f, T)
           H(T) == SumFunctionOnSet(h, T)
           Sizes == {n \in Nat : \A T \in SUBSET S : Cardinality(T) = n => F(T) <= H(T)}
<1>1. \A T \in SUBSET S : /\ IsFiniteSet(T) /\ NatOn(f, T) /\ NatOn(h, T)
                         /\ F(T) \in Nat /\ H(T) \in Nat
  BY FS_Subset, SumType DEF NatOn
<1>2. 0 \in Sizes
  <2> SUFFICES ASSUME NEW T \in SUBSET S, Cardinality(T) = 0 PROVE F(T) <= H(T)
    OBVIOUS
  <2>1. T = {}
    BY Shrinks
  <2>2. F(T) = 0 /\ H(T) = 0
    BY <2>1, SumEmpty
  <2> QED
    BY <2>2
<1>3. ASSUME NEW n \in Nat, n \in Sizes PROVE n + 1 \in Sizes
  <2> SUFFICES ASSUME NEW T \in SUBSET S, Cardinality(T) = n + 1 PROVE F(T) <= H(T)
    OBVIOUS
  <2> DEFINE c == Member(T)
             U == T \ {c}
  <2>1. T # {} /\ c \in T /\ U \in SUBSET S /\ Cardinality(U) = n
    <3>1. Cardinality(T) = 0 <=> T = {}
      BY Shrinks
    <3>2. T # {}
      BY <3>1
    <3> QED
      BY <3>2, Shrinks
  <2>2. F(U) <= H(U) /\ F(U) \in Nat /\ H(U) \in Nat
    BY <1>1, <1>3, <2>1
  <2>3. F(T) = f[c] + F(U) /\ H(T) = h[c] + H(U)
    BY <1>1, <2>1, SumOfMember
  <2>4. f[c] \in Nat /\ h[c] \in Nat /\ f[c] <= h[c]
    BY <2>1 DEF NatOn, Below
  <2> HIDE DEF F, H, c, U
  <2> QED
    BY <2>2, <2>3, <2>4
<1>4. Nat \subseteq Sizes
  <2> HIDE DEF Sizes
  <2> QED
    BY <1>2, <1>3, NatSetInduction
<1>5. Cardinality(S) \in Nat /\ S \in SUBSET S
  BY FS_CardinalityType
<1> QED
  BY <1>4, <1>5

LEMMA SumOfMultiples ==
    ASSUME NEW S, IsFiniteSet(S), NEW f, NatOn(f, S), NEW n \in Nat, Multiples(f, n, S)
    PROVE  \E q \in Nat : SumFunctionOnSet(f, S) = q * n
<1> DEFINE F(T) == SumFunctionOnSet(f, T)
           Sizes == {m \in Nat : \A T \in SUBSET S : Cardinality(T) = m =>
                       \E q \in Nat : F(T) = q * n}
<1>1. \A T \in SUBSET S : IsFiniteSet(T) /\ NatOn(f, T) /\ F(T) \in Nat
  BY FS_Subset, SumType DEF NatOn
<1>2. 0 \in Sizes
  <2> SUFFICES ASSUME NEW T \in SUBSET S, Cardinality(T) = 0 PROVE \E q \in Nat : F(T) = q * n
    OBVIOUS
  <2>1. T = {}
    BY Shrinks
  <2>2. F(T) = 0 * n
    BY <2>1, SumEmpty
  <2> QED
    BY <2>2
<1>3. ASSUME NEW m \in Nat, m \in Sizes PROVE m + 1 \in Sizes
  <2> SUFFICES ASSUME NEW T \in SUBSET S, Cardinality(T) = m + 1
               PROVE  \E q \in Nat : F(T) = q * n
    OBVIOUS
  <2> DEFINE c == Member(T)
             U == T \ {c}
  <2>1. T # {} /\ c \in T /\ U \in SUBSET S /\ Cardinality(U) = m
    <3>1. Cardinality(T) = 0 <=> T = {}
      BY Shrinks
    <3>2. T # {}
      BY <3>1
    <3> QED
      BY <3>2, Shrinks
  <2>2. PICK q \in Nat : F(U) = q * n
    BY <1>3, <2>1
  <2>3. PICK p \in Nat : f[c] = p * n
    BY <2>1 DEF Multiples
  <2>4. F(T) = f[c] + F(U)
    BY <1>1, <2>1, SumOfMember
  <2>5. p * n + q * n = (p + q) * n /\ p + q \in Nat
    OBVIOUS
  <2>6. F(T) = (p + q) * n
    <3> HIDE DEF F, c, U
    <3> QED
      BY <2>2, <2>3, <2>4, <2>5
  <2> QED
    BY <2>5, <2>6
<1>4. Nat \subseteq Sizes
  <2> HIDE DEF Sizes
  <2> QED
    BY <1>2, <1>3, NatSetInduction
<1>5. Cardinality(S) \in Nat /\ S \in SUBSET S
  BY FS_CardinalityType
<1> QED
  BY <1>4, <1>5
=============================================================================
