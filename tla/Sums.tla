-------------------------------- MODULE Sums --------------------------------
(***************************************************************************)
(* Sums of finitely many natural numbers: what the operators SumFunction   *)
(* and FoldLeft of the community modules give for any finite set and any   *)
(* sequence of natural numbers, and how sums compare.  These facts are     *)
(* proved by least counterexample: a claim about the sums over the subsets *)
(* of a set fails, if it does, for a subset with the fewest elements.      *)
(***************************************************************************)
EXTENDS Integers, FiniteSets, Sequences, Functions, SequencesExt, FiniteSetTheorems,
        SequenceTheorems, WellFoundedInduction, TLAPS

(* A non-empty set of natural numbers has a least element. *)
LEMMA LeastNumber ==
  ASSUME NEW N \in SUBSET Nat, N # {}
  PROVE  \E n \in N : \A m \in N : n <= m
  <1>1. PICK n \in N : \A m \in N : ~ (<<m, n>> \in OpToRel(<, Nat))
    BY WFMin, NatLessThanWellFounded
  <1>2. \A m \in N : ~ (m < n)
    BY <1>1 DEF OpToRel
  <1> QED BY <1>2

(* A non-empty set of finite sets has a smallest member. *)
LEMMA Smallest ==
  ASSUME NEW S, IsFiniteSet(S), NEW C \in SUBSET SUBSET S, C # {}
  PROVE  \E T \in C : \A U \in C : Cardinality(T) <= Cardinality(U)
  <1> DEFINE N == {Cardinality(T) : T \in C}
  <1>1. N \in SUBSET Nat /\ N # {}
    <2>1. \A T \in C : Cardinality(T) \in Nat
      BY FS_Subset, FS_CardinalityType
    <2> QED BY <2>1
  <1>2. PICK n \in N : \A m \in N : n <= m
    BY <1>1, LeastNumber
  <1> QED BY <1>2

(* A claim that each set inherits from its subsets with one element less   *)
(* holds for all: C is the set of those for which it fails.                *)
LEMMA NoneFails ==
  ASSUME NEW S, IsFiniteSet(S), NEW C \in SUBSET SUBSET S, {} \notin C,
         \A T \in C : \E x \in T : T \ {x} \in C
  PROVE  C = {}
  <1> SUFFICES ASSUME C # {} PROVE FALSE
    OBVIOUS
  <1>1. PICK T \in C : \A U \in C : Cardinality(T) <= Cardinality(U)
    BY Smallest
  <1>2. PICK x \in T : T \ {x} \in C
    OBVIOUS
  <1>3. IsFiniteSet(T)
    BY FS_Subset
  <1>4. Cardinality(T \ {x}) = Cardinality(T) - 1 /\ Cardinality(T) \in Nat
    BY <1>3, FS_RemoveElement, FS_CardinalityType
  <1> QED BY <1>1, <1>2, <1>4

-----------------------------------------------------------------------------
(* g gives the sums of f over the subsets of S.                            *)
IsSum(g, f, S) ==
  /\ g \in [SUBSET S -> Nat]
  /\ g[{}] = 0
  /\ \A T \in SUBSET S : \A x \in T : g[T] = f[x] + g[T \ {x}]

(* The recursion by which the folds add, taking the elements as c says.    *)
Adds(g, f, c, S) ==
  g = [T \in SUBSET S |-> IF T = {} THEN 0 ELSE f[c[T]] + g[T \ {c[T]}]]

(* It defines a function. *)
LEMMA AddsExists ==
  ASSUME NEW S, IsFiniteSet(S), NEW f, NEW c, \A T \in SUBSET S : T # {} => c[T] \in T
  PROVE  \E g : Adds(g, f, c, S)
  <1> DEFINE Sub(n) == {T \in SUBSET S : Cardinality(T) <= n}
             step(g, T) == IF T = {} THEN 0 ELSE f[c[T]] + g[T \ {c[T]}]
             N == {n \in Nat : ~ \E g : g = [T \in Sub(n) |-> step(g, T)]}
  <1>1. \A T \in SUBSET S : Cardinality(T) \in Nat /\ IsFiniteSet(T)
    BY FS_Subset, FS_CardinalityType
  <1>2. 0 \notin N
    <2> DEFINE g == [T \in Sub(0) |-> 0]
    <2>1. \A T \in Sub(0) : T = {}
      BY <1>1, FS_EmptySet
    <2>2. \A T \in Sub(0) : step(g, T) = 0
      BY <2>1
    <2> HIDE DEF step
    <2>3. g = [T \in Sub(0) |-> step(g, T)]
      BY <2>2
    <2> QED BY <2>3
  <1>3. ASSUME NEW n \in Nat, n \notin N
        PROVE  n + 1 \notin N
    <2>1. PICK g : g = [T \in Sub(n) |-> step(g, T)]
      BY <1>3
    <2> DEFINE h == [T \in Sub(n + 1) |-> step(g, T)]
    <2>2. ASSUME NEW T \in Sub(n + 1)
          PROVE  h[T] = step(h, T)
      <3>1. CASE T = {}
        BY <3>1
      <3>2. CASE T # {}
        <4> DEFINE U == T \ {c[T]}
        <4>1. c[T] \in T /\ U \in SUBSET S
          BY <3>2
        <4>2. Cardinality(U) = Cardinality(T) - 1
          BY <1>1, <4>1, FS_RemoveElement
        <4>3. Cardinality(T) \in Nat /\ Cardinality(U) \in Nat
          BY <1>1, <4>1
        <4>4. U \in Sub(n) /\ U \in Sub(n + 1)
          BY <4>1, <4>2, <4>3
        <4>5. g[U] = step(g, U)
          BY <2>1, <4>4
        <4>6. h[U] = step(g, U)
          BY <4>4
        <4>7. step(h, T) = f[c[T]] + h[U] /\ step(g, T) = f[c[T]] + g[U]
          BY <3>2
        <4> QED BY <4>5, <4>6, <4>7
      <3> QED BY <3>1, <3>2
    <2>3. h = [T \in Sub(n + 1) |-> h[T]]
      OBVIOUS
    <2> HIDE DEF h, step
    <2>4. h = [T \in Sub(n + 1) |-> step(h, T)]
      BY <2>2, <2>3
    <2> QED BY <2>4
  <1> HIDE DEF N
  <1>4. N = {}
    <2> SUFFICES ASSUME N # {} PROVE FALSE
      OBVIOUS
    <2>1. N \in SUBSET Nat
      BY DEF N
    <2>2. PICK n \in N : \A m \in N : n <= m
      BY <2>1, LeastNumber
    <2>3. n - 1 \in Nat /\ n - 1 + 1 = n
      BY <1>2, <2>1, <2>2
    <2>4. n - 1 \notin N
      BY <2>2, <2>3
    <2> QED BY <1>3, <2>2, <2>3, <2>4
  <1>5. Cardinality(S) \in Nat /\ Sub(Cardinality(S)) = SUBSET S
    BY <1>1, FS_Subset
  <1>6. \E g : g = [T \in Sub(Cardinality(S)) |-> step(g, T)]
    BY <1>4, <1>5 DEF N
  <1> QED BY <1>5, <1>6 DEF Adds

(* In whatever order the elements are taken, the same sums result.         *)
LEMMA AddsIsSum ==
  ASSUME NEW S, IsFiniteSet(S), NEW f, \A x \in S : f[x] \in Nat,
         NEW c, \A T \in SUBSET S : T # {} => c[T] \in T,
         NEW g, Adds(g, f, c, S)
  PROVE  IsSum(g, f, S)
  <1>1. /\ DOMAIN g = SUBSET S /\ g[{}] = 0
        /\ \A T \in SUBSET S : T # {} => g[T] = f[c[T]] + g[T \ {c[T]}]
        /\ g = [T \in SUBSET S |-> g[T]]
    BY DEF Adds
  <1>2. \A T \in SUBSET S : g[T] \in Nat
    <2> DEFINE C == {T \in SUBSET S : g[T] \notin Nat}
    <2>1. {} \notin C
      BY <1>1
    <2>2. ASSUME NEW T \in C PROVE \E x \in T : T \ {x} \in C
      <3>1. T # {} /\ c[T] \in T /\ T \ {c[T]} \in SUBSET S
        BY <2>1, <2>2
      <3>2. g[T] = f[c[T]] + g[T \ {c[T]}] /\ f[c[T]] \in Nat
        BY <1>1, <3>1
      <3>3. g[T \ {c[T]}] \notin Nat
        BY <3>2
      <3> QED BY <3>1, <3>3
    <2>3. C = {}
      <3> HIDE DEF C
      <3>1. C \in SUBSET SUBSET S
        BY DEF C
      <3> QED BY <2>1, <2>2, <3>1, NoneFails
    <2> QED BY <2>3
  <1>3. g \in [SUBSET S -> Nat]
    BY <1>1, <1>2
  <1>4. \A T \in SUBSET S : \A x \in T : g[T] = f[x] + g[T \ {x}]
    <2> DEFINE C == {T \in SUBSET S : \E x \in T : g[T] # f[x] + g[T \ {x}]}
    <2>1. {} \notin C
      OBVIOUS
    <2>2. ASSUME NEW T \in C PROVE \E x \in T : T \ {x} \in C
      <3> DEFINE y == c[T]
      <3>1. PICK x \in T : g[T] # f[x] + g[T \ {x}]
        OBVIOUS
      <3>2. y \in T /\ g[T] = f[y] + g[T \ {y}]
        BY <1>1, <3>1
      <3> HIDE DEF y
      <3>3. x # y
        BY <3>1, <3>2
      <3>4. CASE T \ {y} \in C
        BY <3>2, <3>4
      <3>5. CASE T \ {x} \in C
        BY <3>1, <3>5
      <3>6. CASE T \ {y} \notin C /\ T \ {x} \notin C
        <4> DEFINE U == (T \ {y}) \ {x}
        <4>1. U = (T \ {x}) \ {y} /\ U \in SUBSET S /\ T \ {x} \in SUBSET S /\ T \ {y} \in SUBSET S
          OBVIOUS
        <4>2. g[T \ {y}] = f[x] + g[U]
          BY <3>1, <3>3, <3>6, <4>1
        <4>3. g[T \ {x}] = f[y] + g[U]
          BY <3>2, <3>3, <3>6, <4>1
        <4>4. f[x] \in Nat /\ f[y] \in Nat /\ g[U] \in Nat
          BY <1>2, <3>1, <3>2, <4>1
        <4> HIDE DEF U
        <4>5. g[T] = f[x] + g[T \ {x}]
          BY <3>2, <4>2, <4>3, <4>4
        <4> QED BY <3>1, <4>5
      <3> QED BY <3>4, <3>5, <3>6
    <2>3. C = {}
      <3> HIDE DEF C
      <3>1. C \in SUBSET SUBSET S
        BY DEF C
      <3> QED BY <2>1, <2>2, <3>1, NoneFails
    <2> QED BY <2>3
  <1> QED BY <1>1, <1>3, <1>4 DEF IsSum

-----------------------------------------------------------------------------
(* The operators of the community modules are such sums. *)
LEMMA SumFunctionIsSum ==
  ASSUME NEW S, IsFiniteSet(S), NEW f \in [S -> Nat]
  PROVE  \E g : IsSum(g, f, S) /\ SumFunction(f) = g[S]
  <1> DEFINE choose(T) == CHOOSE x \in T : TRUE
             c == [T \in SUBSET S |-> choose(T)]
             step(g, T) == IF T = {} THEN 0 ELSE f[choose(T)] + g[T \ {choose(T)}]
             iter == CHOOSE g : g = [T \in SUBSET S |-> step(g, T)]
  <1>1. \A T \in SUBSET S : c[T] = choose(T) /\ (T # {} => c[T] \in T)
    OBVIOUS
  <1>2. DOMAIN f = S /\ \A x \in S : f[x] \in Nat
    OBVIOUS
  <1>3. SumFunction(f) = iter[S]
    BY <1>2 DEF SumFunction, SumFunctionOnSet, FoldFunctionOnSet, MapThenFoldSet
  <1> HIDE DEF c, choose
  <1>4. \E g : Adds(g, f, c, S)
    BY <1>1, AddsExists
  <1>5. \A g : Adds(g, f, c, S) <=> g = [T \in SUBSET S |-> step(g, T)]
    <2> SUFFICES ASSUME NEW g
                 PROVE  [T \in SUBSET S |-> IF T = {} THEN 0 ELSE f[c[T]] + g[T \ {c[T]}]]
                          = [T \in SUBSET S |-> step(g, T)]
      BY DEF Adds
    <2> QED BY <1>1
  <1> HIDE DEF step
  <1>6. Adds(iter, f, c, S)
    BY <1>4, <1>5
  <1> HIDE DEF iter
  <1>7. IsSum(iter, f, S)
    BY <1>1, <1>2, <1>6, AddsIsSum
  <1> QED BY <1>3, <1>7

LEMMA FoldLeftIsSum ==
  ASSUME NEW s \in Seq(Nat)
  PROVE  \E g : IsSum(g, s, 1..Len(s)) /\ FoldLeft(+, 0, s) = g[1..Len(s)]
  <1> DEFINE S == 1..Len(s)
             c == [T \in SUBSET S |-> Max(T)]
             step(g, T) == IF T = {} THEN 0 ELSE g[T \ {Max(T)}] + s[Max(T)]
             iter == CHOOSE g : g = [T \in SUBSET S |-> step(g, T)]
  <1>1. DOMAIN s = S /\ IsFiniteSet(S) /\ Len(s) \in Nat /\ \A x \in S : s[x] \in Nat
    <2>1. DOMAIN s = S /\ Len(s) \in Nat /\ \A x \in S : s[x] \in Nat
      OBVIOUS
    <2> QED BY <2>1, FS_Interval
  <1>2. ASSUME NEW T \in SUBSET S, T # {}
        PROVE  Max(T) \in T
    <2> DEFINE N == {Len(s) - x : x \in T}
    <2>1. N \in SUBSET Nat /\ N # {}
      <3>1. \A x \in T : Len(s) - x \in Nat
        BY <1>1
      <3> QED BY <1>2, <3>1
    <2>2. PICK n \in N : \A m \in N : n <= m
      BY <2>1, LeastNumber
    <2>3. PICK x \in T : n = Len(s) - x
      BY <2>2
    <2>4. \A y \in T : x >= y
      <3> TAKE y \in T
      <3>1. Len(s) - x <= Len(s) - y
        BY <2>2, <2>3
      <3>2. x \in Int /\ y \in Int
        BY <2>3
      <3> QED BY <1>1, <3>1, <3>2
    <2> QED BY <2>3, <2>4 DEF Max
  <1>3. FoldLeft(+, 0, s) = iter[S]
    BY <1>1 DEF FoldLeft, MapThenFoldSet
  <1> DEFINE top(T) == Max(T)
  <1>4. \A T \in SUBSET S : c[T] = Max(T) /\ (T # {} => c[T] \in T)
    BY <1>2
  <1> HIDE DEF c
  <1>5. \E g : Adds(g, s, c, S)
    BY <1>1, <1>4, AddsExists
  <1>6. ASSUME NEW g PROVE Adds(g, s, c, S) => IsSum(g, s, S)
    BY <1>1, <1>4, AddsIsSum
  <1>7. \A g : Adds(g, s, c, S) => g = [T \in SUBSET S |-> step(g, T)]
    <2> SUFFICES ASSUME NEW g, Adds(g, s, c, S)
                 PROVE  g = [T \in SUBSET S |-> step(g, T)]
      OBVIOUS
    <2>1. g = [T \in SUBSET S |-> IF T = {} THEN 0 ELSE s[c[T]] + g[T \ {c[T]}]]
      BY DEF Adds
    <2>2. ASSUME NEW T \in SUBSET S
          PROVE  (IF T = {} THEN 0 ELSE s[c[T]] + g[T \ {c[T]}]) = step(g, T)
      <3>1. CASE T = {}
        BY <3>1
      <3>2. CASE T # {}
        <4>1. c[T] = Max(T) /\ c[T] \in S /\ T \ {c[T]} \in SUBSET S
          BY <1>4, <3>2
        <4>2. s[c[T]] \in Nat /\ g[T \ {c[T]}] \in Nat
          BY <1>1, <1>6, <4>1 DEF IsSum
        <4> QED BY <3>2, <4>1, <4>2
      <3> QED BY <3>1, <3>2
    <2> HIDE DEF step
    <2> QED BY <2>1, <2>2
  <1>8. iter = [T \in SUBSET S |-> step(iter, T)]
    BY <1>5, <1>7
  <1> HIDE DEF iter
  <1>9. \A g, h : g = [T \in SUBSET S |-> step(g, T)] /\ h = [T \in SUBSET S |-> step(h, T)]
                  => g = h
    <2> SUFFICES ASSUME NEW g, NEW h, g = [T \in SUBSET S |-> step(g, T)],
                        h = [T \in SUBSET S |-> step(h, T)]
                 PROVE  g = h
      OBVIOUS
    <2> DEFINE C == {T \in SUBSET S : g[T] # h[T]}
    <2>1. \A T \in SUBSET S : g[T] = step(g, T) /\ h[T] = step(h, T)
      <3> HIDE DEF step
      <3> QED OBVIOUS
    <2>2. {} \notin C
      BY <2>1
    <2>3. ASSUME NEW T \in C PROVE \E x \in T : T \ {x} \in C
      <3>1. T # {} /\ T \in SUBSET S
        BY <2>2, <2>3
      <3>2. Max(T) \in T
        BY <1>2, <3>1
      <3>3. T \ {Max(T)} \in C
        BY <2>1, <2>3, <3>1
      <3> QED BY <3>2, <3>3
    <2>4. C \in SUBSET SUBSET S
      OBVIOUS
    <2> HIDE DEF C
    <2>5. C = {}
      BY <1>1, <2>2, <2>3, <2>4, NoneFails
    <2>6. \A T \in SUBSET S : g[T] = h[T]
      BY <2>5 DEF C
    <2> HIDE DEF step
    <2>7. g = [T \in SUBSET S |-> g[T]] /\ h = [T \in SUBSET S |-> h[T]]
      OBVIOUS
    <2> QED BY <2>6, <2>7
  <1>10. IsSum(iter, s, S)
    <2>1. PICK g : Adds(g, s, c, S)
      BY <1>5
    <2>2. g = [T \in SUBSET S |-> step(g, T)]
      BY <1>7, <2>1
    <2> HIDE DEF step
    <2>3. g = iter
      BY <1>8, <1>9, <2>2
    <2> QED BY <1>6, <2>1, <2>3
  <1> QED BY <1>3, <1>10

-----------------------------------------------------------------------------
(* Sums of equal values are equal, whatever they are the sums of otherwise. *)
LEMMA SumsAgree ==
  ASSUME NEW S, IsFiniteSet(S), NEW R, NEW f, NEW e, NEW g, NEW h,
         IsSum(g, f, S), IsSum(h, e, R),
         NEW T \in SUBSET S, T \in SUBSET R, \A x \in T : f[x] = e[x]
  PROVE  g[T] = h[T]
  <1> DEFINE C == {U \in SUBSET T : g[U] # h[U]}
  <1>1. IsFiniteSet(T)
    BY FS_Subset
  <1>2. {} \notin C
    BY DEF IsSum
  <1>3. ASSUME NEW U \in C PROVE \E x \in U : U \ {x} \in C
    <2>1. PICK x \in U : TRUE
      BY <1>2
    <2>2. U \in SUBSET S /\ U \in SUBSET R /\ x \in T
      BY <2>1
    <2>3. g[U] = f[x] + g[U \ {x}] /\ h[U] = e[x] + h[U \ {x}]
      BY <2>1, <2>2 DEF IsSum
    <2> QED BY <2>1, <2>2, <2>3
  <1>4. C \in SUBSET SUBSET T
    OBVIOUS
  <1> HIDE DEF C
  <1>5. C = {}
    BY <1>1, <1>2, <1>3, <1>4, NoneFails
  <1> QED BY <1>5 DEF C

(* A sum of terms that are each at least m times those of another sum is   *)
(* at least m times that sum.                                              *)
LEMMA SumsCompare ==
  ASSUME NEW S, IsFiniteSet(S), NEW f, NEW e, NEW g, NEW h, NEW m \in Nat,
         IsSum(g, f, S), IsSum(h, e, S), \A x \in S : f[x] \in Nat /\ e[x] \in Nat,
         NEW T \in SUBSET S, \A x \in T : m * f[x] <= e[x]
  PROVE  m * g[T] <= h[T]
  <1> DEFINE C == {U \in SUBSET T : ~ (m * g[U] <= h[U])}
  <1>1. IsFiniteSet(T)
    BY FS_Subset
  <1>2. {} \notin C
    BY DEF IsSum
  <1>3. ASSUME NEW U \in C PROVE \E x \in U : U \ {x} \in C
    <2>1. PICK x \in U : TRUE
      BY <1>2
    <2>2. U \in SUBSET S /\ U \ {x} \in SUBSET S /\ x \in T
      BY <2>1
    <2>3. /\ g[U] = f[x] + g[U \ {x}] /\ h[U] = e[x] + h[U \ {x}]
          /\ g[U \ {x}] \in Nat /\ h[U \ {x}] \in Nat
      BY <2>1, <2>2 DEF IsSum
    <2>4. f[x] \in Nat /\ e[x] \in Nat /\ m * f[x] <= e[x]
      BY <2>2
    <2>5. /\ m * (f[x] + g[U \ {x}]) = m * f[x] + m * g[U \ {x}]
          /\ m * f[x] \in Nat /\ m * g[U \ {x}] \in Nat
      BY <2>3, <2>4
    <2>6. ~ (m * g[U] <= h[U])
      OBVIOUS
    <2>7. ~ (m * g[U \ {x}] <= h[U \ {x}])
      BY <2>3, <2>4, <2>5, <2>6
    <2> QED BY <2>1, <2>7
  <1>4. C \in SUBSET SUBSET T
    OBVIOUS
  <1> HIDE DEF C
  <1>5. C = {}
    BY <1>1, <1>2, <1>3, <1>4, NoneFails
  <1> QED BY <1>5 DEF C

(* Equal terms add up to their number times one of them.                   *)
LEMMA ConstantIsSum ==
  ASSUME NEW S, IsFiniteSet(S), NEW m \in Nat
  PROVE  IsSum([T \in SUBSET S |-> m * Cardinality(T)], [x \in S |-> m], S)
  <1> DEFINE g == [T \in SUBSET S |-> m * Cardinality(T)]
  <1>1. \A T \in SUBSET S : IsFiniteSet(T) /\ Cardinality(T) \in Nat
    BY FS_Subset, FS_CardinalityType
  <1>2. g[{}] = 0
    BY FS_EmptySet
  <1>3. ASSUME NEW T \in SUBSET S, NEW x \in T
        PROVE  g[T] = [y \in S |-> m][x] + g[T \ {x}]
    <2>1. Cardinality(T \ {x}) = Cardinality(T) - 1
      BY <1>1, FS_RemoveElement
    <2>2. m * (Cardinality(T) - 1) = m * Cardinality(T) - m /\ m * Cardinality(T) \in Nat
      BY <1>1
    <2> QED BY <1>1, <2>1, <2>2
  <1>4. \A T \in SUBSET S : m * Cardinality(T) \in Nat
    BY <1>1
  <1> QED BY <1>2, <1>3, <1>4 DEF IsSum

(* So terms that are all at least m, or all at most m, add up to at least, *)
(* or at most, m times their number.                                       *)
LEMMA AtLeastEach ==
  ASSUME NEW S, IsFiniteSet(S), NEW f, NEW g, IsSum(g, f, S), \A x \in S : f[x] \in Nat,
         NEW m \in Nat, NEW T \in SUBSET S, \A x \in T : m <= f[x]
  PROVE  m * Cardinality(T) <= g[T]
  <1> DEFINE one == [x \in S |-> 1]
             count == [U \in SUBSET S |-> 1 * Cardinality(U)]
  <1>1. IsSum(count, one, S)
    BY ConstantIsSum
  <1>2. \A x \in S : one[x] \in Nat /\ f[x] \in Nat
    OBVIOUS
  <1>3. \A x \in T : m * one[x] <= f[x]
    OBVIOUS
  <1>4. Cardinality(T) \in Nat
    BY FS_Subset, FS_CardinalityType
  <1>5. count[T] = Cardinality(T)
    BY <1>4
  <1> HIDE DEF one, count
  <1>6. m * count[T] <= g[T]
    BY <1>1, <1>2, <1>3, SumsCompare
  <1> QED BY <1>5, <1>6

LEMMA AtMostEach ==
  ASSUME NEW S, IsFiniteSet(S), NEW f, NEW g, IsSum(g, f, S), \A x \in S : f[x] \in Nat,
         NEW m \in Nat, NEW T \in SUBSET S, \A x \in T : f[x] <= m
  PROVE  g[T] <= m * Cardinality(T)
  <1> DEFINE all == [x \in S |-> m]
             count == [U \in SUBSET S |-> m * Cardinality(U)]
  <1>1. IsSum(count, all, S)
    BY ConstantIsSum
  <1>2. \A x \in S : f[x] \in Nat /\ all[x] \in Nat
    OBVIOUS
  <1>3. \A x \in T : 1 * f[x] <= all[x]
    OBVIOUS
  <1>4. count[T] = m * Cardinality(T) /\ count[T] \in Nat /\ g[T] \in Nat
    BY <1>1 DEF IsSum
  <1> HIDE DEF all, count
  <1>5. \A k \in Nat : (\A x \in T : k * f[x] <= all[x]) => k * g[T] <= count[T]
    BY <1>1, <1>2, SumsCompare
  <1>6. 1 * g[T] <= count[T]
    BY <1>3, <1>5
  <1> QED BY <1>4, <1>6

-----------------------------------------------------------------------------
(* The same facts for SumFunction.                                         *)
LEMMA SumType ==
  ASSUME NEW S, IsFiniteSet(S), NEW f \in [S -> Nat]
  PROVE  SumFunction(f) \in Nat
  <1>1. PICK g : IsSum(g, f, S) /\ SumFunction(f) = g[S]
    BY SumFunctionIsSum
  <1> QED BY <1>1 DEF IsSum

(* One value is changed. *)
LEMMA SumExcept ==
  ASSUME NEW S, IsFiniteSet(S), NEW f \in [S -> Nat], NEW x \in S, NEW v \in Nat
  PROVE  SumFunction([f EXCEPT ![x] = v]) = SumFunction(f) - f[x] + v
  <1> DEFINE e == [f EXCEPT ![x] = v]
             T == S \ {x}
  <1>1. e \in [S -> Nat] /\ e[x] = v /\ \A y \in T : f[y] = e[y]
    OBVIOUS
  <1>2. PICK g : IsSum(g, f, S) /\ SumFunction(f) = g[S]
    BY SumFunctionIsSum
  <1> HIDE DEF e
  <1>3. PICK h : IsSum(h, e, S) /\ SumFunction(e) = h[S]
    BY <1>1, SumFunctionIsSum
  <1>4. g[T] = h[T]
    BY <1>1, <1>2, <1>3, SumsAgree
  <1>5. g[S] = f[x] + g[T] /\ h[S] = e[x] + h[T] /\ g[T] \in Nat
    BY <1>2, <1>3 DEF IsSum
  <1> QED BY <1>1, <1>2, <1>3, <1>4, <1>5 DEF e

LEMMA SumZero ==
  ASSUME NEW S, IsFiniteSet(S)
  PROVE  SumFunction([x \in S |-> 0]) = 0
  <1> DEFINE f == [x \in S |-> 0]
  <1>1. f \in [S -> Nat]
    OBVIOUS
  <1>2. PICK g : IsSum(g, f, S) /\ SumFunction(f) = g[S]
    BY <1>1, SumFunctionIsSum
  <1>3. IsSum([T \in SUBSET S |-> 0], f, S)
    BY DEF IsSum
  <1>4. g[S] = [T \in SUBSET S |-> 0][S]
    BY <1>2, <1>3, SumsAgree
  <1> QED BY <1>2, <1>4

(* All values are at least m times those of another function. *)
LEMMA SumAtLeast ==
  ASSUME NEW S, IsFiniteSet(S), NEW f \in [S -> Nat], NEW e \in [S -> Nat], NEW m \in Nat,
         \A x \in S : m * f[x] <= e[x]
  PROVE  m * SumFunction(f) <= SumFunction(e)
  <1>1. PICK g : IsSum(g, f, S) /\ SumFunction(f) = g[S]
    BY SumFunctionIsSum
  <1>2. PICK h : IsSum(h, e, S) /\ SumFunction(e) = h[S]
    BY SumFunctionIsSum
  <1>3. m * g[S] <= h[S]
    BY <1>1, <1>2, SumsCompare
  <1> QED BY <1>1, <1>2, <1>3

(* All values are exactly m times those of another function. *)
LEMMA SumScaled ==
  ASSUME NEW S, IsFiniteSet(S), NEW f \in [S -> Nat], NEW e \in [S -> Nat], NEW m \in Nat,
         \A x \in S : e[x] = m * f[x]
  PROVE  SumFunction(e) = m * SumFunction(f)
  <1>1. PICK g : IsSum(g, f, S) /\ SumFunction(f) = g[S]
    BY SumFunctionIsSum
  <1>2. PICK h : IsSum(h, e, S) /\ SumFunction(e) = h[S]
    BY SumFunctionIsSum
  <1> DEFINE k == [T \in SUBSET S |-> m * g[T]]
  <1>3. IsSum(k, e, S)
    <2>1. \A T \in SUBSET S : g[T] \in Nat /\ k[T] = m * g[T]
      BY <1>1 DEF IsSum
    <2>2. k \in [SUBSET S -> Nat] /\ k[{}] = 0
      BY <1>1, <2>1 DEF IsSum
    <2>3. ASSUME NEW T \in SUBSET S, NEW x \in T
          PROVE  k[T] = e[x] + k[T \ {x}]
      <3>1. g[T] = f[x] + g[T \ {x}] /\ f[x] \in Nat /\ g[T \ {x}] \in Nat /\ x \in S
        BY <1>1, <2>1 DEF IsSum
      <3>2. m * (f[x] + g[T \ {x}]) = m * f[x] + m * g[T \ {x}]
        BY <3>1
      <3> QED BY <2>1, <3>1, <3>2
    <2> HIDE DEF k
    <2> QED BY <2>2, <2>3 DEF IsSum
  <1>4. h[S] = k[S]
    BY <1>2, <1>3, SumsAgree
  <1> QED BY <1>1, <1>2, <1>4

ScaledBy(e, f, m, S) ==
  f \in [S -> Nat] /\ e \in [S -> Nat] /\ \A x \in S : e[x] = m * f[x]

LEMMA SumScaledBy ==
  ASSUME NEW S, IsFiniteSet(S), NEW f, NEW e, NEW m \in Nat, ScaledBy(e, f, m, S)
  PROVE  SumFunction(e) = m * SumFunction(f)
  BY SumScaled DEF ScaledBy

(* And for FoldLeft. *)
LEMMA FoldLeftNat ==
  ASSUME NEW s \in Seq(Nat)
  PROVE  FoldLeft(+, 0, s) \in Nat
  <1> DEFINE total == FoldLeft(+, 0, s)
  <1>1. PICK g : IsSum(g, s, 1..Len(s)) /\ total = g[1..Len(s)]
    BY FoldLeftIsSum
  <1> HIDE DEF total
  <1>2. total \in Nat
    BY <1>1 DEF IsSum
  <1> QED BY <1>2 DEF total

(* A sequence grows by one number. *)
LEMMA FoldLeftAppend ==
  ASSUME NEW s \in Seq(Nat), NEW v \in Nat
  PROVE  FoldLeft(+, 0, Append(s, v)) = FoldLeft(+, 0, s) + v
  <1> DEFINE t == Append(s, v)
             n == Len(s)
             S == 1..n
             R == 1..(n + 1)
             before == FoldLeft(+, 0, s)
             after == FoldLeft(+, 0, t)
  <1>1. /\ t \in Seq(Nat) /\ Len(t) = n + 1 /\ n \in Nat
        /\ t[n + 1] = v /\ \A x \in S : s[x] = t[x]
    OBVIOUS
  <1> HIDE DEF t
  <1>2. PICK g : IsSum(g, s, S) /\ before = g[S]
    BY FoldLeftIsSum
  <1>3. PICK h : IsSum(h, t, R) /\ after = h[R]
    <2>1. \E h : IsSum(h, t, 1..Len(t)) /\ after = h[1..Len(t)]
      BY <1>1, FoldLeftIsSum
    <2> HIDE DEF after
    <2> QED BY <1>1, <2>1
  <1> HIDE DEF before, after, n
  <1>4. S \in SUBSET R /\ n + 1 \in R /\ R \ {n + 1} = S
    BY <1>1
  <1>5. IsFiniteSet(S) /\ S \in SUBSET S /\ R \in SUBSET R
    BY <1>1, FS_Interval
  <1> HIDE DEF S, R
  <1>6. g[S] = h[S]
    BY <1>1, <1>2, <1>3, <1>4, <1>5, SumsAgree
  <1>7. h[R] = t[n + 1] + h[S] /\ h[S] \in Nat
    BY <1>3, <1>4, <1>5 DEF IsSum
  <1>8. after = before + v
    BY <1>1, <1>2, <1>3, <1>6, <1>7
  <1> QED BY <1>8 DEF after, before, t

(* A sequence of numbers that are all at least m. *)
LEMMA FoldLeftAtLeast ==
  ASSUME NEW s \in Seq(Nat), NEW m \in Nat, \A x \in 1..Len(s) : m <= s[x]
  PROVE  m * Len(s) <= FoldLeft(+, 0, s)
  <1> DEFINE S == 1..Len(s)
             total == FoldLeft(+, 0, s)
  <1>1. IsFiniteSet(S) /\ Cardinality(S) = Len(s) /\ Len(s) \in Nat
    <2>1. Len(s) \in Nat /\ 1 \in Int /\ Len(s) \in Int
      OBVIOUS
    <2>2. IsFiniteSet(S) /\ Cardinality(S) = IF 1 > Len(s) THEN 0 ELSE Len(s) - 1 + 1
      BY <2>1, FS_Interval
    <2> QED BY <2>1, <2>2
  <1>2. PICK g : IsSum(g, s, S) /\ total = g[S]
    BY FoldLeftIsSum
  <1> HIDE DEF total
  <1>3. (\A x \in S : s[x] \in Nat) /\ (\A x \in S : m <= s[x]) /\ S \in SUBSET S
    OBVIOUS
  <1> HIDE DEF S
  <1>4. m * Cardinality(S) <= g[S]
    BY <1>1, <1>2, <1>3, AtLeastEach
  <1> QED BY <1>1, <1>2, <1>4 DEF total

(* A sequence of numbers that are all at most m, and one of them less. *)
LEMMA FoldLeftBelow ==
  ASSUME NEW s \in Seq(Nat), NEW m \in Nat, \A x \in 1..Len(s) : s[x] <= m,
         NEW y \in 1..Len(s), s[y] < m
  PROVE  FoldLeft(+, 0, s) < m * Len(s)
  <1> DEFINE S == 1..Len(s)
             T == S \ {y}
             total == FoldLeft(+, 0, s)
  <1>1. IsFiniteSet(S) /\ Cardinality(S) = Len(s) /\ Len(s) \in Nat
    <2>1. Len(s) \in Nat /\ 1 \in Int /\ Len(s) \in Int
      OBVIOUS
    <2>2. IsFiniteSet(S) /\ Cardinality(S) = IF 1 > Len(s) THEN 0 ELSE Len(s) - 1 + 1
      BY <2>1, FS_Interval
    <2> QED BY <2>1, <2>2
  <1>2. PICK g : IsSum(g, s, S) /\ total = g[S]
    BY FoldLeftIsSum
  <1> HIDE DEF total
  <1>3. /\ \A x \in S : s[x] \in Nat
        /\ \A x \in T : s[x] <= m
        /\ S \in SUBSET S /\ T \in SUBSET S /\ y \in S /\ s[y] \in Nat
    OBVIOUS
  <1>4. Cardinality(T) = Len(s) - 1
    BY <1>1, FS_RemoveElement
  <1>5. g[S] = s[y] + g[T] /\ g[T] \in Nat
    BY <1>2, <1>3 DEF IsSum
  <1> HIDE DEF S, T
  <1>6. g[T] <= m * Cardinality(T)
    BY <1>1, <1>2, <1>3, AtMostEach
  <1>7. m * (Len(s) - 1) = m * Len(s) - m /\ m * Len(s) \in Nat
    BY <1>1
  <1>8. g[T] <= m * Len(s) - m
    BY <1>4, <1>6, <1>7
  <1>9. g[S] < m * Len(s)
    BY <1>3, <1>5, <1>7, <1>8
  <1> QED BY <1>2, <1>9 DEF total

(* A sequence of zeros. *)
LEMMA FoldLeftZero ==
  ASSUME NEW n \in Nat
  PROVE  FoldLeft(+, 0, [x \in 1..n |-> 0]) = 0
  <1> DEFINE s == [x \in 1..n |-> 0]
             S == 1..n
             total == FoldLeft(+, 0, s)
             none == [T \in SUBSET S |-> 0]
  <1>1. s \in Seq(Nat) /\ Len(s) = n
    OBVIOUS
  <1>2. IsSum(none, s, S)
    BY DEF IsSum
  <1> HIDE DEF s
  <1>3. PICK g : IsSum(g, s, S) /\ total = g[S]
    <2>1. \E g : IsSum(g, s, 1..Len(s)) /\ total = g[1..Len(s)]
      BY <1>1, FoldLeftIsSum
    <2> HIDE DEF total
    <2> QED BY <1>1, <2>1
  <1> HIDE DEF total
  <1>4. IsFiniteSet(S) /\ S \in SUBSET S /\ none[S] = 0
    BY FS_Interval
  <1> HIDE DEF S, none
  <1>5. g[S] = none[S]
    BY <1>2, <1>3, <1>4, SumsAgree
  <1>6. total = 0
    BY <1>3, <1>4, <1>5
  <1> QED BY <1>6 DEF total, s
(* The terms of one sum are those of another, under the names b gives      *)
(* them, and zeros.                                                        *)
Renames(b, A, e, R, f, S) ==
  /\ e \in [R -> Nat] /\ f \in [S -> Nat]
  /\ A \subseteq R /\ \A x \in R \ A : e[x] = 0
  /\ b \in [A -> S] /\ \A x \in A : e[x] = f[b[x]]
  /\ \A x, y \in A : b[x] = b[y] => x = y
  /\ \A z \in S : \E x \in A : b[x] = z

LEMMA SumRenamed ==
  ASSUME NEW R, IsFiniteSet(R), NEW S, IsFiniteSet(S), NEW e, NEW f, NEW A, NEW b,
         Renames(b, A, e, R, f, S)
  PROVE  SumFunction(e) = SumFunction(f)
  <1>0. /\ e \in [R -> Nat] /\ f \in [S -> Nat]
        /\ A \subseteq R /\ \A x \in R \ A : e[x] = 0
        /\ b \in [A -> S] /\ \A x \in A : e[x] = f[b[x]]
        /\ \A x, y \in A : b[x] = b[y] => x = y
        /\ \A z \in S : \E x \in A : b[x] = z
    BY DEF Renames
  <1>1. PICK g : IsSum(g, f, S) /\ SumFunction(f) = g[S]
    BY <1>0, SumFunctionIsSum
  <1>2. PICK k : IsSum(k, e, R) /\ SumFunction(e) = k[R]
    BY <1>0, SumFunctionIsSum
  <1> DEFINE to(T) == {b[x] : x \in T \cap A}
             h == [T \in SUBSET R |-> g[to(T)]]
  <1>3. \A T \in SUBSET R : to(T) \in SUBSET S
    BY <1>0
  <1>4. \A T \in SUBSET R : g[to(T)] \in Nat
    <2> HIDE DEF to
    <2> QED BY <1>1, <1>3 DEF IsSum
  <1>5. to({}) = {} /\ to(R) = S
    BY <1>0
  <1>6. ASSUME NEW T \in SUBSET R, NEW x \in T
        PROVE  g[to(T)] = e[x] + g[to(T \ {x})]
    <2>1. CASE x \in A
      <3>1. b[x] \in to(T) /\ to(T \ {x}) = to(T) \ {b[x]}
        BY <1>0, <2>1
      <3> HIDE DEF to
      <3>2. g[to(T)] = f[b[x]] + g[to(T) \ {b[x]}]
        BY <1>1, <1>3, <3>1 DEF IsSum
      <3> QED BY <1>0, <2>1, <3>1, <3>2
    <2>2. CASE x \notin A
      <3>1. to(T \ {x}) = to(T) /\ e[x] = 0
        BY <1>0, <2>2
      <3>2. g[to(T)] \in Nat
        BY <1>4
      <3> HIDE DEF to
      <3> QED BY <3>1, <3>2
    <2> QED BY <2>1, <2>2
  <1>7. IsSum(h, e, R)
    <2> HIDE DEF to
    <2>1. h \in [SUBSET R -> Nat] /\ h[{}] = 0
      BY <1>1, <1>4, <1>5 DEF IsSum
    <2>2. \A T \in SUBSET R : \A x \in T : h[T] = e[x] + h[T \ {x}]
      BY <1>6
    <2> HIDE DEF h
    <2> QED BY <2>1, <2>2 DEF IsSum
  <1>8. k[R] = h[R]
    <2> HIDE DEF h
    <2>1. R \in SUBSET R /\ \A x \in R : e[x] = e[x]
      OBVIOUS
    <2> QED BY <1>2, <1>7, <2>1, SumsAgree
  <1> HIDE DEF to
  <1> QED BY <1>1, <1>2, <1>5, <1>8

(* The two folds add the same. *)
LEMMA FoldLeftIsSumFunction ==
  ASSUME NEW s \in Seq(Nat)
  PROVE  FoldLeft(+, 0, s) = SumFunction(s)
  <1> DEFINE total == FoldLeft(+, 0, s)
             S == 1..Len(s)
  <1>1. PICK g : IsSum(g, s, 1..Len(s)) /\ total = g[1..Len(s)]
    BY FoldLeftIsSum
  <1> HIDE DEF total
  <1>2. Len(s) \in Nat /\ s \in [1..Len(s) -> Nat]
    BY LenProperties
  <1>3. IsFiniteSet(1..Len(s))
    BY <1>2, FS_Interval
  <1>4. PICK h : IsSum(h, s, S) /\ SumFunction(s) = h[S]
    BY <1>2, <1>3, SumFunctionIsSum
  <1>5. g[S] = h[S]
    BY <1>1, <1>3, <1>4, SumsAgree
  <1>6. total = SumFunction(s)
    BY <1>1, <1>4, <1>5
  <1> QED BY <1>6 DEF total
LEMMA SumPlus ==
  ASSUME NEW S, IsFiniteSet(S), NEW f \in [S -> Nat], NEW e \in [S -> Nat]
  PROVE  SumFunction([x \in S |-> f[x] + e[x]]) = SumFunction(f) + SumFunction(e)
  <1> DEFINE d == [x \in S |-> f[x] + e[x]]
  <1>1. PICK g : IsSum(g, f, S) /\ SumFunction(f) = g[S]
    BY SumFunctionIsSum
  <1>2. PICK h : IsSum(h, e, S) /\ SumFunction(e) = h[S]
    BY SumFunctionIsSum
  <1>3. d \in [S -> Nat]
    OBVIOUS
  <1>4. PICK i : IsSum(i, d, S) /\ SumFunction(d) = i[S]
    <2> HIDE DEF d
    <2> QED BY <1>3, SumFunctionIsSum
  <1> DEFINE k == [T \in SUBSET S |-> g[T] + h[T]]
  <1>5. IsSum(k, d, S)
    <2>1. \A T \in SUBSET S : g[T] \in Nat /\ h[T] \in Nat
      BY <1>1, <1>2 DEF IsSum
    <2>2. k \in [SUBSET S -> Nat] /\ k[{}] = 0
      BY <1>1, <1>2, <2>1 DEF IsSum
    <2>3. ASSUME NEW T \in SUBSET S, NEW x \in T
          PROVE  k[T] = d[x] + k[T \ {x}]
      <3>1. /\ g[T] = f[x] + g[T \ {x}] /\ f[x] \in Nat /\ g[T \ {x}] \in Nat /\ x \in S
            /\ h[T] = e[x] + h[T \ {x}] /\ e[x] \in Nat /\ h[T \ {x}] \in Nat
        BY <1>1, <1>2, <2>1 DEF IsSum
      <3> QED BY <2>1, <3>1
    <2> HIDE DEF k, d
    <2> QED BY <2>2, <2>3 DEF IsSum
  <1>6. i[S] = k[S]
    <2> HIDE DEF k, d
    <2>1. S \in SUBSET S /\ \A x \in S : d[x] = d[x]
      OBVIOUS
    <2> QED BY <1>4, <1>5, <2>1, SumsAgree
  <1> QED BY <1>1, <1>2, <1>4, <1>6

(* One term more by v. *)
AddsAt(e, f, x, v, S) ==
  e \in [S -> Nat] /\ e[x] = f[x] + v /\ \A y \in S \ {x} : e[y] = f[y]

LEMMA SumGrows ==
  ASSUME NEW S, IsFiniteSet(S), NEW f \in [S -> Nat], NEW x \in S, NEW v \in Nat, NEW e, AddsAt(e, f, x, v, S)
  PROVE  SumFunction(e) = SumFunction(f) + v
  <1>1. f[x] \in Nat /\ f[x] + v \in Nat /\ SumFunction(f) \in Nat
    BY SumType
  <1>2. e = [f EXCEPT ![x] = f[x] + v]
    BY DEF AddsAt
  <1>3. SumFunction(e) = SumFunction(f) - f[x] + (f[x] + v)
    BY <1>1, <1>2, SumExcept
  <1> QED BY <1>1, <1>3

(* A sum is the sum of the sums over the parts into which q divides it.    *)
PartSums(g, q, S, P) == [p \in P |-> g[{i \in S : q[i] = p}]]

LEMMA SumOfParts ==
  ASSUME NEW S, IsFiniteSet(S), NEW w \in [S -> Nat], NEW P, IsFiniteSet(P), NEW q \in [S -> P],
         NEW g, IsSum(g, w, S)
  PROVE  SumFunction(PartSums(g, q, S, P)) = g[S]
  <1> DEFINE class(T, p) == {i \in T : q[i] = p}
  <1>1. IsSum(g, w, S)
    OBVIOUS
  <1>2. \A T \in SUBSET S : g[T] \in Nat
    BY <1>1 DEF IsSum
  <1> DEFINE part(T) == [p \in P |-> g[class(T, p)]]
             C == {T \in SUBSET S : SumFunction(part(T)) # g[T]}
  <1>4. \A T \in SUBSET S : part(T) \in [P -> Nat]
    BY <1>2
  <1>5. {} \notin C
    <2>1. part({}) = [p \in P |-> 0]
      <3>1. \A p \in P : class({}, p) = {}
        OBVIOUS
      <3> HIDE DEF class
      <3> QED BY <1>1, <3>1 DEF IsSum
    <2> HIDE DEF part
    <2> QED BY <1>1, <2>1, SumZero DEF IsSum
  <1>6. ASSUME NEW T \in C PROVE \E x \in T : T \ {x} \in C
    <2>1. PICK x \in T : TRUE
      BY <1>5
    <2> SUFFICES ASSUME SumFunction(part(T \ {x})) = g[T \ {x}] PROVE SumFunction(part(T)) = g[T]
      BY <2>1
    <2>2. x \in S /\ q[x] \in P /\ w[x] \in Nat /\ g[T] = w[x] + g[T \ {x}] /\ g[T \ {x}] \in Nat
      BY <1>1, <1>2, <2>1 DEF IsSum
    <2> DEFINE r == part(T \ {x})
               v == r[q[x]] + w[x]
    <2>3. r \in [P -> Nat]
      BY <1>4
    <2>4. part(T) = [r EXCEPT ![q[x]] = v]
      <3>1. class(T \ {x}, q[x]) = class(T, q[x]) \ {x} /\ x \in class(T, q[x])
            /\ class(T, q[x]) \in SUBSET S /\ class(T \ {x}, q[x]) \in SUBSET S
        BY <2>1
      <3>2. \A p \in P : p # q[x] => class(T \ {x}, p) = class(T, p)
        OBVIOUS
      <3> HIDE DEF class
      <3>3. g[class(T, q[x])] = w[x] + g[class(T \ {x}, q[x])]
        BY <1>1, <3>1 DEF IsSum
      <3>4. r[q[x]] = g[class(T \ {x}, q[x])] /\ r[q[x]] \in Nat
        BY <1>2, <2>2, <3>1
      <3>5. v = g[class(T, q[x])]
        BY <2>2, <3>3, <3>4
      <3> HIDE DEF v
      <3> QED BY <2>2, <3>2, <3>5
    <2>5. AddsAt(part(T), r, q[x], w[x], P)
      <3>1. part(T) \in [P -> Nat]
        BY <1>4
      <3> HIDE DEF part, r, C
      <3> QED BY <2>2, <2>3, <2>4, <3>1 DEF AddsAt
    <2> HIDE DEF part, r, C
    <2>6. SumFunction(part(T)) = SumFunction(r) + w[x]
      BY <2>2, <2>3, <2>5, SumGrows
    <2> QED BY <2>2, <2>6 DEF r
  <1>7. C \in SUBSET SUBSET S
    OBVIOUS
  <1>8. C = {}
    <2> HIDE DEF C
    <2> QED BY <1>5, <1>6, <1>7, NoneFails
  <1>9. SumFunction(part(S)) = g[S]
    <2> HIDE DEF part
    <2> QED BY <1>8
  <1> QED BY <1>9 DEF PartSums

(* Terms may be added class by class. *)
AddsClasses(d, w, q, S, P) ==
  /\ w \in [S -> Nat] /\ q \in [S -> P] /\ d \in [P -> Nat]
  /\ \A p \in P : d[p] = SumFunction([i \in S |-> IF q[i] = p THEN w[i] ELSE 0])

LEMMA SumOfClasses ==
  ASSUME NEW S, IsFiniteSet(S), NEW P, IsFiniteSet(P), NEW d, NEW w, NEW q, AddsClasses(d, w, q, S, P)
  PROVE  SumFunction(d) = SumFunction(w)
  <1>0. /\ w \in [S -> Nat] /\ q \in [S -> P] /\ d \in [P -> Nat]
        /\ \A p \in P : d[p] = SumFunction([i \in S |-> IF q[i] = p THEN w[i] ELSE 0])
    BY DEF AddsClasses
  <1> DEFINE class(T, p) == {i \in T : q[i] = p}
  <1>1. PICK g : IsSum(g, w, S) /\ SumFunction(w) = g[S]
    BY <1>0, SumFunctionIsSum
  <1>2. \A T \in SUBSET S : g[T] \in Nat
    BY <1>1 DEF IsSum
  <1>3. ASSUME NEW p \in P PROVE d[p] = g[class(S, p)]
    <2> DEFINE e == [i \in S |-> IF q[i] = p THEN w[i] ELSE 0]
               k == [T \in SUBSET S |-> g[class(T, p)]]
    <2>1. e \in [S -> Nat]
      BY <1>0
    <2>2. PICK h : IsSum(h, e, S) /\ SumFunction(e) = h[S]
      <3> HIDE DEF e
      <3> QED BY <2>1, SumFunctionIsSum
    <2>3. IsSum(k, e, S)
      <3>1. \A T \in SUBSET S : class(T, p) \in SUBSET S
        OBVIOUS
      <3>2. class({}, p) = {}
        OBVIOUS
      <3>3. k \in [SUBSET S -> Nat] /\ k[{}] = 0
        <4> HIDE DEF class
        <4> QED BY <1>1, <1>2, <3>1, <3>2 DEF IsSum
      <3>4. ASSUME NEW T \in SUBSET S, NEW x \in T PROVE k[T] = e[x] + k[T \ {x}]
        <4>1. CASE q[x] = p
          <5>1. x \in class(T, p) /\ class(T \ {x}, p) = class(T, p) \ {x} /\ e[x] = w[x]
            BY <4>1
          <5> HIDE DEF class, e
          <5>2. g[class(T, p)] = w[x] + g[class(T, p) \ {x}]
            BY <1>1, <3>1, <5>1 DEF IsSum
          <5> QED BY <5>1, <5>2
        <4>2. CASE q[x] # p
          <5>1. class(T \ {x}, p) = class(T, p) /\ e[x] = 0
            BY <4>2
          <5>2. g[class(T, p)] \in Nat
            BY <1>2, <3>1
          <5> HIDE DEF class, e
          <5> QED BY <5>1, <5>2
        <4> QED BY <4>1, <4>2
      <3> HIDE DEF k, e
      <3> QED BY <3>3, <3>4 DEF IsSum
    <2>4. h[S] = k[S]
      <3> HIDE DEF k, e
      <3>1. S \in SUBSET S /\ \A x \in S : e[x] = e[x]
        OBVIOUS
      <3> QED BY <2>2, <2>3, <3>1, SumsAgree
    <2>5. d[p] = SumFunction(e)
      BY <1>0
    <2> HIDE DEF class, e
    <2> QED BY <2>2, <2>4, <2>5
  <1>4. d = PartSums(g, q, S, P)
    <2>1. \A p \in P : d[p] = g[class(S, p)]
      BY <1>3
    <2> QED BY <1>0, <2>1 DEF PartSums
  <1>5. SumFunction(PartSums(g, q, S, P)) = g[S]
    BY <1>0, <1>1, SumOfParts
  <1> QED BY <1>1, <1>4, <1>5

(* Two lists, one after the other. *)
LEMMA FoldLeftConcat ==
  ASSUME NEW s \in Seq(Nat), NEW t \in Seq(Nat)
  PROVE  FoldLeft(+, 0, s \o t) = FoldLeft(+, 0, s) + FoldLeft(+, 0, t)
  <1> DEFINE m == Len(s)
             n == Len(t)
             e == [x \in 1..(m + n) |-> IF x <= m THEN s[x] ELSE 0]
             f == [x \in 1..(m + n) |-> IF x <= m THEN 0 ELSE t[x - m]]
             shift == [x \in (m + 1)..(m + n) |-> x - m]
             same == [x \in 1..m |-> x]
  <1>1. /\ m \in Nat /\ s \in [1..m -> Nat] /\ n \in Nat /\ t \in [1..n -> Nat]
        /\ s \o t \in Seq(Nat) /\ s \o t = [x \in 1..(m + n) |-> IF x <= m THEN s[x] ELSE t[x - m]]
    <2>1. m \in Nat /\ s \in [1..m -> Nat] /\ n \in Nat /\ t \in [1..n -> Nat]
      BY LenProperties
    <2>2. /\ s \o t \in Seq(Nat) /\ Len(s \o t) = m + n
          /\ \A x \in 1..(m + n) : (s \o t)[x] = IF x <= m THEN s[x] ELSE t[x - m]
      BY ConcatProperties
    <2> DEFINE c == s \o t
    <2> HIDE DEF c, m, n
    <2>3. c = [x \in 1..(m + n) |-> c[x]]
      BY <2>2, LenProperties DEF c
    <2>4. c = [x \in 1..(m + n) |-> IF x <= m THEN s[x] ELSE t[x - m]]
      BY <2>2, <2>3 DEF c
    <2> QED BY <2>1, <2>2, <2>4 DEF c
  <1> HIDE DEF m, n
  <1>2. e \in [1..(m + n) -> Nat] /\ f \in [1..(m + n) -> Nat]
    BY <1>1
  <1>3. s \o t = [x \in 1..(m + n) |-> e[x] + f[x]]
    BY <1>1
  <1>4. IsFiniteSet(1..(m + n)) /\ IsFiniteSet(1..m) /\ IsFiniteSet(1..n)
    BY <1>1, FS_Interval
  <1>5. Renames(same, 1..m, e, 1..(m + n), s, 1..m)
    BY <1>1, <1>2 DEF Renames
  <1>6. Renames(shift, (m + 1)..(m + n), f, 1..(m + n), t, 1..n)
    <2>1. shift \in [(m + 1)..(m + n) -> 1..n] /\ \A x \in (m + 1)..(m + n) : f[x] = t[shift[x]]
      BY <1>1
    <2>2. \A x, y \in (m + 1)..(m + n) : shift[x] = shift[y] => x = y
      BY <1>1
    <2>3. \A z \in 1..n : z + m \in (m + 1)..(m + n) /\ shift[z + m] = z
      BY <1>1
    <2>4. (m + 1)..(m + n) \subseteq 1..(m + n) /\ \A x \in 1..(m + n) \ (m + 1)..(m + n) : f[x] = 0
      BY <1>1
    <2> HIDE DEF shift, f
    <2> QED BY <1>1, <1>2, <2>1, <2>2, <2>3, <2>4 DEF Renames
  <1> HIDE DEF e, f, shift, same
  <1>7. SumFunction(e) = SumFunction(s) /\ SumFunction(f) = SumFunction(t)
    BY <1>4, <1>5, <1>6, SumRenamed
  <1>8. SumFunction(s \o t) = SumFunction(e) + SumFunction(f)
    <2>1. SumFunction([x \in 1..(m + n) |-> e[x] + f[x]]) = SumFunction(e) + SumFunction(f)
      BY <1>2, <1>4, SumPlus
    <2> QED BY <1>3, <2>1
  <1> DEFINE all == FoldLeft(+, 0, s \o t)
             left == FoldLeft(+, 0, s)
             right == FoldLeft(+, 0, t)
  <1>9. all = SumFunction(s \o t) /\ left = SumFunction(s) /\ right = SumFunction(t)
    BY <1>1, FoldLeftIsSumFunction
  <1> HIDE DEF all, left, right
  <1>10. all = left + right
    BY <1>7, <1>8, <1>9
  <1> QED BY <1>10 DEF all, left, right
LEMMA SumConstant ==
  ASSUME NEW S, IsFiniteSet(S), NEW c \in Nat
  PROVE  SumFunction([x \in S |-> c]) = c * Cardinality(S)
  <1> DEFINE f == [x \in S |-> c]
             k == [T \in SUBSET S |-> c * Cardinality(T)]
  <1>1. f \in [S -> Nat]
    OBVIOUS
  <1>2. IsSum(k, f, S)
    BY ConstantIsSum
  <1>3. k[S] = c * Cardinality(S)
    OBVIOUS
  <1> HIDE DEF f, k
  <1>4. PICK g : IsSum(g, f, S) /\ SumFunction(f) = g[S]
    BY <1>1, SumFunctionIsSum
  <1>5. S \in SUBSET S /\ \A x \in S : f[x] = f[x]
    OBVIOUS
  <1>6. g[S] = k[S]
    BY <1>2, <1>4, <1>5, SumsAgree
  <1> QED BY <1>3, <1>4, <1>6 DEF f

(* The sums of one number and of two. *)
LEMMA FoldLeftShort ==
  ASSUME NEW s \in Seq(Nat)
  PROVE  /\ Len(s) = 0 => FoldLeft(+, 0, s) = 0
         /\ Len(s) = 1 => FoldLeft(+, 0, s) = s[1]
         /\ Len(s) = 2 => FoldLeft(+, 0, s) = s[1] + s[2]
  <1> DEFINE total == FoldLeft(+, 0, s)
  <1>1. PICK g : IsSum(g, s, 1..Len(s)) /\ total = g[1..Len(s)]
    BY FoldLeftIsSum
  <1> HIDE DEF total
  <1>2. Len(s) \in Nat /\ \A i \in 1..Len(s) : s[i] \in Nat
    BY LenProperties, ElementOfSeq
  <1>3. ASSUME Len(s) = 0 PROVE total = 0
    <2>1. 1..Len(s) = {}
      BY <1>3
    <2> QED BY <1>1, <1>3, <2>1 DEF IsSum
  <1>4. ASSUME Len(s) = 1 PROVE total = s[1]
    <2>1. 1..Len(s) = {1} /\ {1} \ {1} = {}
      BY <1>4
    <2>2. g[{1}] = s[1] + g[{1} \ {1}] /\ g[{}] = 0
      BY <1>1, <2>1 DEF IsSum
    <2>5. g[{1}] = s[1] + g[{}]
      BY <2>1, <2>2, Zenon
    <2>3. s[1] \in Nat
      BY <1>2, <1>4
    <2>4. total = g[{1}]
      BY <1>1, <2>1
    <2> QED BY <2>2, <2>3, <2>4, <2>5
  <1>5. ASSUME Len(s) = 2 PROVE total = s[1] + s[2]
    <2>1. 1..Len(s) = {1, 2} /\ {1, 2} \ {2} = {1} /\ {1} \ {1} = {}
      BY <1>5
    <2>2. g[{1, 2}] = s[2] + g[{1, 2} \ {2}] /\ g[{1}] = s[1] + g[{1} \ {1}] /\ g[{}] = 0
      BY <1>1, <2>1 DEF IsSum
    <2>5. g[{1, 2}] = s[2] + g[{1}] /\ g[{1}] = s[1] + g[{}]
      BY <2>1, <2>2, Zenon
    <2>3. s[1] \in Nat /\ s[2] \in Nat
      BY <1>2, <1>5
    <2>4. total = g[{1, 2}]
      BY <1>1, <2>1
    <2> QED BY <2>2, <2>3, <2>4, <2>5
  <1> QED BY <1>3, <1>4, <1>5 DEF total
=============================================================================
