---------------------------- MODULE SumTheorems -----------------------------
(***************************************************************************)
(* Sums over finite sets: what MapThenSumSet of the community modules      *)
(* computes, whatever elements it picks first.  The library's induction    *)
(* theorems take an operator; here a property is the set of what has it.   *)
(***************************************************************************)
EXTENDS Integers, FiniteSets, FiniteSetTheorems, WellFoundedInduction, TLAPS

\* The element that the folds of the community modules pick.
First(s) == CHOOSE x \in s : TRUE

\* g[s] is the sum of v over s, for every subset s of S.
Adds(g, v, S) ==
  g = [s \in SUBSET S |-> IF s = {} THEN 0 ELSE v[First(s)] + g[s \ {First(s)}]]

-----------------------------------------------------------------------------
(* Induction.                                                              *)

\* A set of naturals with 0 and every successor is all of them.
LEMMA AllNaturals ==
  ASSUME NEW G \in SUBSET Nat, 0 \in G, \A n \in G : n + 1 \in G
  PROVE  G = Nat
<1> SUFFICES ASSUME Nat \ G # {} PROVE FALSE
  OBVIOUS
<1>1. PICK n \in Nat \ G : \A m \in Nat \ G : <<m, n>> \notin OpToRel(<, Nat)
  BY NatLessThanWellFounded, WFMin
<1>2. n - 1 \in Nat /\ n - 1 < n /\ (n - 1) + 1 = n
  OBVIOUS
<1>3. n - 1 \in G
  BY <1>1, <1>2 DEF OpToRel
<1> QED
  BY <1>1, <1>2, <1>3

\* So is a set of subsets that has each one whose smaller ones it has.
LEMMA AllSubsets ==
  ASSUME NEW S, IsFiniteSet(S), NEW G,
         \A T \in SUBSET S : (\A U \in SUBSET T : U # T => U \in G) => T \in G
  PROVE  SUBSET S \subseteq G
<1> DEFINE Bad == {T \in SUBSET S : T \notin G}
<1> SUFFICES ASSUME Bad # {} PROVE FALSE
  OBVIOUS
<1>1. IsWellFoundedOn(StrictSubsetOrdering(S), SUBSET S)
  <2>1. IsWellFoundedOn(StrictSubsetOrdering(S), FiniteSubsetsOf(S))
    BY FS_StrictSubsetOrderingWellFounded
  <2>2. FiniteSubsetsOf(S) = SUBSET S
    BY FS_FiniteSubsetsOfFinite
  <2> QED
    BY <2>1, <2>2
<1>2. PICK T \in Bad : \A U \in Bad : <<U, T>> \notin StrictSubsetOrdering(S)
  <2>1. Bad \subseteq SUBSET S
    OBVIOUS
  <2> HIDE DEF Bad
  <2> QED
    BY <1>1, <2>1, WFMin
<1>3. \A U \in SUBSET T : U # T => U \in G
  BY <1>2 DEF StrictSubsetOrdering
<1> QED
  BY <1>2, <1>3

-----------------------------------------------------------------------------
(* Sums exist.                                                             *)

\* What is picked of a set is in it.
LEMMA FirstIn == \A s : s # {} => First(s) \in s
  BY DEF First

\* Sums over the subsets of at most n elements.
Small(S, n) == {s \in SUBSET S : Cardinality(s) <= n}
AddsUpto(g, v, S, n) ==
  /\ g \in [Small(S, n) -> Int]
  /\ \A s \in Small(S, n) : g[s] = IF s = {} THEN 0 ELSE v[First(s)] + g[s \ {First(s)}]

\* Sets are built one element at a time.
LEMMA SmallSets ==
  ASSUME NEW S, IsFiniteSet(S), NEW n \in Nat
  PROVE  /\ Cardinality(S) \in Nat /\ Small(S, Cardinality(S)) = SUBSET S
         /\ Small(S, n) \subseteq Small(S, n + 1)
         /\ \A s \in Small(S, 0) : s = {}
         /\ \A s \in Small(S, n + 1) : s # {} => First(s) \in S /\ s \ {First(s)} \in Small(S, n)
<1>1. \A s \in SUBSET S : IsFiniteSet(s) /\ Cardinality(s) \in Nat /\ Cardinality(s) <= Cardinality(S)
  BY FS_Subset, FS_CardinalityType
<1>2. \A s \in SUBSET S : Cardinality(s) = 0 => s = {}
  BY <1>1, FS_EmptySet
<1>3. ASSUME NEW s \in SUBSET S, s # {}
      PROVE  /\ First(s) \in S /\ s \ {First(s)} \in SUBSET S
             /\ Cardinality(s \ {First(s)}) = Cardinality(s) - 1
  <2>1. First(s) \in s /\ IsFiniteSet(s)
    BY <1>1, <1>3, FirstIn
  <2> QED
    BY <2>1, FS_RemoveElement
<1>4. \A s \in Small(S, 0) : s = {}
  <2> SUFFICES ASSUME NEW s \in Small(S, 0) PROVE s = {}
    OBVIOUS
  <2>1. s \in SUBSET S /\ Cardinality(s) <= 0
    BY DEF Small
  <2>2. Cardinality(s) = 0
    BY <1>1, <2>1
  <2> QED
    BY <1>2, <2>1, <2>2
<1>5. Small(S, Cardinality(S)) = SUBSET S /\ Cardinality(S) \in Nat
  BY <1>1 DEF Small
<1>6. Small(S, n) \subseteq Small(S, n + 1)
  BY <1>1 DEF Small
<1>7. ASSUME NEW s \in Small(S, n + 1), s # {}
      PROVE  First(s) \in S /\ s \ {First(s)} \in Small(S, n)
  BY <1>1, <1>3, <1>7 DEF Small
<1> QED
  BY <1>4, <1>5, <1>6, <1>7

\* A sum of integers over a finite set is defined.
LEMMA SumExists ==
  ASSUME NEW S, IsFiniteSet(S), NEW v \in [S -> Int]
  PROVE  \E g : Adds(g, v, S)
<1> DEFINE G == {n \in Nat : \E g : AddsUpto(g, v, S, n)}
<1>1. 0 \in G
  <2> DEFINE g == [s \in Small(S, 0) |-> 0]
  <2>1. \A s \in Small(S, 0) : s = {}
    BY SmallSets
  <2>2. AddsUpto(g, v, S, 0)
    BY <2>1 DEF AddsUpto
  <2> HIDE DEF g
  <2> QED
    BY <2>2
<1>2. ASSUME NEW n \in G PROVE n + 1 \in G
  <2>1. n \in Nat
    OBVIOUS
  <2>2. PICK g : AddsUpto(g, v, S, n)
    OBVIOUS
  <2> SUFFICES \E h : AddsUpto(h, v, S, n + 1)
    BY <2>1
  <2> HIDE DEF G
  <2> DEFINE H == [s \in Small(S, n + 1) |-> IF s = {} THEN 0 ELSE v[First(s)] + g[s \ {First(s)}]]
  <2> SUFFICES ASSUME NEW h, h = H PROVE AddsUpto(h, v, S, n + 1)
    OBVIOUS
  <2>3. \A s \in Small(S, n + 1) : s # {} => First(s) \in S /\ s \ {First(s)} \in Small(S, n)
    BY <2>1, SmallSets
  <2>4. \A s \in Small(S, n + 1) : h[s] = IF s = {} THEN 0 ELSE v[First(s)] + g[s \ {First(s)}]
    OBVIOUS
  <2>5. h \in [Small(S, n + 1) -> Int]
    <3>1. \A s \in Small(S, n) : g[s] \in Int
      BY <2>2 DEF AddsUpto
    <3>2. \A s \in Small(S, n + 1) : s # {} => v[First(s)] + g[s \ {First(s)}] \in Int
      BY <2>3, <3>1
    <3> QED
      BY <3>2
  <2>6. ASSUME NEW s \in Small(S, n) PROVE h[s] = g[s]
    <3>1. s \in Small(S, n + 1)
      BY <2>1, SmallSets
    <3>2. g[s] = IF s = {} THEN 0 ELSE v[First(s)] + g[s \ {First(s)}]
      BY <2>2 DEF AddsUpto
    <3> QED
      BY <2>4, <3>1, <3>2
  <2>7. \A s \in Small(S, n + 1) : s # {} => h[s \ {First(s)}] = g[s \ {First(s)}]
    BY <2>3, <2>6
  <2> QED
    BY <2>4, <2>5, <2>7 DEF AddsUpto
<1>3. Cardinality(S) \in G
  <2>1. G \in SUBSET Nat
    OBVIOUS
  <2> HIDE DEF G
  <2>2. G = Nat
    BY <1>1, <1>2, <2>1, AllNaturals
  <2> QED
    BY <2>2, FS_CardinalityType
<1>4. PICK g : AddsUpto(g, v, S, Cardinality(S))
  BY <1>3
<1>5. Small(S, Cardinality(S)) = SUBSET S
  <2>1. 0 \in Nat
    OBVIOUS
  <2> QED
    BY <2>1, SmallSets
<1>6. /\ g \in [SUBSET S -> Int]
      /\ \A s \in SUBSET S : g[s] = IF s = {} THEN 0 ELSE v[First(s)] + g[s \ {First(s)}]
  BY <1>4, <1>5 DEF AddsUpto
<1>7. Adds(g, v, S)
  BY <1>6 DEF Adds
<1> QED
  BY <1>7

-----------------------------------------------------------------------------
(* What they are.                                                          *)

\* It is an integer.
LEMMA SumTyped ==
  ASSUME NEW S, IsFiniteSet(S), NEW v \in [S -> Int], NEW g, Adds(g, v, S)
  PROVE  /\ g[{}] = 0
         /\ \A T \in SUBSET S : g[T] \in Int
         /\ \A T \in SUBSET S : T # {} => First(T) \in T /\ g[T] = v[First(T)] + g[T \ {First(T)}]
<1>1. \A T \in SUBSET S : g[T] = IF T = {} THEN 0 ELSE v[First(T)] + g[T \ {First(T)}]
  BY DEF Adds
<1>2. g[{}] = 0
  BY <1>1
<1> DEFINE G == {T \in SUBSET S : g[T] \in Int}
<1>3. ASSUME NEW T \in SUBSET S, \A U \in SUBSET T : U # T => U \in G PROVE T \in G
  <2>1. CASE T = {}
    BY <1>2, <2>1
  <2>2. CASE T # {}
    <3>1. First(T) \in T
      BY <2>2, FirstIn
    <3>2. T \ {First(T)} \in G
      BY <1>3, <3>1
    <3>3. g[T \ {First(T)}] \in Int /\ v[First(T)] \in Int
      BY <3>1, <3>2
    <3>4. g[T] = v[First(T)] + g[T \ {First(T)}]
      BY <1>1, <2>2
    <3> QED
      BY <3>3, <3>4
  <2> QED
    BY <2>1, <2>2
<1>4. SUBSET S \subseteq G
  <2> HIDE DEF G
  <2> QED
    BY <1>3, AllSubsets
<1>5. \A T \in SUBSET S : T # {} => First(T) \in T
  BY FirstIn
<1> QED
  BY <1>1, <1>2, <1>4, <1>5

\* Any element may be taken out.
LEMMA SumWithout ==
  ASSUME NEW S, IsFiniteSet(S), NEW v \in [S -> Int], NEW g, Adds(g, v, S)
  PROVE  \A T \in SUBSET S : \A a \in T : g[T] = v[a] + g[T \ {a}]
<1> DEFINE G == {T \in SUBSET S : \A a \in T : g[T] = v[a] + g[T \ {a}]}
<1>1. ASSUME NEW T \in SUBSET S, \A U \in SUBSET T : U # T => U \in G PROVE T \in G
  <2> SUFFICES ASSUME NEW a \in T PROVE g[T] = v[a] + g[T \ {a}]
    OBVIOUS
  <2> DEFINE c == First(T)
  <2>1. c \in T /\ g[T] = v[c] + g[T \ {c}]
    <3>1. T # {}
      OBVIOUS
    <3> QED
      BY <3>1, SumTyped
  <2>2. CASE a = c
    BY <2>1, <2>2
  <2>3. CASE a # c
    <3>1. T \ {c} \in G /\ T \ {a} \in G /\ a \in T \ {c} /\ c \in T \ {a}
      BY <1>1, <2>1, <2>3
    <3>2. g[T \ {c}] = v[a] + g[(T \ {c}) \ {a}] /\ g[T \ {a}] = v[c] + g[(T \ {a}) \ {c}]
      BY <3>1
    <3>3. (T \ {c}) \ {a} = (T \ {a}) \ {c}
      OBVIOUS
    <3>4. v[a] \in Int /\ v[c] \in Int /\ g[(T \ {a}) \ {c}] \in Int
      BY <2>1, SumTyped
    <3> HIDE DEF c
    <3>5. g[T] = v[c] + (v[a] + g[(T \ {a}) \ {c}])
      BY <2>1, <3>2, <3>3
    <3>6. g[T \ {a}] = v[c] + g[(T \ {a}) \ {c}]
      BY <3>2
    <3> QED
      BY <3>4, <3>5, <3>6
  <2> QED
    BY <2>2, <2>3
<1>2. SUBSET S \subseteq G
  <2> HIDE DEF G
  <2> QED
    BY <1>1, AllSubsets
<1> QED
  BY <1>2

\* Each element that is taken out takes its value with it.
Peels(g, v, S) == \A T \in SUBSET S, a \in S : a \in T => g[T] = v[a] + g[T \ {a}]

\* SumWithout, for every subset and element at once.
LEMMA SumPeels ==
  ASSUME NEW S, IsFiniteSet(S), NEW v \in [S -> Int], NEW g, Adds(g, v, S)
  PROVE  Peels(g, v, S)
<1>1. ASSUME NEW T \in SUBSET S, NEW a \in S, a \in T PROVE g[T] = v[a] + g[T \ {a}]
  BY <1>1, SumWithout
<1> QED
  BY <1>1 DEF Peels

\* A sum of what is nowhere less is no less.
LEMMA SumMonotone ==
  ASSUME NEW S, IsFiniteSet(S), NEW v \in [S -> Int], NEW w \in [S -> Int], NEW g, NEW h,
         Adds(g, v, S), Adds(h, w, S)
  PROVE  \A T \in SUBSET S : (\A x \in T : v[x] <= w[x]) => g[T] <= h[T]
<1> DEFINE G == {T \in SUBSET S : (\A x \in T : v[x] <= w[x]) => g[T] <= h[T]}
<1>1. ASSUME NEW T \in SUBSET S, \A U \in SUBSET T : U # T => U \in G PROVE T \in G
  <2> SUFFICES ASSUME \A x \in T : v[x] <= w[x] PROVE g[T] <= h[T]
    OBVIOUS
  <2>1. CASE T = {}
    BY <2>1, SumTyped
  <2>2. CASE T # {}
    <3> DEFINE c == First(T)
    <3>1. c \in T /\ T \ {c} \in SUBSET S /\ T \ {c} # T
      BY <2>2, FirstIn
    <3>2. g[T] = v[c] + g[T \ {c}] /\ h[T] = w[c] + h[T \ {c}]
      BY <3>1, SumWithout
    <3>3. g[T \ {c}] <= h[T \ {c}]
      BY <1>1, <3>1
    <3>4. v[c] \in Int /\ w[c] \in Int /\ g[T \ {c}] \in Int /\ h[T \ {c}] \in Int /\ v[c] <= w[c]
      BY <3>1, SumTyped
    <3> HIDE DEF c
    <3> QED
      BY <3>2, <3>3, <3>4
  <2> QED
    BY <2>1, <2>2
<1>2. SUBSET S \subseteq G
  <2> HIDE DEF G
  <2> QED
    BY <1>1, AllSubsets
<1> QED
  BY <1>2

\* What is equal adds up to the same.
LEMMA SumSame ==
  ASSUME NEW S, IsFiniteSet(S), NEW v \in [S -> Int], NEW w \in [S -> Int], NEW g, NEW h,
         Adds(g, v, S), Adds(h, w, S)
  PROVE  \A T \in SUBSET S : (\A x \in T : v[x] = w[x]) => g[T] = h[T]
<1> SUFFICES ASSUME NEW T \in SUBSET S, \A x \in T : v[x] = w[x] PROVE g[T] = h[T]
  OBVIOUS
<1>1. \A x \in T : v[x] <= w[x] /\ w[x] <= v[x]
  OBVIOUS
<1>2. g[T] <= h[T] /\ h[T] <= g[T]
  BY <1>1, SumMonotone
<1>3. g[T] \in Int /\ h[T] \in Int
  BY SumTyped
<1> QED
  BY <1>2, <1>3

\* Summing over a part of S is summing over the part alone.
LEMMA SumRestricts ==
  ASSUME NEW S, IsFiniteSet(S), NEW R \in SUBSET S,
         NEW v \in [S -> Int], NEW w \in [R -> Int], NEW g, NEW h,
         Adds(g, v, S), Adds(h, w, R), \A x \in R : v[x] = w[x]
  PROVE  g[R] = h[R]
<1>0. IsFiniteSet(R)
  BY FS_Subset
<1>g. Peels(g, v, S)
  BY SumPeels
<1>h. Peels(h, w, R)
  BY <1>0, SumPeels
<1> DEFINE G == {T \in SUBSET R : g[T] = h[T]}
<1>1. ASSUME NEW T \in SUBSET R, \A U \in SUBSET T : U # T => U \in G PROVE T \in G
  <2>1. CASE T = {}
    <3>1. g[{}] = 0 /\ h[{}] = 0
      BY <1>0, SumTyped
    <3> QED
      BY <2>1, <3>1
  <2>2. CASE T # {}
    <3> DEFINE c == First(T)
    <3>1. c \in T /\ T \in SUBSET S /\ T \ {c} \in SUBSET T /\ T \ {c} # T
      BY <2>2, FirstIn
    <3>2. g[T] = v[c] + g[T \ {c}]
      BY <1>g, <3>1 DEF Peels
    <3>3. h[T] = w[c] + h[T \ {c}]
      BY <1>h, <3>1 DEF Peels
    <3>4. g[T \ {c}] = h[T \ {c}]
      BY <1>1, <3>1
    <3> HIDE DEF c
    <3> QED
      BY <3>1, <3>2, <3>3, <3>4
  <2> QED
    BY <2>1, <2>2
<1>2. SUBSET R \subseteq G
  <2> HIDE DEF G
  <2> QED
    BY <1>0, <1>1, AllSubsets
<1> QED
  BY <1>2

\* What counts for nothing may be left out.
LEMMA SumWithoutZeros ==
  ASSUME NEW S, IsFiniteSet(S), NEW v \in [S -> Int], NEW g, Adds(g, v, S),
         NEW R \in SUBSET S, \A x \in S \ R : v[x] = 0
  PROVE  g[S] = g[R]
<1> DEFINE G == {T \in SUBSET S : R \subseteq T => g[T] = g[R]}
<1>1. ASSUME NEW T \in SUBSET S, \A U \in SUBSET T : U # T => U \in G PROVE T \in G
  <2> SUFFICES ASSUME R \subseteq T PROVE g[T] = g[R]
    OBVIOUS
  <2>1. CASE T = R
    BY <2>1
  <2>2. CASE T # R
    <3>1. PICK c \in T : c \notin R
      BY <2>2
    <3>2. T \ {c} \in SUBSET T /\ T \ {c} # T /\ R \subseteq T \ {c} /\ c \in S \ R
      BY <3>1
    <3>3. g[T] = v[c] + g[T \ {c}]
      BY <3>1, SumWithout
    <3>4. g[T \ {c}] = g[R]
      BY <1>1, <3>2
    <3>5. v[c] = 0 /\ g[R] \in Int
      BY <3>2, SumTyped
    <3> QED
      BY <3>3, <3>4, <3>5
  <2> QED
    BY <2>1, <2>2
<1>2. SUBSET S \subseteq G
  <2> HIDE DEF G
  <2> QED
    BY <1>1, AllSubsets
<1> QED
  BY <1>2

\* Where v changes at a only, the sum changes by as much.
LEMMA SumChanges ==
  ASSUME NEW S, IsFiniteSet(S), NEW v \in [S -> Int], NEW w \in [S -> Int], NEW g, NEW h,
         Adds(g, v, S), Adds(h, w, S), NEW a \in S, \A x \in S : x # a => v[x] = w[x]
  PROVE  h[S] = g[S] + w[a] - v[a]
<1>1. g[S] = v[a] + g[S \ {a}] /\ h[S] = w[a] + h[S \ {a}]
  BY SumWithout
<1>2. S \ {a} \in SUBSET S /\ \A x \in S \ {a} : v[x] = w[x]
  OBVIOUS
<1>3. g[S \ {a}] = h[S \ {a}] /\ g[S \ {a}] \in Int /\ v[a] \in Int /\ w[a] \in Int
  <2>1. g[S \ {a}] = h[S \ {a}]
    BY <1>2, SumSame
  <2>2. g[S \ {a}] \in Int
    BY <1>2, SumTyped
  <2> QED
    BY <2>1, <2>2
<1> QED
  BY <1>1, <1>3
=============================================================================
