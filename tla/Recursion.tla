------------------------------ MODULE Recursion -------------------------------
(***************************************************************************)
(* What the proofs about hook budgets and dropped checkpoints need of      *)
(* numbers and recursive functions: induction stated with sets, what a     *)
(* function defined by recursion on a number is at zero and at a           *)
(* successor, and sums over finite sets.                                   *)
(***************************************************************************)
EXTENDS Integers, Sequences, Functions, FiniteSets, FiniteSetTheorems,
        WellFoundedInduction, TLAPS

LessThan == OpToRel(<, Nat)

\* Below x in the order is what is less than x.
LEMMA LessThanIsLess == \A x, y \in Nat : x < y => <<x, y>> \in LessThan
  BY DEF LessThan, OpToRel

\* Every set of naturals that is not empty has a least element.
LEMMA LeastNatural ==
  ASSUME NEW T, T \subseteq Nat, T # {}
  PROVE  \E x \in T : \A y \in T : x <= y
<1>1. IsWellFoundedOn(LessThan, Nat)
  BY NatLessThanWellFounded DEF LessThan
<1>2. PICK x \in T : \A y \in T : ~ (<<y, x>> \in LessThan)
  BY <1>1, WFMin
<1>3. ASSUME NEW y \in T PROVE x <= y
  <2>1. x \in Nat /\ y \in Nat
    OBVIOUS
  <2>2. ~ (y < x)
    BY <1>2, <2>1, LessThanIsLess
  <2> QED
    BY <2>1, <2>2
<1> QED
  BY <1>3

\* Induction, about the set of the numbers that have a property.
LEMMA SetInduction ==
  ASSUME NEW S, 0 \in S, \A n \in Nat : n \in S => n + 1 \in S
  PROVE  Nat \subseteq S
<1> DEFINE T == Nat \ S
<1>1. SUFFICES ASSUME T # {} PROVE FALSE
  OBVIOUS
<1>2. PICK x \in T : \A y \in T : x <= y
  BY <1>1, LeastNatural
<1>3. x - 1 \in Nat /\ x - 1 \notin T
  BY <1>2
<1> QED
  BY <1>3

\* g is defined on 0..N by recursion from a base value and a step function.
Recursive(g, V, base, step, N) ==
  g \in [0..N -> V] /\ g[0] = base /\ \A n \in 1..N : g[n] = step[n][g[n - 1]]

\* Every recursion defines a function.
LEMMA RecursionDefines ==
  ASSUME NEW V, NEW base \in V, NEW step \in [Nat -> [V -> V]], NEW N \in Nat
  PROVE  \E g : Recursive(g, V, base, step, N)
<1> DEFINE Good(g, n) == /\ g \in [0..n -> V]
                         /\ g[0] = base
                         /\ \A k \in 1..n : g[k] = step[k][g[k - 1]]
           S == {n \in Nat : \E g : Good(g, n)}
<1>1. 0 \in S
  <2>1. Good([k \in 0..0 |-> base], 0)
    OBVIOUS
  <2> QED
    BY <2>1
<1>2. ASSUME NEW n \in Nat, n \in S PROVE n + 1 \in S
  <2>1. PICK g : Good(g, n)
    BY <1>2
  <2>2. PICK v \in V : v = step[n + 1][g[n]]
    BY <2>1
  <2> DEFINE h == [k \in 0..(n + 1) |-> IF k = n + 1 THEN v ELSE g[k]]
  <2>3. h \in [0..(n + 1) -> V] /\ h[0] = base /\ h[n + 1] = v /\ h[n] = g[n]
    BY <2>1
  <2>4. ASSUME NEW k \in 1..(n + 1) PROVE h[k] = step[k][h[k - 1]]
    <3>1. CASE k = n + 1
      BY <3>1, <2>2, <2>3
    <3>2. CASE k # n + 1
      <4>1. k \in 1..n /\ h[k] = g[k] /\ h[k - 1] = g[k - 1]
        BY <3>2
      <4> QED
        BY <4>1, <2>1
    <3> QED
      BY <3>1, <3>2
  <2>5. Good(h, n + 1)
    BY <2>3, <2>4
  <2> HIDE DEF h
  <2>6. \E f : Good(f, n + 1)
    BY <2>5
  <2> QED
    BY <2>6
<1>3. Nat \subseteq S
  <2> HIDE DEF S
  <2> QED
    BY <1>1, <1>2, SetInduction
<1>4. PICK g : Good(g, N)
  BY <1>3
<1> QED
  BY <1>4 DEF Recursive

\* It defines only one.
LEMMA RecursionUnique ==
  ASSUME NEW V, NEW base \in V, NEW step \in [Nat -> [V -> V]], NEW N \in Nat,
         NEW g, Recursive(g, V, base, step, N), NEW f, f[0] = base,
         \A n \in 1..N : f[n - 1] \in V => f[n] = step[n][f[n - 1]]
  PROVE  \A n \in 0..N : f[n] = g[n]
<1> DEFINE T == {n \in Nat : n \in 0..N => f[n] = g[n]}
<1>1. 0 \in T
  BY DEF Recursive
<1>2. ASSUME NEW n \in Nat, n \in T PROVE n + 1 \in T
  <2>1. SUFFICES ASSUME n + 1 \in 0..N PROVE f[n + 1] = g[n + 1]
    OBVIOUS
  <2>2. n \in 0..N /\ n + 1 \in 1..N /\ (n + 1) - 1 = n
    BY <2>1
  <2>3. f[n] = g[n] /\ g[n] \in V
    BY <1>2, <2>2 DEF Recursive
  <2>4. f[n + 1] = step[n + 1][f[n]]
    BY <2>2, <2>3
  <2> QED
    BY <2>2, <2>3, <2>4 DEF Recursive
<1>3. Nat \subseteq T
  <2> HIDE DEF T
  <2> QED
    BY <1>1, <1>2, SetInduction
<1> QED
  BY <1>3

-----------------------------------------------------------------------------
(* Sums of functions over finite sets, SumFunctionOnSet of Functions *)

\* The element a sum over t takes first.
First(t) == CHOOSE x \in t : TRUE

\* f has integer values on S.
IntOn(f, S) == \A x \in S : f[x] \in Int

\* g gives each subset of S its sum, adding first elements first.
Sums(g, f, S) ==
  g = [t \in SUBSET S |-> IF t = {} THEN 0 ELSE f[First(t)] + g[t \ {First(t)}]]

\* f and e have the same values on S.
EqualOn(f, e, S) == \A x \in S : f[x] = e[x]

\* ... and the sums are integers.
IntSums(g, f, S) == g \in [SUBSET S -> Int] /\ Sums(g, f, S)

\* The first element is one of the set.
LEMMA FirstIn == ASSUME NEW t, t # {} PROVE First(t) \in t
  BY DEF First

\* Subsets of a finite set by their size.
LEMMA SizeOfRest ==
  ASSUME NEW S, IsFiniteSet(S), NEW t \in SUBSET S
  PROVE  /\ IsFiniteSet(t) /\ Cardinality(t) \in Nat
         /\ Cardinality(t) = 0 <=> t = {}
         /\ \A x \in t : Cardinality(t \ {x}) = Cardinality(t) - 1
<1>1. IsFiniteSet(t) /\ Cardinality(t) \in Nat
  BY FS_Subset, FS_CardinalityType
<1> QED
  BY <1>1, FS_EmptySet, FS_RemoveElement

\* Such a function exists, and its values are integers.
LEMMA SumsExist ==
  ASSUME NEW S, IsFiniteSet(S), NEW f, IntOn(f, S)
  PROVE  \E g : IntSums(g, f, S)
<1> USE DEF IntOn, IntSums, EqualOn
<1> DEFINE Up(g, n) ==
             /\ g \in [SUBSET S -> Int] /\ g[{}] = 0
             /\ \A t \in SUBSET S : t # {} /\ Cardinality(t) <= n =>
                   g[t] = f[First(t)] + g[t \ {First(t)}]
           N == {n \in Nat : \E g : Up(g, n)}
<1>1. 0 \in N
  <2>1. Up([t \in SUBSET S |-> 0], 0)
    BY SizeOfRest
  <2>2. \E g : Up(g, 0)
    BY <2>1
  <2> QED
    BY <2>2
<1>2. ASSUME NEW n \in Nat, n \in N PROVE n + 1 \in N
  <2>1. PICK g : Up(g, n)
    BY <1>2
  <2> DEFINE h == [t \in SUBSET S |->
                     IF t # {} /\ Cardinality(t) = n + 1
                     THEN f[First(t)] + g[t \ {First(t)}] ELSE g[t]]
  <2>2. h \in [SUBSET S -> Int] /\ h[{}] = 0
    <3>1. ASSUME NEW t \in SUBSET S, t # {} PROVE f[First(t)] + g[t \ {First(t)}] \in Int
      <4>1. First(t) \in S /\ t \ {First(t)} \in SUBSET S
        BY <3>1, FirstIn
      <4> QED
        BY <4>1, <2>1
    <3> QED
      BY <2>1, <3>1
  <2>3. ASSUME NEW t \in SUBSET S, t # {}, Cardinality(t) <= n + 1
        PROVE  h[t] = f[First(t)] + h[t \ {First(t)}]
    <3> DEFINE r == t \ {First(t)}
    <3>1. /\ r \in SUBSET S /\ Cardinality(r) = Cardinality(t) - 1
          /\ Cardinality(t) \in Nat /\ Cardinality(r) \in Nat
      BY <2>3, FirstIn, SizeOfRest
    <3>2. h[r] = g[r]
      BY <3>1, <2>3
    <3>3. h[t] = f[First(t)] + g[r]
      <4>1. CASE Cardinality(t) = n + 1
        BY <4>1, <2>3
      <4>2. CASE Cardinality(t) <= n
        <5>1. h[t] = g[t]
          BY <4>2, <3>1
        <5> QED
          BY <5>1, <4>2, <2>1, <2>3
      <4> QED
        BY <4>1, <4>2, <2>3, <3>1
    <3> QED
      BY <3>2, <3>3
  <2>4. Up(h, n + 1)
    BY <2>2, <2>3
  <2> HIDE DEF h
  <2>5. \E k : Up(k, n + 1)
    BY <2>4
  <2> QED
    BY <2>5
<1>3. Nat \subseteq N
  <2> HIDE DEF N
  <2> QED
    BY <1>1, <1>2, SetInduction
<1>4. Cardinality(S) \in Nat
  BY SizeOfRest
<1>5. PICK g : Up(g, Cardinality(S))
  BY <1>3, <1>4
<1>6. \A t \in SUBSET S : Cardinality(t) <= Cardinality(S)
  BY FS_Subset
<1>7. Sums(g, f, S)
  BY <1>5, <1>6 DEF Sums
<1> QED
  BY <1>5, <1>7

\* The sum does not depend on the order in which elements are added.
LEMMA SumsInAnyOrder ==
  ASSUME NEW S, IsFiniteSet(S), NEW f, IntOn(f, S),
         NEW g, IntSums(g, f, S)
  PROVE  \A t \in SUBSET S : \A x \in t : g[t] = f[x] + g[t \ {x}]
<1> USE DEF IntOn, IntSums, EqualOn
<1> DEFINE N == {n \in Nat : \A t \in SUBSET S : Cardinality(t) <= n =>
                    \A x \in t : g[t] = f[x] + g[t \ {x}]}
<1>1. 0 \in N
  BY SizeOfRest
<1>2. ASSUME NEW n \in Nat, n \in N PROVE n + 1 \in N
  <2> SUFFICES ASSUME NEW t \in SUBSET S, Cardinality(t) <= n + 1, NEW x \in t
               PROVE  g[t] = f[x] + g[t \ {x}]
    OBVIOUS
  <2>1. PICK p \in t : p = First(t)
    BY FirstIn
  <2>2. g[t] = f[p] + g[t \ {p}]
    BY <2>1 DEF Sums
  <2>3. ASSUME NEW y \in t, NEW z \in t, z # y
        PROVE  g[t \ {y}] = f[z] + g[(t \ {y}) \ {z}]
    <3>1. Cardinality(t \ {y}) <= n /\ t \ {y} \in SUBSET S
      BY SizeOfRest
    <3> QED
      BY <3>1, <2>3, <1>2
  <2>4. CASE x = p
    BY <2>2, <2>4
  <2>5. CASE x # p
    <3>1. g[t \ {p}] = f[x] + g[(t \ {p}) \ {x}]
      BY <2>3, <2>5
    <3>2. g[t \ {x}] = f[p] + g[(t \ {x}) \ {p}]
      BY <2>3, <2>5
    <3>3. g[t \ {x}] = f[p] + g[(t \ {p}) \ {x}]
      <4>1. (t \ {x}) \ {p} = (t \ {p}) \ {x}
        OBVIOUS
      <4> QED
        BY <3>2, <4>1
    <3>4. f[x] \in Int /\ f[p] \in Int
      OBVIOUS
    <3>5. g[(t \ {p}) \ {x}] \in Int
      <4>1. (t \ {p}) \ {x} \in SUBSET S
        OBVIOUS
      <4> QED
        BY <4>1
    <3> HIDE DEF N
    <3> QED
      BY <2>2, <3>1, <3>3, <3>4, <3>5
  <2> QED
    BY <2>4, <2>5
<1>3. Nat \subseteq N
  <2> HIDE DEF N
  <2> QED
    BY <1>1, <1>2, SetInduction
<1>4. ASSUME NEW t \in SUBSET S PROVE \A x \in t : g[t] = f[x] + g[t \ {x}]
  <2>1. Cardinality(t) \in Nat
    BY SizeOfRest
  <2>2. Cardinality(t) \in N
    BY <1>3, <2>1
  <2> QED
    BY <2>1, <2>2
<1> QED
  BY <1>4

\* The sum over a set depends on nothing outside it.
LEMMA SumsAgree ==
  ASSUME NEW S, IsFiniteSet(S), NEW f, IntOn(f, S),
         NEW g, IntSums(g, f, S),
         NEW R, R \subseteq S, NEW e, EqualOn(f, e, R),
         NEW h, IntSums(h, e, R)
  PROVE  g[R] = h[R]
<1> USE DEF IntOn, IntSums, EqualOn
<1> DEFINE N == {n \in Nat : \A t \in SUBSET R : Cardinality(t) <= n => g[t] = h[t]}
<1>0. \A t \in SUBSET R : t \in SUBSET S
  OBVIOUS
<1>1. 0 \in N
  <2>1. ASSUME NEW t \in SUBSET R, Cardinality(t) <= 0 PROVE t = {}
    BY <1>0, <2>1, SizeOfRest
  <2> QED
    BY <2>1 DEF Sums
<1>2. ASSUME NEW n \in Nat, n \in N PROVE n + 1 \in N
  <2> SUFFICES ASSUME NEW t \in SUBSET R, Cardinality(t) <= n + 1 PROVE g[t] = h[t]
    OBVIOUS
  <2>1. CASE t = {}
    BY <2>1 DEF Sums
  <2>2. CASE t # {}
    <3>1. First(t) \in t
      BY <2>2, FirstIn
    <3>2. Cardinality(t \ {First(t)}) <= n /\ t \ {First(t)} \in SUBSET R
      BY <1>0, <3>1, SizeOfRest
    <3>3. g[t \ {First(t)}] = h[t \ {First(t)}]
      BY <3>2, <1>2
    <3> QED
      BY <1>0, <2>2, <3>1, <3>3 DEF Sums
  <2> QED
    BY <2>1, <2>2
<1>3. Nat \subseteq N
  <2> HIDE DEF N
  <2> QED
    BY <1>1, <1>2, SetInduction
<1>4. Cardinality(R) \in Nat
  BY <1>0, SizeOfRest
<1> QED
  BY <1>3, <1>4

\* There is one such function.
LEMMA SumsUnique ==
  ASSUME NEW S, IsFiniteSet(S), NEW f, NEW g, Sums(g, f, S),
         NEW h, IntSums(h, f, S)
  PROVE  g = h
<1> USE DEF IntOn, IntSums, EqualOn
<1> DEFINE N == {n \in Nat : \A t \in SUBSET S : Cardinality(t) <= n => g[t] = h[t]}
<1>1. 0 \in N
  <2>1. ASSUME NEW t \in SUBSET S, Cardinality(t) <= 0 PROVE t = {}
    BY <2>1, SizeOfRest
  <2> QED
    BY <2>1 DEF Sums
<1>2. ASSUME NEW n \in Nat, n \in N PROVE n + 1 \in N
  <2> SUFFICES ASSUME NEW t \in SUBSET S, Cardinality(t) <= n + 1 PROVE g[t] = h[t]
    OBVIOUS
  <2>1. CASE t = {}
    BY <2>1 DEF Sums
  <2>2. CASE t # {}
    <3>1. First(t) \in t
      BY <2>2, FirstIn
    <3>2. Cardinality(t \ {First(t)}) <= n /\ t \ {First(t)} \in SUBSET S
      BY <3>1, SizeOfRest
    <3>3. g[t \ {First(t)}] = h[t \ {First(t)}]
      BY <3>2, <1>2
    <3> QED
      BY <2>2, <3>3 DEF Sums
  <2> QED
    BY <2>1, <2>2
<1>3. Nat \subseteq N
  <2> HIDE DEF N
  <2> QED
    BY <1>1, <1>2, SetInduction
<1>4. ASSUME NEW t \in SUBSET S PROVE g[t] = h[t]
  BY <1>3, SizeOfRest
<1> QED
  BY <1>4 DEF Sums

\* A sum over a set is the value of such a function.
LEMMA SumIsOne ==
  ASSUME NEW S, IsFiniteSet(S), NEW f, IntOn(f, S)
  PROVE  \E g : IntSums(g, f, S) /\ SumFunctionOnSet(f, S) = g[S]
<1> DEFINE iter == CHOOSE g : Sums(g, f, S)
<1>1. PICK k : IntSums(k, f, S)
  BY SumsExist
<1>2. Sums(iter, f, S)
  BY <1>1 DEF IntSums
<1>3. SumFunctionOnSet(f, S) = iter[S]
  BY DEF SumFunctionOnSet, FoldFunctionOnSet, MapThenFoldSet, Sums, First
<1> HIDE DEF iter
<1>4. iter = k
  BY <1>1, <1>2, SumsUnique
<1> QED
  BY <1>1, <1>3, <1>4

\* A sum is an integer, zero over no elements; any element can be taken out first.
LEMMA SumProperties ==
  ASSUME NEW S, IsFiniteSet(S), NEW f, IntOn(f, S)
  PROVE  /\ SumFunctionOnSet(f, S) \in Int
         /\ S = {} => SumFunctionOnSet(f, S) = 0
         /\ \A x \in S : SumFunctionOnSet(f, S) = f[x] + SumFunctionOnSet(f, S \ {x})
<1>1. PICK g : IntSums(g, f, S) /\ SumFunctionOnSet(f, S) = g[S]
  BY SumIsOne
<1>2. g[S] \in Int /\ (S = {} => g[S] = 0)
  BY <1>1 DEF IntSums, Sums
<1>3. ASSUME NEW x \in S
      PROVE  SumFunctionOnSet(f, S) = f[x] + SumFunctionOnSet(f, S \ {x})
  <2> DEFINE R == S \ {x}
  <2>1. IsFiniteSet(R) /\ IntOn(f, R) /\ EqualOn(f, f, R)
    BY FS_Subset DEF IntOn, EqualOn
  <2> HIDE DEF R
  <2>2. PICK h : IntSums(h, f, R) /\ SumFunctionOnSet(f, R) = h[R]
    BY <2>1, SumIsOne
  <2>3. R \subseteq S
    BY DEF R
  <2>4. g[R] = h[R]
    BY <1>1, <2>1, <2>2, <2>3, SumsAgree
  <2>5. g[S] = f[x] + g[S \ {x}]
    BY <1>1, SumsInAnyOrder
  <2> QED
    BY <1>1, <2>2, <2>4, <2>5 DEF R
<1> QED
  BY <1>1, <1>2, <1>3

\* Functions that agree on a set have the same sum over it.
LEMMA SumOfEqual ==
  ASSUME NEW S, IsFiniteSet(S), NEW f, IntOn(f, S), NEW e, EqualOn(f, e, S)
  PROVE  SumFunctionOnSet(f, S) = SumFunctionOnSet(e, S)
<1>1. PICK g : IntSums(g, f, S) /\ SumFunctionOnSet(f, S) = g[S]
  BY SumIsOne
<1>0. IntOn(e, S)
  BY DEF IntOn, EqualOn
<1>2. PICK h : IntSums(h, e, S) /\ SumFunctionOnSet(e, S) = h[S]
  BY <1>0, SumIsOne
<1>3. S \subseteq S
  OBVIOUS
<1>4. g[S] = h[S]
  BY <1>1, <1>2, <1>3, SumsAgree
<1> QED
  BY <1>1, <1>2, <1>4

\* The sum of zeros is zero.
LEMMA SumOfZeros ==
  ASSUME NEW S, IsFiniteSet(S), NEW f, \A x \in S : f[x] = 0
  PROVE  SumFunctionOnSet(f, S) = 0
<1> DEFINE N == {n \in Nat : \A t \in SUBSET S : Cardinality(t) = n =>
                                SumFunctionOnSet(f, t) = 0}
<1>0. ASSUME NEW t \in SUBSET S PROVE IsFiniteSet(t) /\ IntOn(f, t)
  BY FS_Subset DEF IntOn
<1>1. 0 \in N
  BY <1>0, SizeOfRest, SumProperties
<1>2. ASSUME NEW n \in Nat, n \in N PROVE n + 1 \in N
  <2> SUFFICES ASSUME NEW t \in SUBSET S, Cardinality(t) = n + 1
               PROVE  SumFunctionOnSet(f, t) = 0
    OBVIOUS
  <2>1. PICK x \in t : TRUE
    BY SizeOfRest
  <2>2. Cardinality(t \ {x}) = n /\ t \ {x} \in SUBSET S
    BY <2>1, SizeOfRest
  <2>3. SumFunctionOnSet(f, t \ {x}) = 0
    BY <2>2, <1>2
  <2>4. SumFunctionOnSet(f, t) = f[x] + SumFunctionOnSet(f, t \ {x})
    BY <1>0, <2>1, SumProperties
  <2> QED
    BY <2>3, <2>4
<1>3. Nat \subseteq N
  <2> HIDE DEF N
  <2> QED
    BY <1>1, <1>2, SetInduction
<1>4. Cardinality(S) \in Nat
  BY SizeOfRest
<1> QED
  BY <1>3, <1>4

\* The sum of naturals over a part of a set is at most that over the set.
LEMMA SumOfPart ==
  ASSUME NEW S, IsFiniteSet(S), NEW f, \A x \in S : f[x] \in Nat, NEW T, T \subseteq S
  PROVE  0 <= SumFunctionOnSet(f, T) /\ SumFunctionOnSet(f, T) <= SumFunctionOnSet(f, S)
<1> DEFINE Least(t) == 0 <= SumFunctionOnSet(f, t)
                       /\ SumFunctionOnSet(f, t \cap T) <= SumFunctionOnSet(f, t)
           N == {n \in Nat : \A t \in SUBSET S : Cardinality(t) = n => Least(t)}
<1>0. ASSUME NEW t \in SUBSET S
      PROVE  IsFiniteSet(t) /\ IntOn(f, t) /\ SumFunctionOnSet(f, t) \in Int
  <2>1. IsFiniteSet(t) /\ IntOn(f, t)
    BY FS_Subset DEF IntOn
  <2> QED
    BY <2>1, SumProperties
<1>1. 0 \in N
  <2>1. SumFunctionOnSet(f, {}) = 0
    BY <1>0, SumProperties
  <2>2. ASSUME NEW t \in SUBSET S, Cardinality(t) = 0 PROVE Least(t)
    <3>1. t = {} /\ t \cap T = {}
      BY <2>2, SizeOfRest
    <3> QED
      BY <2>1, <3>1
  <2> QED
    BY <2>2
<1>2. ASSUME NEW n \in Nat, n \in N PROVE n + 1 \in N
  <2> SUFFICES ASSUME NEW t \in SUBSET S, Cardinality(t) = n + 1 PROVE Least(t)
    OBVIOUS
  <2>1. PICK x \in t : TRUE
    BY SizeOfRest
  <2> DEFINE r == t \ {x}
  <2>2. Cardinality(r) = n /\ r \in SUBSET S
    BY <2>1, SizeOfRest
  <2>3. Least(r)
    BY <2>2, <1>2
  <2>4. SumFunctionOnSet(f, t) = f[x] + SumFunctionOnSet(f, r)
    BY <1>0, <2>1, SumProperties
  <2>5. SumFunctionOnSet(f, t \cap T) <= f[x] + SumFunctionOnSet(f, r \cap T)
    <3>1. CASE x \in T
      <4>1. (t \cap T) \ {x} = r \cap T /\ x \in t \cap T /\ t \cap T \in SUBSET S
        BY <2>1, <3>1
      <4>2. SumFunctionOnSet(f, t \cap T)
               = f[x] + SumFunctionOnSet(f, (t \cap T) \ {x})
        BY <4>1, <1>0, SumProperties
      <4>3. SumFunctionOnSet(f, t \cap T) = f[x] + SumFunctionOnSet(f, r \cap T)
        BY <4>1, <4>2
      <4>4. SumFunctionOnSet(f, t \cap T) \in Int
        BY <4>1, <1>0
      <4> HIDE DEF r
      <4> QED
        BY <4>3, <4>4
    <3>2. CASE x \notin T
      <4>1. t \cap T = r \cap T
        BY <3>2
      <4>2. SumFunctionOnSet(f, r \cap T) \in Int /\ f[x] \in Nat
        <5>1. r \cap T \in SUBSET S
          OBVIOUS
        <5> QED
          BY <5>1, <1>0, <2>1
      <4> HIDE DEF r
      <4> QED
        BY <4>1, <4>2
    <3> QED
      BY <3>1, <3>2
  <2>6. /\ SumFunctionOnSet(f, r) \in Int /\ SumFunctionOnSet(f, r \cap T) \in Int
        /\ f[x] \in Nat /\ SumFunctionOnSet(f, t \cap T) \in Int
    <3>1. r \cap T \in SUBSET S /\ t \cap T \in SUBSET S /\ r \in SUBSET S
      OBVIOUS
    <3> HIDE DEF r
    <3> QED
      BY <3>1, <1>0, <2>1
  <2> HIDE DEF r, N
  <2> QED
    BY <2>3, <2>4, <2>5, <2>6
<1>3. Nat \subseteq N
  <2> HIDE DEF N
  <2> QED
    BY <1>1, <1>2, SetInduction
<1>4. Least(S) /\ Least(T)
  <2>1. Cardinality(S) \in N /\ Cardinality(T) \in N
    BY <1>3, SizeOfRest
  <2> QED
    BY <2>1
<1>5. S \cap T = T
  OBVIOUS
<1> QED
  BY <1>4, <1>5
===============================================================================
