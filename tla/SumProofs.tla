------------------------------ MODULE SumProofs ------------------------------
(***************************************************************************)
(* Sums over finite sets.  The models add up shares and dollars with the   *)
(* folds of the community modules, which are recursive functions; what     *)
(* their invariants need of a sum is stated here once.  Induction over a   *)
(* finite set is stated for a family of sets, in place of a predicate.     *)
(***************************************************************************)
EXTENDS Integers, FiniteSets, Functions, FiniteSetTheorems, TLAPS

Sum(f, S) == FoldFunctionOnSet(LAMBDA x, y : x + y, 0, f, S)

\* The element the folds take out of a set first.
Pick(s) == CHOOSE x \in s : TRUE

-----------------------------------------------------------------------------
\* A set with 0 and the successor of each of its members holds every natural
\* number: one that is missing leaves room for one pigeon less than there are.
LEMMA NatSetInduction ==
    ASSUME NEW S, 0 \in S, \A n \in Nat : n \in S => n + 1 \in S
    PROVE  Nat \subseteq S
<1> SUFFICES ASSUME NEW k \in Nat, k \notin S PROVE FALSE
  OBVIOUS
<1> DEFINE A == {n \in 0..k : n \in S}
           next == [n \in A |-> n + 1]
<1>1. IsFiniteSet(A)
  <2>1. IsFiniteSet(0..k)
    BY FS_Interval
  <2>2. A \in SUBSET (0..k)
    OBVIOUS
  <2> HIDE DEF A
  <2> QED
    BY <2>1, <2>2, FS_Subset
<1>2. 0 \in A
  OBVIOUS
<1>3. \A n \in A : n + 1 \in A \ {0}
  <2>1. ASSUME NEW n \in A
        PROVE  n + 1 \in A \ {0}
    <3>1. n \in Nat /\ n <= k /\ n # k /\ n + 1 \in S
      BY <2>1
    <3>2. n + 1 \in 0..k /\ n + 1 # 0
      BY <3>1
    <3> QED
      BY <3>1, <3>2
  <2> QED
    BY <2>1
<1>4. next \in [A -> A \ {0}]
  BY <1>3
<1>5. \A m, n \in A : next[m] = next[n] => m = n
  OBVIOUS
<1> HIDE DEF A, next
<1>6. IsFiniteSet(A \ {0}) /\ Cardinality(A \ {0}) < Cardinality(A)
  <2>1. Cardinality(A) \in Nat
    BY <1>1, FS_CardinalityType
  <2>2. IsFiniteSet(A \ {0}) /\ Cardinality(A \ {0}) = Cardinality(A) - 1
    BY <1>1, <1>2, FS_RemoveElement
  <2> QED
    BY <2>1, <2>2
<1> QED
  BY <1>1, <1>4, <1>5, <1>6, FS_PigeonHole

\* A family with the empty set that holds a set when it holds it without any
\* one of its elements has every subset of a finite set.
LEMMA SubsetInduction ==
    ASSUME NEW S, IsFiniteSet(S), NEW Q, {} \in Q,
           \A s \in SUBSET S : s # {} /\ (\A x \in s : s \ {x} \in Q) => s \in Q
    PROVE  SUBSET S \subseteq Q
<1> DEFINE N == {n \in Nat : \A s \in SUBSET S : Cardinality(s) = n => s \in Q}
<1>f. \A s \in SUBSET S : IsFiniteSet(s) /\ Cardinality(s) \in Nat
  BY FS_Subset, FS_CardinalityType
<1>1. 0 \in N
  BY <1>f, FS_EmptySet
<1>2. ASSUME NEW n \in Nat, n \in N
      PROVE  n + 1 \in N
  <2>1. ASSUME NEW s \in SUBSET S, Cardinality(s) = n + 1
        PROVE  s \in Q
    <3>1. s # {}
      BY <1>f, <2>1, FS_EmptySet
    <3>2. ASSUME NEW x \in s
          PROVE  s \ {x} \in Q
      <4>1. Cardinality(s \ {x}) = Cardinality(s) - 1
        BY <1>f, FS_RemoveElement
      <4>2. Cardinality(s \ {x}) = n /\ s \ {x} \in SUBSET S
        BY <2>1, <4>1
      <4> QED
        BY <1>2, <4>2
    <3> QED
      BY <3>1, <3>2
  <2> QED
    BY <2>1
<1> HIDE DEF N
<1>3. Nat \subseteq N
  BY <1>1, <1>2, NatSetInduction
<1> QED
  BY <1>3, <1>f DEF N

-----------------------------------------------------------------------------
\* The equation of the fold's recursive function.
SumEqn(g, f, S) ==
    g = [s \in SUBSET S |-> IF s = {} THEN 0 ELSE f[Pick(s)] + g[s \ {Pick(s)}]]

SumFun(f, S) == CHOOSE g : SumEqn(g, f, S)

LEMMA SumIsFold ==
    ASSUME NEW f, NEW S
    PROVE  Sum(f, S) = SumFun(f, S)[S]
  BY DEF Sum, FoldFunctionOnSet, MapThenFoldSet, SumFun, SumEqn, Pick

LEMMA PickIsIn ==
    ASSUME NEW s, s # {}
    PROVE  Pick(s) \in s
  BY DEF Pick

\* The equation has a solution on the subsets of up to k elements, for every k.
LEMMA SumFunExists ==
    ASSUME NEW S, IsFiniteSet(S), NEW f
    PROVE  \E g : SumEqn(g, f, S)
<1> DEFINE D(k) == {s \in SUBSET S : Cardinality(s) <= k}
           Step(g, s) == IF s = {} THEN 0 ELSE f[Pick(s)] + g[s \ {Pick(s)}]
           N == {k \in Nat : \E g : g = [s \in D(k) |-> Step(g, s)]}
<1>f. \A s \in SUBSET S : IsFiniteSet(s) /\ Cardinality(s) \in Nat
  BY FS_Subset, FS_CardinalityType
<1>s. \A s \in SUBSET S : s # {} =>
         s \ {Pick(s)} \in SUBSET S /\ Cardinality(s \ {Pick(s)}) = Cardinality(s) - 1
  BY <1>f, PickIsIn, FS_RemoveElement
<1>1. 0 \in N
  <2> DEFINE g == [s \in D(0) |-> 0]
  <2>1. \A s \in D(0) : s = {}
    BY <1>f, FS_EmptySet
  <2>2. \A s \in D(0) : Step(g, s) = 0
    BY <2>1
  <2>3. g = [s \in D(0) |-> Step(g, s)]
    BY <2>2
  <2> HIDE DEF g, Step
  <2> QED
    BY <2>3
<1>2. ASSUME NEW k \in Nat, k \in N
      PROVE  k + 1 \in N
  <2> PICK g : g = [s \in D(k) |-> Step(g, s)]
    BY <1>2
  <2> DEFINE h == [s \in D(k + 1) |-> IF Cardinality(s) <= k THEN g[s] ELSE Step(g, s)]
  <2>1. ASSUME NEW s \in D(k + 1)
        PROVE  h[s] = Step(h, s)
    <3>1. h[s] = Step(g, s)
      OBVIOUS
    <3>2. CASE s = {}
      BY <3>1, <3>2
    <3>3. CASE s # {}
      <4>1. s \ {Pick(s)} \in SUBSET S /\ Cardinality(s \ {Pick(s)}) <= k
        BY <1>f, <1>s, <3>3
      <4>2. s \ {Pick(s)} \in D(k + 1) /\ Cardinality(s \ {Pick(s)}) \in Nat
        BY <1>f, <4>1
      <4>3. h[s \ {Pick(s)}] = g[s \ {Pick(s)}]
        BY <4>1, <4>2
      <4> HIDE DEF h
      <4> QED
        BY <3>1, <4>3
    <3> QED
      BY <3>2, <3>3
  <2>2. h = [s \in D(k + 1) |-> Step(h, s)]
    <3>1. h = [s \in D(k + 1) |-> h[s]]
      OBVIOUS
    <3> HIDE DEF h, Step, D
    <3> QED
      BY <2>1, <3>1
  <2>3. k + 1 \in Nat
    OBVIOUS
  <2> HIDE DEF h, Step, D
  <2> QED
    BY <2>2, <2>3
<1>3. Cardinality(S) \in N
  <2>1. Nat \subseteq N
    <3> HIDE DEF N
    <3> QED
      BY <1>1, <1>2, NatSetInduction
  <2> QED
    BY <1>f, <2>1
<1>4. D(Cardinality(S)) = SUBSET S
  BY <1>f, FS_Subset
<1>5. PICK g : g = [s \in D(Cardinality(S)) |-> Step(g, s)]
  BY <1>3
<1>6. SumEqn(g, f, S)
  BY <1>4, <1>5 DEF SumEqn
<1> QED
  BY <1>6

LEMMA SumFunEqn ==
    ASSUME NEW S, IsFiniteSet(S), NEW f
    PROVE  \A s \in SUBSET S : SumFun(f, S)[s] =
              IF s = {} THEN 0 ELSE f[Pick(s)] + SumFun(f, S)[s \ {Pick(s)}]
<1>1. SumEqn(SumFun(f, S), f, S)
  BY SumFunExists DEF SumFun
<1> DEFINE g == SumFun(f, S)
<1>2. g = [s \in SUBSET S |-> IF s = {} THEN 0 ELSE f[Pick(s)] + g[s \ {Pick(s)}]]
  BY <1>1 DEF SumEqn
<1> HIDE DEF g
<1>3. \A s \in SUBSET S : g[s] = IF s = {} THEN 0 ELSE f[Pick(s)] + g[s \ {Pick(s)}]
  BY <1>2
<1> QED
  BY <1>3 DEF g

\* On a smaller set the recursion is the same: it does not see the rest.
LEMMA SumFunLocal ==
    ASSUME NEW S, IsFiniteSet(S), NEW T \in SUBSET S, NEW f
    PROVE  \A s \in SUBSET T : SumFun(f, S)[s] = SumFun(f, T)[s]
<1> DEFINE Q == {s \in SUBSET T : SumFun(f, S)[s] = SumFun(f, T)[s]}
<1>1. IsFiniteSet(T)
  BY FS_Subset
<1>2. \A s \in SUBSET S : SumFun(f, S)[s] =
         IF s = {} THEN 0 ELSE f[Pick(s)] + SumFun(f, S)[s \ {Pick(s)}]
  BY SumFunEqn
<1>3. \A s \in SUBSET T : SumFun(f, T)[s] =
         IF s = {} THEN 0 ELSE f[Pick(s)] + SumFun(f, T)[s \ {Pick(s)}]
  BY <1>1, SumFunEqn
<1>4. {} \in Q
  BY <1>2, <1>3
<1>5. ASSUME NEW s \in SUBSET T, s # {}, \A x \in s : s \ {x} \in Q
      PROVE  s \in Q
  <2>1. s \ {Pick(s)} \in Q
    BY <1>5, PickIsIn
  <2>2. SumFun(f, S)[s \ {Pick(s)}] = SumFun(f, T)[s \ {Pick(s)}]
    BY <2>1
  <2> QED
    BY <1>2, <1>3, <1>5, <2>2
<1>6. SUBSET T \subseteq Q
  <2> HIDE DEF Q
  <2> QED
    BY <1>1, <1>4, <1>5, SubsetInduction
<1> QED
  BY <1>6

-----------------------------------------------------------------------------
\* The recursion of the fold, without its function.
LEMMA SumOfNone ==
    ASSUME NEW f
    PROVE  Sum(f, {}) = 0
  BY SumIsFold, SumFunEqn, FS_EmptySet

LEMMA SumPick ==
    ASSUME NEW S, IsFiniteSet(S), S # {}, NEW f
    PROVE  Sum(f, S) = f[Pick(S)] + Sum(f, S \ {Pick(S)})
<1>1. Sum(f, S) = f[Pick(S)] + SumFun(f, S)[S \ {Pick(S)}]
  BY SumIsFold, SumFunEqn
<1>2. S \ {Pick(S)} \in SUBSET S
  OBVIOUS
<1>3. SumFun(f, S)[S \ {Pick(S)}] = SumFun(f, S \ {Pick(S)})[S \ {Pick(S)}]
  BY <1>2, SumFunLocal
<1> QED
  BY <1>1, <1>3, SumIsFold

\* Functions with the same values have the same sum.
LEMMA SumAgrees ==
    ASSUME NEW S, IsFiniteSet(S), NEW f, NEW g, \A x \in S : f[x] = g[x]
    PROVE  Sum(f, S) = Sum(g, S)
<1> DEFINE Q == {s \in SUBSET S : Sum(f, s) = Sum(g, s)}
<1>1. {} \in Q
  BY SumOfNone
<1>2. ASSUME NEW s \in SUBSET S, s # {}, \A x \in s : s \ {x} \in Q
      PROVE  s \in Q
  <2>1. IsFiniteSet(s) /\ Pick(s) \in s
    BY <1>2, FS_Subset, PickIsIn
  <2>2. Sum(f, s \ {Pick(s)}) = Sum(g, s \ {Pick(s)})
    BY <1>2, <2>1
  <2>3. f[Pick(s)] = g[Pick(s)]
    BY <2>1
  <2> QED
    BY <1>2, <2>1, <2>2, <2>3, SumPick
<1>3. SUBSET S \subseteq Q
  <2> HIDE DEF Q
  <2> QED
    BY <1>1, <1>2, SubsetInduction
<1> QED
  BY <1>3

LEMMA SumIsInt ==
    ASSUME NEW S, IsFiniteSet(S), NEW f, \A x \in S : f[x] \in Int
    PROVE  Sum(f, S) \in Int
<1> DEFINE Q == {s \in SUBSET S : Sum(f, s) \in Int}
<1>1. {} \in Q
  BY SumOfNone
<1>2. ASSUME NEW s \in SUBSET S, s # {}, \A x \in s : s \ {x} \in Q
      PROVE  s \in Q
  <2>1. IsFiniteSet(s) /\ Pick(s) \in s
    BY <1>2, FS_Subset, PickIsIn
  <2>2. Sum(f, s \ {Pick(s)}) \in Int
    BY <1>2, <2>1
  <2>3. Sum(f, s) = f[Pick(s)] + Sum(f, s \ {Pick(s)}) /\ f[Pick(s)] \in Int
    BY <1>2, <2>1, SumPick
  <2> QED
    BY <2>2, <2>3
<1>3. SUBSET S \subseteq Q
  <2> HIDE DEF Q
  <2> QED
    BY <1>1, <1>2, SubsetInduction
<1> QED
  BY <1>3

\* Any element may be taken out first.
LEMMA SumWithout ==
    ASSUME NEW S, IsFiniteSet(S), NEW f, \A x \in S : f[x] \in Int, NEW y \in S
    PROVE  Sum(f, S) = f[y] + Sum(f, S \ {y})
<1> DEFINE Q == {s \in SUBSET S : \A x \in s : Sum(f, s) = f[x] + Sum(f, s \ {x})}
<1>1. {} \in Q
  OBVIOUS
<1>2. ASSUME NEW s \in SUBSET S, s # {}, \A x \in s : s \ {x} \in Q
      PROVE  s \in Q
  <2>f. \A t \in SUBSET S : IsFiniteSet(t) /\ Sum(f, t) \in Int
    BY FS_Subset, SumIsInt
  <2> DEFINE p == Pick(s)
  <2>1. p \in s
    BY <1>2, PickIsIn
  <2>2. Sum(f, s) = f[p] + Sum(f, s \ {p})
    BY <1>2, <2>f, SumPick
  <2> HIDE DEF p
  <2>3. ASSUME NEW x \in s, x # p
        PROVE  Sum(f, s) = f[x] + Sum(f, s \ {x})
    <3>1. s \ {p} \in Q /\ s \ {x} \in Q
      BY <1>2, <2>1
    <3>2. Sum(f, s \ {p}) = f[x] + Sum(f, (s \ {p}) \ {x})
      BY <2>3, <3>1
    <3>3. Sum(f, s \ {x}) = f[p] + Sum(f, (s \ {x}) \ {p})
      BY <2>1, <2>3, <3>1
    <3>4. (s \ {p}) \ {x} = (s \ {x}) \ {p}
      OBVIOUS
    <3>5. f[x] \in Int /\ f[p] \in Int /\ Sum(f, (s \ {x}) \ {p}) \in Int
      BY <2>1, <2>f
    <3> PICK r \in Int : r = Sum(f, (s \ {x}) \ {p})
      BY <3>5
    <3>6. Sum(f, s \ {p}) = f[x] + r /\ Sum(f, s \ {x}) = f[p] + r
      BY <3>2, <3>3, <3>4
    <3>7. Sum(f, s) = f[p] + (f[x] + r)
      BY <2>2, <3>6
    <3>8. f[p] + (f[x] + r) = f[x] + (f[p] + r)
      BY <3>5
    <3> QED
      BY <3>6, <3>7, <3>8
  <2> QED
    BY <2>2, <2>3
<1>3. SUBSET S \subseteq Q
  <2> HIDE DEF Q
  <2> QED
    BY <1>1, <1>2, SubsetInduction
<1> QED
  BY <1>3

\* One value changes: the sum changes by as much.
LEMMA SumUpdate ==
    ASSUME NEW S, IsFiniteSet(S), NEW f, NEW g, NEW y \in S,
           \A x \in S : f[x] \in Int /\ g[x] \in Int, \A x \in S \ {y} : g[x] = f[x]
    PROVE  Sum(g, S) = Sum(f, S) - f[y] + g[y]
<1>1. IsFiniteSet(S \ {y})
  BY FS_RemoveElement
<1>2. Sum(f, S) = f[y] + Sum(f, S \ {y}) /\ Sum(g, S) = g[y] + Sum(g, S \ {y})
  BY SumWithout
<1>3. Sum(f, S \ {y}) = Sum(g, S \ {y}) /\ Sum(f, S \ {y}) \in Int
  BY <1>1, SumAgrees, SumIsInt
<1> QED
  BY <1>2, <1>3

\* The sums of functions compare as their values do.
LEMMA SumMonotone ==
    ASSUME NEW S, IsFiniteSet(S), NEW f, NEW g,
           \A x \in S : f[x] \in Int /\ g[x] \in Int /\ f[x] <= g[x]
    PROVE  Sum(f, S) <= Sum(g, S)
<1> DEFINE Q == {s \in SUBSET S : Sum(f, s) <= Sum(g, s)}
<1>1. {} \in Q
  BY SumOfNone
<1>2. ASSUME NEW s \in SUBSET S, s # {}, \A x \in s : s \ {x} \in Q
      PROVE  s \in Q
  <2> DEFINE p == Pick(s)
  <2>1. IsFiniteSet(s) /\ p \in s
    BY <1>2, FS_Subset, PickIsIn
  <2>2. Sum(f, s) = f[p] + Sum(f, s \ {p}) /\ Sum(g, s) = g[p] + Sum(g, s \ {p})
    BY <1>2, <2>1, SumPick
  <2> HIDE DEF p
  <2>3. Sum(f, s \ {p}) <= Sum(g, s \ {p})
    BY <1>2, <2>1
  <2>4. IsFiniteSet(s \ {p})
    BY <2>1, FS_RemoveElement
  <2>5. Sum(f, s \ {p}) \in Int /\ Sum(g, s \ {p}) \in Int
    BY <2>4, SumIsInt
  <2>6. f[p] \in Int /\ g[p] \in Int /\ f[p] <= g[p]
    BY <2>1
  <2> QED
    BY <2>2, <2>3, <2>5, <2>6
<1>3. SUBSET S \subseteq Q
  <2> HIDE DEF Q
  <2> QED
    BY <1>1, <1>2, SubsetInduction
<1> QED
  BY <1>3

\* The sums of two functions add up to the sum of their sum.
LEMMA SumPlus ==
    ASSUME NEW S, IsFiniteSet(S), NEW f, NEW g, NEW h,
           \A x \in S : f[x] \in Int /\ g[x] \in Int /\ h[x] = f[x] + g[x]
    PROVE  Sum(h, S) = Sum(f, S) + Sum(g, S)
<1> DEFINE Q == {s \in SUBSET S : Sum(h, s) = Sum(f, s) + Sum(g, s)}
<1>1. {} \in Q
  BY SumOfNone
<1>2. ASSUME NEW s \in SUBSET S, s # {}, \A x \in s : s \ {x} \in Q
      PROVE  s \in Q
  <2> DEFINE p == Pick(s)
  <2>1. IsFiniteSet(s) /\ p \in s /\ IsFiniteSet(s \ {p})
    BY <1>2, FS_Subset, PickIsIn
  <2>2. /\ Sum(f, s) = f[p] + Sum(f, s \ {p})
        /\ Sum(g, s) = g[p] + Sum(g, s \ {p})
        /\ Sum(h, s) = h[p] + Sum(h, s \ {p})
    BY <1>2, <2>1, SumPick
  <2> HIDE DEF p
  <2>3. Sum(h, s \ {p}) = Sum(f, s \ {p}) + Sum(g, s \ {p})
    BY <1>2, <2>1
  <2>4. Sum(f, s \ {p}) \in Int /\ Sum(g, s \ {p}) \in Int
    BY <2>1, SumIsInt
  <2>5. f[p] \in Int /\ g[p] \in Int /\ h[p] = f[p] + g[p]
    BY <2>1
  <2> QED
    BY <2>2, <2>3, <2>4, <2>5
<1> HIDE DEF Q
<1>3. SUBSET S \subseteq Q
  BY <1>1, <1>2, SubsetInduction
<1> QED
  BY <1>3 DEF Q

\* Elements where a function is zero can be left out of its sum.
LEMMA SumRestrict ==
    ASSUME NEW S, IsFiniteSet(S), NEW T \in SUBSET S, NEW f,
           \A x \in S : f[x] \in Int, \A x \in S \ T : f[x] = 0
    PROVE  Sum(f, S) = Sum(f, T)
<1> DEFINE Q == {s \in SUBSET S : Sum(f, s) = Sum(f, s \cap T)}
<1>1. {} \in Q
  OBVIOUS
<1>2. ASSUME NEW s \in SUBSET S, s # {}, \A x \in s : s \ {x} \in Q
      PROVE  s \in Q
  <2> DEFINE p == Pick(s)
  <2>1. IsFiniteSet(s) /\ p \in s /\ IsFiniteSet(s \cap T) /\ IsFiniteSet(s \ {p})
    BY <1>2, FS_Subset, PickIsIn
  <2>2. Sum(f, s) = f[p] + Sum(f, s \ {p})
    BY <1>2, <2>1, SumPick
  <2> HIDE DEF p
  <2>3. Sum(f, s \ {p}) = Sum(f, (s \ {p}) \cap T)
    BY <1>2, <2>1
  <2>4. Sum(f, s \ {p}) \in Int
    BY <2>1, SumIsInt
  <2>5. CASE p \in T
    <3>1. (s \ {p}) \cap T = (s \cap T) \ {p} /\ p \in s \cap T
      BY <2>1, <2>5
    <3>2. Sum(f, s \cap T) = f[p] + Sum(f, (s \cap T) \ {p})
      BY <2>1, <3>1, SumWithout
    <3> QED
      BY <2>2, <2>3, <3>1, <3>2
  <2>6. CASE p \notin T
    <3>1. (s \ {p}) \cap T = s \cap T /\ f[p] = 0
      BY <2>1, <2>6
    <3>2. Sum(f, s \ {p}) = Sum(f, s \cap T)
      BY <2>3, <3>1
    <3>3. Sum(f, s) = Sum(f, s \ {p})
      BY <2>2, <2>4, <3>1
    <3> QED
      BY <3>2, <3>3
  <2> QED
    BY <2>5, <2>6
<1> HIDE DEF Q
<1>3. SUBSET S \subseteq Q
  BY <1>1, <1>2, SubsetInduction
<1>4. S \cap T = T
  OBVIOUS
<1> QED
  BY <1>3, <1>4 DEF Q

\* Zeros add up to zero.
LEMMA SumOfZeros ==
    ASSUME NEW S, IsFiniteSet(S)
    PROVE  Sum([x \in S |-> 0], S) = 0
<1> DEFINE z == [x \in S |-> 0]
           Q == {s \in SUBSET S : Sum(z, s) = 0}
<1>1. {} \in Q
  BY SumOfNone
<1>2. ASSUME NEW s \in SUBSET S, s # {}, \A x \in s : s \ {x} \in Q
      PROVE  s \in Q
  <2>1. IsFiniteSet(s) /\ Pick(s) \in s
    BY <1>2, FS_Subset, PickIsIn
  <2>2. Sum(z, s) = z[Pick(s)] + Sum(z, s \ {Pick(s)})
    BY <1>2, <2>1, SumPick
  <2>3. z[Pick(s)] = 0 /\ Sum(z, s \ {Pick(s)}) = 0
    BY <1>2, <2>1
  <2> QED
    BY <2>2, <2>3
<1>3. SUBSET S \subseteq Q
  <2> HIDE DEF Q
  <2> QED
    BY <1>1, <1>2, SubsetInduction
<1>4. S \in Q
  BY <1>3
<1> QED
  BY <1>4

\* A sum of naturals is one, and no term of it is larger.
LEMMA SumIsNat ==
    ASSUME NEW S, IsFiniteSet(S), NEW f, \A x \in S : f[x] \in Nat
    PROVE  Sum(f, S) \in Nat /\ \A x \in S : f[x] <= Sum(f, S)
<1>1. ASSUME NEW T \in SUBSET S
      PROVE  Sum(f, T) \in Nat
  <2> DEFINE z == [x \in T |-> 0]
  <2>1. IsFiniteSet(T)
    BY FS_Subset
  <2>2. Sum(z, T) = 0
    BY <2>1, SumOfZeros
  <2>3. \A x \in T : z[x] \in Int /\ f[x] \in Int /\ z[x] <= f[x]
    OBVIOUS
  <2> HIDE DEF z
  <2>4. Sum(z, T) <= Sum(f, T)
    BY <2>1, <2>3, SumMonotone
  <2>5. Sum(f, T) \in Int
    BY <2>1, <2>3, SumIsInt
  <2> QED
    BY <2>2, <2>4, <2>5
<1>2. ASSUME NEW x \in S
      PROVE  f[x] <= Sum(f, S)
  <2>1. Sum(f, S) = f[x] + Sum(f, S \ {x})
    BY SumWithout
  <2>2. Sum(f, S \ {x}) \in Nat /\ f[x] \in Nat
    BY <1>1
  <2> QED
    BY <2>1, <2>2
<1> QED
  BY <1>1, <1>2

\* Every finite set of integers that is not empty has a largest element.
LEMMA FiniteMaximum ==
    ASSUME NEW S, IsFiniteSet(S), S \subseteq Int, S # {}
    PROVE  \E m \in S : \A x \in S : x <= m
<1> DEFINE Q == {s \in SUBSET S : s # {} => \E m \in s : \A x \in s : x <= m}
<1>1. {} \in Q
  OBVIOUS
<1>2. ASSUME NEW s \in SUBSET S, s # {}, \A x \in s : s \ {x} \in Q
      PROVE  s \in Q
  <2> PICK p \in s : TRUE
    BY <1>2
  <2>1. CASE s \ {p} = {}
    BY <2>1
  <2>2. CASE s \ {p} # {}
    <3>1. PICK m \in s \ {p} : \A x \in s \ {p} : x <= m
      BY <1>2, <2>2
    <3>2. m \in Int /\ p \in Int /\ s \subseteq Int
      OBVIOUS
    <3>3. CASE p <= m
      BY <3>1, <3>2, <3>3
    <3>4. CASE m < p
      <4>1. \A x \in s : x <= p
        BY <3>1, <3>2, <3>4
      <4> QED
        BY <4>1
    <3> QED
      BY <3>2, <3>3, <3>4
  <2> QED
    BY <2>1, <2>2
<1>3. SUBSET S \subseteq Q
  <2> HIDE DEF Q
  <2> QED
    BY <1>1, <1>2, SubsetInduction
<1> QED
  BY <1>3
=============================================================================
