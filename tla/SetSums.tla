-------------------------------- MODULE SetSums --------------------------------
(***************************************************************************)
(* Induction over the natural numbers in a first-order form, and with it   *)
(* the facts about MapThenSumSet that counters of bytes rest on.           *)
(***************************************************************************)
EXTENDS Integers, FiniteSets, FiniteSetsExt, FiniteSetTheorems,
        WellFoundedInduction, TLAPS

-------------------------------------------------------------------------------
(* Induction.                                                                  *)

\* A set of numbers that is not empty has a least element.
LEMMA LeastNat ==
  ASSUME NEW T \in SUBSET Nat, T # {}
  PROVE  \E n \in T : \A m \in T : n <= m
  <1>1. PICK n \in T : \A m \in T : ~(<<m, n>> \in OpToRel(<, Nat))
    BY WFMin, NatLessThanWellFounded
  <1>2. \A m \in T : ~(m < n)
    BY <1>1 DEF OpToRel
  <1> QED
    BY <1>2

\* A set that holds 0 and the successor of each of its numbers holds them all.
LEMMA SetInduction ==
  ASSUME NEW P, 0 \in P, \A n \in Nat : n \in P => n + 1 \in P
  PROVE  Nat \subseteq P
  <1> SUFFICES ASSUME Nat \ P # {} PROVE FALSE
    OBVIOUS
  <1>1. PICK n \in Nat \ P : \A m \in Nat \ P : n <= m
    BY LeastNat
  <1>2. n - 1 \in Nat /\ n - 1 \in P
    BY <1>1
  <1> QED
    BY <1>2

-------------------------------------------------------------------------------
(* The recursion behind MapThenSumSet has a solution, and only one.            *)

Pick(s) == CHOOSE x \in s : TRUE

\* One unfolding of the sum of the weights w over a set s.
Unfold(g, w, s) == IF s = {} THEN 0 ELSE w[Pick(s)] + g[s \ {Pick(s)}]

SumEq(g, w, D) == g = [s \in D |-> Unfold(g, w, s)]

SumFcn(w, S) == CHOOSE g : SumEq(g, w, SUBSET S)

\* The sum of w[x] over the elements x of S.
Sum(w, S) == MapThenSumSet(LAMBDA x : w[x], S)

\* The fold is the value of the recursive function at S.
LEMMA SumIsRecursive ==
  ASSUME NEW w, NEW S
  PROVE  Sum(w, S) = SumFcn(w, S)[S]
  BY DEF Sum, MapThenSumSet, MapThenFoldSet, SumFcn, SumEq, Unfold, Pick

\* Taking the chosen element away from a finite set makes it smaller.
LEMMA PickFacts ==
  ASSUME NEW s, IsFiniteSet(s), s # {}
  PROVE  /\ Pick(s) \in s
         /\ IsFiniteSet(s \ {Pick(s)})
         /\ Cardinality(s) \in Nat \ {0}
         /\ Cardinality(s \ {Pick(s)}) = Cardinality(s) - 1
  <1>1. Pick(s) \in s
    BY DEF Pick
  <1>2. Cardinality(s) \in Nat /\ Cardinality(s) # 0
    BY FS_CardinalityType, FS_EmptySet
  <1> QED
    BY <1>1, <1>2, FS_RemoveElement

\* The recursive equation has a solution on the subsets of a finite set.
LEMMA SumFcnExists ==
  ASSUME NEW w, NEW S, IsFiniteSet(S)
  PROVE  \E g : SumEq(g, w, SUBSET S)
  <1> DEFINE D(n) == {s \in SUBSET S : Cardinality(s) <= n}
             P    == {n \in Nat : \E g : SumEq(g, w, D(n))}
  <1>1. \A s \in SUBSET S : IsFiniteSet(s) /\ Cardinality(s) \in Nat
    BY FS_Subset, FS_CardinalityType
  <1>2. 0 \in P
    <2> DEFINE g == [s \in D(0) |-> 0]
    <2>1. \A s \in D(0) : s = {}
      BY <1>1, FS_EmptySet
    <2>2. SumEq(g, w, D(0))
      BY <2>1 DEF SumEq, Unfold
    <2> QED
      BY <2>2
  <1>3. ASSUME NEW n \in Nat, n \in P
        PROVE  n + 1 \in P
    <2>1. PICK g : SumEq(g, w, D(n))
      BY <1>3
    <2> DEFINE h == [s \in D(n + 1) |-> Unfold(g, w, s)]
    <2>2. \A s \in D(n) : h[s] = g[s]
      <3>1. \A s \in D(n) : s \in D(n + 1)
        BY <1>1
      <3>2. \A s \in D(n) : g[s] = Unfold(g, w, s)
        BY <2>1 DEF SumEq
      <3> QED
        BY <3>1, <3>2
    <2>3. \A s \in D(n + 1) : s # {} => s \ {Pick(s)} \in D(n)
      <3> SUFFICES ASSUME NEW s \in D(n + 1), s # {} PROVE s \ {Pick(s)} \in D(n)
        OBVIOUS
      <3>1. Cardinality(s \ {Pick(s)}) = Cardinality(s) - 1 /\ Cardinality(s) \in Nat
        BY <1>1, PickFacts
      <3> QED
        BY <3>1
    <2> HIDE DEF D
    <2>4. \A s \in D(n + 1) : Unfold(g, w, s) = Unfold(h, w, s)
      BY <2>2, <2>3 DEF Unfold
    <2>5. SumEq(h, w, D(n + 1))
      BY <2>4 DEF SumEq
    <2> HIDE DEF h
    <2>6. \E k : SumEq(k, w, D(n + 1))
      BY <2>5
    <2> QED
      BY <2>6
  <1>4. Cardinality(S) \in P
    <2> HIDE DEF P
    <2> QED
      BY <1>1, <1>2, <1>3, SetInduction
  <1>5. D(Cardinality(S)) = SUBSET S
    BY FS_Subset
  <1> QED
    BY <1>4, <1>5

\* The function that the fold computes satisfies its equation.
LEMMA SumFcnIsSum ==
  ASSUME NEW w, NEW S, IsFiniteSet(S)
  PROVE  SumEq(SumFcn(w, S), w, SUBSET S)
  BY SumFcnExists DEF SumFcn

\* Two solutions agree where both are defined and the weights are the same.
LEMMA SumsAgree ==
  ASSUME NEW v, NEW w, NEW A, NEW B, IsFiniteSet(A), NEW f, NEW g,
         SumEq(f, v, SUBSET A), SumEq(g, w, SUBSET B),
         \A x \in A \cap B : v[x] = w[x],
         NEW s \in SUBSET (A \cap B)
  PROVE  f[s] = g[s]
  <1> DEFINE P == {n \in Nat : \A t \in SUBSET (A \cap B) : Cardinality(t) = n => f[t] = g[t]}
  <1>1. \A t \in SUBSET (A \cap B) : IsFiniteSet(t) /\ Cardinality(t) \in Nat
    BY FS_Subset, FS_CardinalityType
  <1>2. \A t \in SUBSET (A \cap B) : f[t] = Unfold(f, v, t) /\ g[t] = Unfold(g, w, t)
    BY DEF SumEq
  <1>3. 0 \in P
    <2>1. \A t \in SUBSET (A \cap B) : Cardinality(t) = 0 => t = {}
      BY <1>1, FS_EmptySet
    <2> QED
      BY <1>2, <2>1 DEF Unfold
  <1>4. ASSUME NEW n \in Nat, n \in P
        PROVE  n + 1 \in P
    <2> SUFFICES ASSUME NEW t \in SUBSET (A \cap B), Cardinality(t) = n + 1
                 PROVE  f[t] = g[t]
      OBVIOUS
    <2>1. t # {}
      BY FS_EmptySet
    <2>2. Pick(t) \in A \cap B /\ t \ {Pick(t)} \in SUBSET (A \cap B)
      BY <1>1, <2>1, PickFacts
    <2>3. Cardinality(t \ {Pick(t)}) = n
      BY <1>1, <2>1, PickFacts
    <2>4. f[t \ {Pick(t)}] = g[t \ {Pick(t)}]
      BY <1>4, <2>2, <2>3
    <2> QED
      BY <1>2, <2>1, <2>2, <2>4 DEF Unfold
  <1> HIDE DEF P
  <1>5. Cardinality(s) \in P
    BY <1>1, <1>3, <1>4, SetInduction
  <1> QED
    BY <1>5 DEF P

-------------------------------------------------------------------------------
(* What the sum is.                                                            *)

\* The sum over the empty set is 0.
LEMMA SumEmpty ==
  ASSUME NEW w
  PROVE  Sum(w, {}) = 0
  <1>1. SumEq(SumFcn(w, {}), w, SUBSET {})
    BY SumFcnIsSum, FS_EmptySet
  <1> QED
    BY <1>1, SumIsRecursive DEF SumEq, Unfold

\* The sum depends on the weights of its elements only.
LEMMA SumSame ==
  ASSUME NEW v, NEW w, NEW S, IsFiniteSet(S), \A x \in S : v[x] = w[x]
  PROVE  Sum(v, S) = Sum(w, S)
  <1>1. SumEq(SumFcn(v, S), v, SUBSET S) /\ SumEq(SumFcn(w, S), w, SUBSET S)
    BY SumFcnIsSum
  <1>2. S \in SUBSET (S \cap S)
    OBVIOUS
  <1>3. SumFcn(v, S)[S] = SumFcn(w, S)[S]
    BY <1>1, <1>2, SumsAgree
  <1> QED
    BY <1>3, SumIsRecursive

\* The sum takes out the chosen element first.
LEMMA SumPick ==
  ASSUME NEW w, NEW S, IsFiniteSet(S), S # {}
  PROVE  Sum(w, S) = w[Pick(S)] + Sum(w, S \ {Pick(S)})
  <1> DEFINE R == S \ {Pick(S)}
  <1>1. IsFiniteSet(R)
    BY PickFacts
  <1>2. SumEq(SumFcn(w, S), w, SUBSET S) /\ SumEq(SumFcn(w, R), w, SUBSET R)
    BY <1>1, SumFcnIsSum
  <1>3. R \in SUBSET (S \cap R)
    OBVIOUS
  <1>4. SumFcn(w, S)[R] = SumFcn(w, R)[R]
    <2> HIDE DEF R
    <2> QED
      BY <1>2, <1>3, SumsAgree
  <1>5. SumFcn(w, S)[S] = w[Pick(S)] + SumFcn(w, S)[R]
    BY <1>2 DEF SumEq, Unfold
  <1> QED
    BY <1>4, <1>5, SumIsRecursive

\* A sum of integers is an integer.
LEMMA SumType ==
  ASSUME NEW w, NEW S, IsFiniteSet(S), \A x \in S : w[x] \in Int
  PROVE  Sum(w, S) \in Int
  <1> DEFINE P == {n \in Nat : \A t \in SUBSET S : Cardinality(t) = n => Sum(w, t) \in Int}
  <1>1. \A t \in SUBSET S : IsFiniteSet(t) /\ Cardinality(t) \in Nat
    BY FS_Subset, FS_CardinalityType
  <1>2. 0 \in P
    BY <1>1, FS_EmptySet, SumEmpty
  <1>3. ASSUME NEW n \in Nat, n \in P
        PROVE  n + 1 \in P
    <2> SUFFICES ASSUME NEW t \in SUBSET S, Cardinality(t) = n + 1
                 PROVE  Sum(w, t) \in Int
      OBVIOUS
    <2>1. t # {}
      BY FS_EmptySet
    <2>2. Pick(t) \in S /\ t \ {Pick(t)} \in SUBSET S /\ Cardinality(t \ {Pick(t)}) = n
      BY <1>1, <2>1, PickFacts
    <2>3. Sum(w, t \ {Pick(t)}) \in Int
      BY <1>3, <2>2
    <2>4. Sum(w, t) = w[Pick(t)] + Sum(w, t \ {Pick(t)})
      BY <1>1, <2>1, SumPick
    <2> QED
      BY <2>2, <2>3, <2>4
  <1> HIDE DEF P
  <1>4. Cardinality(S) \in P
    BY <1>1, <1>2, <1>3, SetInduction
  <1> QED
    BY <1>4 DEF P

\* A sum of natural numbers is a natural number.
LEMMA SumNat ==
  ASSUME NEW w, NEW S, IsFiniteSet(S), \A x \in S : w[x] \in Nat
  PROVE  Sum(w, S) \in Nat
  <1> DEFINE P == {n \in Nat : \A t \in SUBSET S : Cardinality(t) = n => Sum(w, t) \in Nat}
  <1>1. \A t \in SUBSET S : IsFiniteSet(t) /\ Cardinality(t) \in Nat
    BY FS_Subset, FS_CardinalityType
  <1>2. 0 \in P
    BY <1>1, FS_EmptySet, SumEmpty
  <1>3. ASSUME NEW n \in Nat, n \in P
        PROVE  n + 1 \in P
    <2> SUFFICES ASSUME NEW t \in SUBSET S, Cardinality(t) = n + 1
                 PROVE  Sum(w, t) \in Nat
      OBVIOUS
    <2>1. t # {}
      BY FS_EmptySet
    <2>2. Pick(t) \in S /\ t \ {Pick(t)} \in SUBSET S /\ Cardinality(t \ {Pick(t)}) = n
      BY <1>1, <2>1, PickFacts
    <2>3. Sum(w, t \ {Pick(t)}) \in Nat
      BY <1>3, <2>2
    <2>4. Sum(w, t) = w[Pick(t)] + Sum(w, t \ {Pick(t)})
      BY <1>1, <2>1, SumPick
    <2> QED
      BY <2>2, <2>3, <2>4
  <1> HIDE DEF P
  <1>4. Cardinality(S) \in P
    BY <1>1, <1>2, <1>3, SetInduction
  <1> QED
    BY <1>4 DEF P

\* Any element can be taken out first: the order of a sum does not matter.
LEMMA SumRemove ==
  ASSUME NEW w, NEW S, IsFiniteSet(S), \A x \in S : w[x] \in Int, NEW e \in S
  PROVE  Sum(w, S) = w[e] + Sum(w, S \ {e})
  <1> DEFINE Out(t) == \A x \in t : Sum(w, t) = w[x] + Sum(w, t \ {x})
             P == {n \in Nat : \A t \in SUBSET S : Cardinality(t) = n => Out(t)}
  <1>1. \A t \in SUBSET S : IsFiniteSet(t) /\ Cardinality(t) \in Nat
    BY FS_Subset, FS_CardinalityType
  <1>2. 0 \in P
    BY <1>1, FS_EmptySet
  <1>3. ASSUME NEW n \in Nat, n \in P
        PROVE  n + 1 \in P
    <2> SUFFICES ASSUME NEW t \in SUBSET S, Cardinality(t) = n + 1, NEW x \in t
                 PROVE  Sum(w, t) = w[x] + Sum(w, t \ {x})
      OBVIOUS
    <2> DEFINE y == Pick(t)
    <2>1. IsFiniteSet(t) /\ t # {}
      BY <1>1
    <2>2. y \in t /\ Sum(w, t) = w[y] + Sum(w, t \ {y})
      BY <2>1, PickFacts, SumPick
    <2> HIDE DEF y
    <2>3. CASE x = y
      BY <2>2, <2>3
    <2>4. CASE x # y
      <3>1. Cardinality(t \ {x}) = n /\ Cardinality(t \ {y}) = n
        <4>1. Cardinality(t \ {x}) = Cardinality(t) - 1
          BY <2>1, FS_RemoveElement
        <4>2. Cardinality(t \ {y}) = Cardinality(t) - 1
          BY <2>1, <2>2, FS_RemoveElement
        <4> QED
          BY <4>1, <4>2
      <3>2. /\ Sum(w, t \ {y}) = w[x] + Sum(w, (t \ {y}) \ {x})
            /\ Sum(w, t \ {x}) = w[y] + Sum(w, (t \ {x}) \ {y})
        BY <1>3, <2>2, <2>4, <3>1
      <3>3. (t \ {y}) \ {x} = (t \ {x}) \ {y}
        OBVIOUS
      <3>4. Sum(w, (t \ {x}) \ {y}) \in Int
        BY <1>1, SumType
      <3>5. w[x] \in Int /\ w[y] \in Int
        BY <2>2
      <3> DEFINE r == Sum(w, (t \ {x}) \ {y})
      <3>6. Sum(w, t) = w[y] + (w[x] + r)
        BY <2>2, <3>2, <3>3, Zenon
      <3>7. Sum(w, t \ {x}) = w[y] + r
        BY <3>2
      <3>8. r \in Int
        BY <3>4
      <3> HIDE DEF r
      <3> QED
        BY <3>5, <3>6, <3>7, <3>8
    <2> QED
      BY <2>3, <2>4
  <1> HIDE DEF P
  <1>4. Cardinality(S) \in P
    BY <1>1, <1>2, <1>3, SetInduction
  <1> QED
    BY <1>4 DEF P

\* A new element adds its weight.
LEMMA SumAdd ==
  ASSUME NEW w, NEW S, IsFiniteSet(S), NEW e, e \notin S,
         \A x \in S \cup {e} : w[x] \in Int
  PROVE  Sum(w, S \cup {e}) = w[e] + Sum(w, S)
  <1>1. IsFiniteSet(S \cup {e})
    BY FS_AddElement
  <1>2. (S \cup {e}) \ {e} = S
    OBVIOUS
  <1>3. Sum(w, S \cup {e}) = w[e] + Sum(w, (S \cup {e}) \ {e})
    BY <1>1, SumRemove
  <1> QED
    BY <1>2, <1>3

====
