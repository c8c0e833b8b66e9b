-------------------------- MODULE FiniteInduction --------------------------
(***************************************************************************)
(* What the proofs need about finite data: induction over the naturals and *)
(* over the subsets of a finite set, least elements, sums over finite      *)
(* sets, quotients, and sequences whose elements have no set of their own. *)
(* Induction is stated on the set of the numbers, or of the sets, that a   *)
(* fact holds for, so that no lemma takes an operator.                     *)
(***************************************************************************)
EXTENDS Integers, Sequences, FiniteSetsExt, FiniteSetTheorems, WellFoundedInduction, TLAPS

-----------------------------------------------------------------------------
(* The naturals *)

\* Induction: a set of naturals with zero and every successor has them all.
LEMMA SetInduction ==
  ASSUME NEW T \in SUBSET Nat, 0 \in T, \A n \in T : n + 1 \in T
  PROVE  T = Nat
<1> SUFFICES ASSUME T # Nat  PROVE FALSE
  OBVIOUS
<1>1. PICK x \in Nat \ T : \A y \in Nat \ T : ~(<<y, x>> \in OpToRel(<, Nat))
  <2> HIDE DEF OpToRel
  <2>1. Nat \ T \subseteq Nat /\ Nat \ T # {}
    OBVIOUS
  <2> QED  BY <2>1, NatLessThanWellFounded, WFMin
<1>2. x \in Nat /\ x \notin T
  OBVIOUS
<1>3. x # 0
  BY <1>2, Zenon
<1>4. x - 1 \in Nat /\ (x - 1) + 1 = x
  BY <1>2, <1>3
<1>5. <<x - 1, x>> \in OpToRel(<, Nat)
  BY <1>2, <1>4 DEF OpToRel
<1>6. x - 1 \in T
  BY <1>1, <1>4, <1>5, Zenon
<1> QED  BY <1>2, <1>4, <1>6, Zenon

\* The least element of a set of naturals, which stops publish() and flush().
LEMMA LeastNat ==
  ASSUME NEW T \in SUBSET Nat, T # {}
  PROVE  Min(T) \in T /\ \A y \in T : Min(T) <= y
<1>1. PICK x \in T : \A y \in T : ~(<<y, x>> \in OpToRel(<, Nat))
  <2> HIDE DEF OpToRel
  <2> QED  BY NatLessThanWellFounded, WFMin
<1>2. \A y \in T : x <= y
  <2>1. ASSUME NEW y \in T, ~(x <= y)  PROVE FALSE
    <3>1. <<y, x>> \in OpToRel(<, Nat)
      BY <2>1 DEF OpToRel
    <3> QED  BY <1>1, <3>1, Zenon
  <2> QED  BY <2>1
<1>3. \E z \in T : \A y \in T : z =< y
  BY <1>2
<1> HIDE DEF Min
<1> QED  BY <1>3, Zenon DEF Min

-----------------------------------------------------------------------------
(* Finite sets *)

\* Induction: a set of subsets of a finite U that has the empty set, and every
\* set with one element more, has them all.
LEMMA SubsetInduction ==
  ASSUME NEW U, IsFiniteSet(U), NEW T \in SUBSET SUBSET U, {} \in T,
         \A s \in T : \A x \in U \ s : s \cup {x} \in T
  PROVE  T = SUBSET U
<1> DEFINE N == {n \in Nat : \A s \in SUBSET U : Cardinality(s) = n => s \in T}
<1>1. \A s \in SUBSET U : IsFiniteSet(s) /\ Cardinality(s) \in Nat
  BY FS_Subset, FS_CardinalityType
<1>2. 0 \in N
  BY <1>1, FS_EmptySet
<1>3. ASSUME NEW n \in N  PROVE n + 1 \in N
  <2>1. ASSUME NEW s \in SUBSET U, Cardinality(s) = n + 1  PROVE s \in T
    <3>1. s # {}
      BY <1>1, <2>1, FS_EmptySet
    <3>2. PICK x \in s : TRUE
      BY <3>1
    <3>3. Cardinality(s \ {x}) = n
      BY <1>1, <2>1, <3>2, FS_RemoveElement
    <3>4. s \ {x} \in T /\ s = (s \ {x}) \cup {x} /\ x \in U \ (s \ {x})
      BY <3>2, <3>3
    <3> QED  BY <3>4, Zenon
  <2> QED  BY <2>1
<1> HIDE DEF N
<1>4. N = Nat
  <2>1. N \in SUBSET Nat
    BY DEF N
  <2> QED  BY <1>2, <1>3, <2>1, SetInduction
<1>5. ASSUME NEW s \in SUBSET U  PROVE s \in T
  <2>1. Cardinality(s) \in N
    BY <1>1, <1>4
  <2> QED  BY <2>1 DEF N
<1> QED  BY <1>5

-----------------------------------------------------------------------------
(* Sums: Sum(f, U) is MapThenSumSet for the function f *)

\* The recursion of MapThenSumSet.
IsSum(g, f, U) ==
  g = [s \in SUBSET U |-> IF s = {} THEN 0
                          ELSE LET x == CHOOSE x \in s : TRUE IN f[x] + g[s \ {x}]]
Sum(f, U) == LET g == CHOOSE g : IsSum(g, f, U) IN g[U]

\* The recursion up to the sets of n elements.
Sums(g, f, U, n) ==
  \A s \in SUBSET U : Cardinality(s) <= n =>
    g[s] = IF s = {} THEN 0 ELSE LET x == CHOOSE x \in s : TRUE IN f[x] + g[s \ {x}]

\* It defines a function.
LEMMA SumUnfolds ==
  ASSUME NEW U, IsFiniteSet(U), NEW f
  PROVE  \E g : IsSum(g, f, U)
<1> DEFINE N == {n \in Nat : \E g : Sums(g, f, U, n)}
<1>1. \A s \in SUBSET U : IsFiniteSet(s) /\ Cardinality(s) \in Nat
  BY FS_Subset, FS_CardinalityType
<1>2. \A s \in SUBSET U : s # {} =>
        LET x == CHOOSE x \in s : TRUE
        IN  x \in s /\ s \ {x} \in SUBSET U /\ Cardinality(s \ {x}) = Cardinality(s) - 1
  <2> SUFFICES ASSUME NEW s \in SUBSET U, s # {}
               PROVE  LET x == CHOOSE x \in s : TRUE
                      IN  x \in s /\ s \ {x} \in SUBSET U /\ Cardinality(s \ {x}) = Cardinality(s) - 1
    OBVIOUS
  <2> DEFINE x == CHOOSE x \in s : TRUE
  <2>1. x \in s
    OBVIOUS
  <2> HIDE DEF x
  <2>2. Cardinality(s \ {x}) = Cardinality(s) - 1
    BY <1>1, <2>1, FS_RemoveElement
  <2> QED  BY <2>1, <2>2 DEF x
<1>3. 0 \in N
  <2>1. Sums([s \in SUBSET U |-> 0], f, U, 0)
    <3>1. \A s \in SUBSET U : Cardinality(s) <= 0 => s = {}
      BY <1>1, FS_EmptySet
    <3> QED  BY <3>1 DEF Sums
  <2> QED  BY <2>1
<1>4. ASSUME NEW n \in N  PROVE n + 1 \in N
  <2>1. PICK g : Sums(g, f, U, n)
    OBVIOUS
  <2> DEFINE h == [s \in SUBSET U |->
                    IF Cardinality(s) <= n THEN g[s]
                    ELSE LET x == CHOOSE x \in s : TRUE IN f[x] + g[s \ {x}]]
  <2>2. n \in Nat
    OBVIOUS
  <2>3. \A s \in SUBSET U : Cardinality(s) <= n => h[s] = g[s]
    OBVIOUS
  <2>4. ASSUME NEW s \in SUBSET U, Cardinality(s) <= n + 1
        PROVE  h[s] = IF s = {} THEN 0 ELSE LET x == CHOOSE x \in s : TRUE IN f[x] + h[s \ {x}]
    <3> DEFINE x == CHOOSE x \in s : TRUE
    <3>1. CASE s = {}
      <4>1. Cardinality(s) <= n
        BY <2>2, <3>1, FS_EmptySet
      <4>2. g[s] = 0
        BY <2>1, <3>1, <4>1 DEF Sums
      <4> QED  BY <2>3, <3>1, <4>1, <4>2
    <3>2. CASE s # {}
      <4>1. s \ {x} \in SUBSET U /\ Cardinality(s \ {x}) <= n
        BY <1>1, <1>2, <2>2, <2>4, <3>2
      <4>2. h[s \ {x}] = g[s \ {x}]
        BY <2>3, <4>1
      <4>3. h[s] = f[x] + g[s \ {x}]
        <5>1. CASE Cardinality(s) <= n
          <6>1. g[s] = f[x] + g[s \ {x}]
            BY <2>1, <3>2, <5>1 DEF Sums
          <6> QED  BY <2>3, <5>1, <6>1
        <5>2. CASE ~(Cardinality(s) <= n)
          BY <5>2
        <5> QED  BY <5>1, <5>2
      <4> HIDE DEF h
      <4> QED  BY <3>2, <4>2, <4>3
    <3> QED  BY <3>1, <3>2
  <2> HIDE DEF h
  <2>5. Sums(h, f, U, n + 1)
    BY <2>4 DEF Sums
  <2> QED  BY <2>2, <2>5
<1> HIDE DEF N
<1>5. N = Nat
  <2>1. N \in SUBSET Nat
    BY DEF N
  <2> QED  BY <1>3, <1>4, <2>1, SetInduction
<1>6. PICK g : Sums(g, f, U, Cardinality(U))
  <2>1. Cardinality(U) \in N
    BY <1>1, <1>5
  <2> QED  BY <2>1 DEF N
<1> DEFINE h == [s \in SUBSET U |-> g[s]]
<1>7. ASSUME NEW s \in SUBSET U
      PROVE  h[s] = IF s = {} THEN 0 ELSE LET x == CHOOSE x \in s : TRUE IN f[x] + h[s \ {x}]
  <2>1. Cardinality(s) <= Cardinality(U)
    BY FS_Subset
  <2> QED  BY <1>6, <2>1 DEF Sums
<1>8. h = [s \in SUBSET U |-> IF s = {} THEN 0
                             ELSE LET x == CHOOSE x \in s : TRUE IN f[x] + h[s \ {x}]]
  <2>1. h = [s \in SUBSET U |-> h[s]]
    OBVIOUS
  <2> HIDE DEF h
  <2> QED  BY <1>7, <2>1
<1> HIDE DEF h
<1> QED  BY <1>8 DEF IsSum

\* A sum of integers is an integer, whichever element is taken out first.
Parted(g, f, U) == \A s \in SUBSET U : g[s] \in Int /\ \A x \in s : g[s] = f[x] + g[s \ {x}]
LEMMA SumParts ==
  ASSUME NEW U, IsFiniteSet(U), NEW f, \A x \in U : f[x] \in Int, NEW g, IsSum(g, f, U)
  PROVE  Parted(g, f, U)
<1> DEFINE Parts(s) == g[s] \in Int /\ \A x \in s : g[s] = f[x] + g[s \ {x}]
           N == {n \in Nat : \A s \in SUBSET U : Cardinality(s) <= n => Parts(s)}
<1>1. \A s \in SUBSET U : IsFiniteSet(s) /\ Cardinality(s) \in Nat
  BY FS_Subset, FS_CardinalityType
<1>2. ASSUME NEW s \in SUBSET U, s # {}
      PROVE  \E c \in s : g[s] = f[c] + g[s \ {c}]
  <2>1. (CHOOSE c \in s : TRUE) \in s
    BY <1>2
  <2>2. g[s] = LET c == CHOOSE c \in s : TRUE IN f[c] + g[s \ {c}]
    BY <1>2 DEF IsSum
  <2> QED  BY <2>1, <2>2
<1>3. g[{}] = 0
  BY DEF IsSum
<1>4. 0 \in N
  <2>1. \A s \in SUBSET U : Cardinality(s) <= 0 => s = {}
    BY <1>1, FS_EmptySet
  <2>2. Parts({})
    BY <1>3
  <2> HIDE DEF Parts
  <2> QED  BY <2>1, <2>2
<1>5. ASSUME NEW n \in N  PROVE n + 1 \in N
  <2>1. n \in Nat /\ \A s \in SUBSET U : Cardinality(s) <= n => Parts(s)
    OBVIOUS
  <2>2. ASSUME NEW s \in SUBSET U, Cardinality(s) <= n + 1  PROVE Parts(s)
    <3>1. CASE s = {}
      BY <1>3, <3>1
    <3>2. CASE s # {}
      <4>1. PICK c \in s : g[s] = f[c] + g[s \ {c}]
        BY <1>2, <3>2
      <4>2. \A x \in s : s \ {x} \in SUBSET U /\ Cardinality(s \ {x}) <= n
        <5> SUFFICES ASSUME NEW x \in s  PROVE Cardinality(s \ {x}) <= n
          OBVIOUS
        <5>1. Cardinality(s \ {x}) = Cardinality(s) - 1
          BY <1>1, FS_RemoveElement
        <5> QED  BY <1>1, <2>1, <2>2, <5>1
      <4>3. \A x \in s : Parts(s \ {x})
        BY <2>1, <4>2
      <4> HIDE DEF N
      <4>4. g[s] \in Int
        <5>1. g[s \ {c}] \in Int /\ f[c] \in Int
          BY <4>3
        <5> QED  BY <4>1, <5>1
      <4>5. ASSUME NEW x \in s, x # c  PROVE g[s] = f[x] + g[s \ {x}]
        <5>1. (s \ {c}) \ {x} = (s \ {x}) \ {c}
          OBVIOUS
        <5> DEFINE rest == (s \ {x}) \ {c}
        <5>2. g[s \ {c}] = f[x] + g[rest] /\ g[s \ {x}] = f[c] + g[rest]
          BY <4>3, <4>5, <5>1
        <5>3. g[rest] \in Int /\ f[x] \in Int /\ f[c] \in Int
          <6>1. rest \in SUBSET U /\ Cardinality(rest) <= n
            <7>1. Cardinality(rest) <= Cardinality(s \ {x})
              BY <1>1, <4>2, FS_Subset
            <7> QED  BY <1>1, <2>1, <4>2, <7>1
          <6> QED  BY <2>1, <6>1
        <5> HIDE DEF rest
        <5> QED  BY <4>1, <5>2, <5>3
      <4> QED  BY <4>1, <4>4, <4>5
    <3> QED  BY <3>1, <3>2
  <2> QED  BY <2>1, <2>2
<1> HIDE DEF N
<1>6. N = Nat
  <2>1. N \in SUBSET Nat
    BY DEF N
  <2> QED  BY <1>4, <1>5, <2>1, SetInduction
<1>7. ASSUME NEW s \in SUBSET U  PROVE Parts(s)
  <2>1. Cardinality(s) \in N /\ Cardinality(s) <= Cardinality(s)
    BY <1>1, <1>6
  <2> QED  BY <2>1 DEF N
<1> QED  BY <1>7 DEF Parted

\* The recursion over a smaller set gives the same values.
LEMMA SumWithin ==
  ASSUME NEW U, IsFiniteSet(U), NEW V \in SUBSET U, NEW f, \A x \in U : f[x] \in Int,
         NEW g, IsSum(g, f, U), NEW h, IsSum(h, f, V)
  PROVE  \A s \in SUBSET V : h[s] = g[s]
<1> DEFINE T == {s \in SUBSET V : h[s] = g[s]}
<1>1. IsFiniteSet(V)
  BY FS_Subset
<1>2. {} \in T
  BY DEF IsSum
<1>3. ASSUME NEW s \in T, NEW x \in V \ s  PROVE s \cup {x} \in T
  <2>1. (s \cup {x}) \ {x} = s /\ s \cup {x} \in SUBSET V /\ s \cup {x} \in SUBSET U
    OBVIOUS
  <2>2. g[s \cup {x}] = f[x] + g[s]
    <3>1. Parted(g, f, U) /\ x \in s \cup {x}
      BY SumParts
    <3> QED  BY <2>1, <3>1 DEF Parted
  <2>3. h[s \cup {x}] = f[x] + h[s]
    <3>1. \A y \in V : f[y] \in Int
      OBVIOUS
    <3>2. Parted(h, f, V) /\ x \in s \cup {x}
      BY <1>1, <3>1, SumParts
    <3> QED  BY <2>1, <3>2 DEF Parted
  <2> QED  BY <2>1, <2>2, <2>3
<1> HIDE DEF T
<1>4. T = SUBSET V
  <2>1. T \in SUBSET SUBSET V
    BY DEF T
  <2> QED  BY <1>1, <1>2, <1>3, <2>1, SubsetInduction
<1> QED  BY <1>4 DEF T

\* The sum over no element is zero.
LEMMA SumOfNone ==
  ASSUME NEW f
  PROVE  Sum(f, {}) = 0
<1> DEFINE g == CHOOSE g : IsSum(g, f, {})
<1>1. IsSum(g, f, {})
  BY SumUnfolds, FS_EmptySet
<1>2. Sum(f, {}) = g[{}]
  BY DEF Sum
<1> HIDE DEF g
<1> QED  BY <1>1, <1>2 DEF IsSum

\* The sum over one element more.
LEMMA SumAdds ==
  ASSUME NEW U, IsFiniteSet(U), NEW f, NEW x, x \notin U, \A y \in U \cup {x} : f[y] \in Int
  PROVE  Sum(f, U) \in Int /\ Sum(f, U \cup {x}) = f[x] + Sum(f, U)
<1> DEFINE V == U \cup {x}
           g == CHOOSE g : IsSum(g, f, U)
           h == CHOOSE h : IsSum(h, f, V)
<1>1. IsFiniteSet(V)
  BY FS_AddElement
<1>2. IsSum(g, f, U) /\ IsSum(h, f, V)
  <2> HIDE DEF V
  <2> QED  BY <1>1, SumUnfolds
<1>3. Sum(f, U) = g[U] /\ Sum(f, V) = h[V]
  BY DEF Sum
<1> HIDE DEF g, h
<1>4. V \ {x} = U /\ U \in SUBSET V /\ V \in SUBSET V /\ x \in V
  OBVIOUS
<1>5. \A y \in V : f[y] \in Int
  OBVIOUS
<1> HIDE DEF V
<1>6. h[V] = f[x] + h[V \ {x}] /\ h[V \ {x}] \in Int
  <2>1. Parted(h, f, V)
    BY <1>1, <1>2, <1>5, SumParts
  <2> QED  BY <1>4, <2>1 DEF Parted
<1>7. g[U] = h[U]
  BY <1>1, <1>2, <1>4, <1>5, SumWithin
<1> QED  BY <1>3, <1>4, <1>6, <1>7 DEF V

\* A sum of integers is one.
LEMMA SumType ==
  ASSUME NEW U, IsFiniteSet(U), NEW f, \A y \in U : f[y] \in Int
  PROVE  Sum(f, U) \in Int
<1> DEFINE g == CHOOSE g : IsSum(g, f, U)
<1>1. IsSum(g, f, U)
  BY SumUnfolds
<1>2. Sum(f, U) = g[U]
  BY DEF Sum
<1> HIDE DEF g
<1>3. Parted(g, f, U)
  BY <1>1, SumParts
<1> QED  BY <1>2, <1>3 DEF Parted

\* A sum can be taken over the images of the elements, if they are distinct.
LEMMA SumOfImages ==
  ASSUME NEW U, IsFiniteSet(U), NEW f, NEW W, NEW h,
         \A i \in U : f[i] \in Int /\ h[W[i]] = f[i],
         \A i, j \in U : W[i] = W[j] => i = j
  PROVE  Sum(f, U) = Sum(h, {W[i] : i \in U})
<1> DEFINE Im(s) == {W[i] : i \in s}
           T == {s \in SUBSET U : IsFiniteSet(Im(s)) /\ Sum(f, s) = Sum(h, Im(s))}
<1>1. {} \in T
  <2>1. Im({}) = {}
    OBVIOUS
  <2> HIDE DEF Im
  <2> QED  BY <2>1, FS_EmptySet, SumOfNone
<1>2. ASSUME NEW s \in T, NEW x \in U \ s  PROVE s \cup {x} \in T
  <2>1. s \in SUBSET U /\ IsFiniteSet(Im(s)) /\ Sum(f, s) = Sum(h, Im(s)) /\ IsFiniteSet(s)
    BY FS_Subset
  <2>2. Im(s \cup {x}) = Im(s) \cup {W[x]} /\ W[x] \notin Im(s)
    OBVIOUS
  <2>3. (\A y \in s \cup {x} : f[y] \in Int) /\ \A y \in Im(s) \cup {W[x]} : h[y] \in Int
    OBVIOUS
  <2>4. h[W[x]] = f[x] /\ x \notin s
    OBVIOUS
  <2> HIDE DEF T, Im
  <2>5. Sum(f, s \cup {x}) = f[x] + Sum(f, s)
    BY <2>1, <2>3, <2>4, SumAdds
  <2>6. Sum(h, Im(s) \cup {W[x]}) = h[W[x]] + Sum(h, Im(s))
    BY <2>1, <2>2, <2>3, SumAdds
  <2>7. IsFiniteSet(Im(s \cup {x}))
    <3>1. IsFiniteSet(Im(s) \cup {W[x]})
      BY <2>1, FS_AddElement
    <3> QED  BY <2>2, <3>1, Zenon
  <2>8. Sum(f, s \cup {x}) = Sum(h, Im(s \cup {x}))
    BY <2>1, <2>2, <2>4, <2>5, <2>6
  <2> QED  BY <2>1, <2>7, <2>8 DEF T
<1> HIDE DEF T, Im
<1>3. T = SUBSET U
  <2>1. T \in SUBSET SUBSET U
    BY DEF T
  <2> QED  BY <1>1, <1>2, <2>1, SubsetInduction
<1> QED  BY <1>3 DEF T, Im

\* Only the summands count.
LEMMA SumOfEquals ==
  ASSUME NEW U, IsFiniteSet(U), NEW f, NEW h, \A x \in U : f[x] \in Int /\ h[x] = f[x]
  PROVE  Sum(f, U) = Sum(h, U)
<1> DEFINE W == [x \in U |-> x]
<1>1. (\A x \in U : f[x] \in Int /\ h[W[x]] = f[x]) /\ (\A x, y \in U : W[x] = W[y] => x = y)
  OBVIOUS
<1>2. {W[x] : x \in U} = U
  OBVIOUS
<1> HIDE DEF W
<1>3. Sum(f, U) = Sum(h, {W[x] : x \in U})
  BY <1>1, SumOfImages
<1> QED  BY <1>2, <1>3

-----------------------------------------------------------------------------
(* Quotients *)

\* Quotient and remainder of a number given by them.
LEMMA DivMod ==
  ASSUME NEW m \in Nat \ {0}, NEW q \in Nat, NEW r \in 0 .. m - 1
  PROVE  ((m * q) + r) \div m = q /\ ((m * q) + r) % m = r
<1> DEFINE a == (m * q) + r
<1>1. a \in Int
  OBVIOUS
<1>2. a = (m * (a \div m)) + (a % m) /\ a % m \in 0 .. m - 1 /\ a \div m \in Int
  BY <1>1, SMTT(30)
<1> DEFINE d == a \div m
           c == a % m
<1>3. (m * q) + r = (m * d) + c /\ c \in 0 .. m - 1 /\ d \in Int
  BY <1>2
<1> HIDE DEF d, c
<1>4. d = q
  <2>1. CASE d < q
    <3>1. q >= d + 1
      BY <1>3, <2>1
    <3>2. m * q >= m * (d + 1)
      BY <1>3, <3>1, SMTT(30)
    <3>3. m * (d + 1) = (m * d) + m
      BY <1>3, SMTT(30)
    <3> DEFINE mq == m * q
               md == m * d
    <3>4. mq \in Int /\ md \in Int /\ mq >= md + m /\ mq + r = md + c
      BY <1>3, <3>2, <3>3
    <3> HIDE DEF mq, md
    <3> QED  BY <1>3, <3>4
  <2>2. CASE d > q
    <3>1. d >= q + 1
      BY <1>3, <2>2
    <3>2. m * d >= m * (q + 1)
      BY <1>3, <3>1, SMTT(30)
    <3>3. m * (q + 1) = (m * q) + m
      BY <1>3, SMTT(30)
    <3> DEFINE mq == m * q
               md == m * d
    <3>4. mq \in Int /\ md \in Int /\ md >= mq + m /\ mq + r = md + c
      BY <1>3, <3>2, <3>3
    <3> HIDE DEF mq, md
    <3> QED  BY <1>3, <3>4
  <2> QED  BY <1>3, <2>1, <2>2
<1> QED  BY <1>3, <1>4 DEF d, c

\* Every number has a quotient and a remainder.
LEMMA QuotientRemainder ==
  ASSUME NEW t \in Nat, NEW d \in Nat \ {0}
  PROVE  t \div d \in 0 .. t /\ t % d \in 0 .. d - 1 /\ t = (d * (t \div d)) + (t % d)
<1>1. t = (d * (t \div d)) + (t % d) /\ t % d \in 0 .. d - 1 /\ t \div d \in Int
  BY SMTT(30)
<1> DEFINE q == t \div d
<1>2. q \in Int /\ d * q <= t /\ d * q > t - d
  BY <1>1
<1> HIDE DEF q
<1>3. q >= 0
  <2>1. CASE q <= -1
    <3>1. d * q <= d * (-1)
      BY <1>2, <2>1
    <3> QED  BY <1>2, <3>1
  <2> QED  BY <1>2, <2>1
<1>4. q <= d * q
  BY <1>2, <1>3
<1>5. q <= t /\ q >= 0
  BY <1>2, <1>3, <1>4
<1> QED  BY <1>1, <1>2, <1>5 DEF q

-----------------------------------------------------------------------------
(* Sequences of anything *)

IsSeq(s) == s \in Seq({s[i] : i \in DOMAIN s})

\* A sequence is one over any set that holds its elements.
LEMMA SeqOver ==
  ASSUME NEW S, NEW s \in Seq(S)
  PROVE  IsSeq(s) /\ Len(s) \in Nat /\ DOMAIN s = 1 .. Len(s)
<1>1. s \in [1 .. Len(s) -> S] /\ Len(s) \in Nat
  OBVIOUS
<1> DEFINE R == {s[i] : i \in DOMAIN s}
<1>2. s \in [1 .. Len(s) -> R]
  BY <1>1
<1> HIDE DEF R
<1>3. s \in Seq(R)
  BY <1>1, <1>2
<1> QED  BY <1>1, <1>3 DEF IsSeq, R

LEMMA SeqShape ==
  ASSUME NEW s, IsSeq(s)
  PROVE  Len(s) \in Nat /\ DOMAIN s = 1 .. Len(s) /\ s \in Seq({s[i] : i \in DOMAIN s})
<1> DEFINE R == {s[i] : i \in DOMAIN s}
<1>1. s \in Seq(R)
  BY DEF IsSeq
<1> HIDE DEF R
<1>2. Len(s) \in Nat /\ DOMAIN s = 1 .. Len(s)
  BY <1>1
<1> QED  BY <1>1, <1>2 DEF R

LEMMA SeqTail ==
  ASSUME NEW s, IsSeq(s), s # << >>
  PROVE  /\ IsSeq(Tail(s)) /\ Len(s) >= 1 /\ Len(Tail(s)) = Len(s) - 1 /\ Head(s) = s[1]
         /\ DOMAIN s = 1 .. Len(s) /\ DOMAIN Tail(s) = 1 .. Len(s) - 1
         /\ \A i \in 1 .. Len(s) - 1 : Tail(s)[i] = s[i + 1]
<1> DEFINE R == {s[i] : i \in DOMAIN s}
<1>1. s \in Seq(R)
  BY DEF IsSeq
<1> HIDE DEF R
<1>2. /\ Tail(s) \in Seq(R) /\ Len(s) \in Nat /\ Len(s) >= 1 /\ Len(Tail(s)) = Len(s) - 1
      /\ Head(s) = s[1] /\ DOMAIN s = 1 .. Len(s)
      /\ \A i \in 1 .. Len(s) - 1 : Tail(s)[i] = s[i + 1]
  BY <1>1
<1>3. IsSeq(Tail(s)) /\ DOMAIN Tail(s) = 1 .. Len(s) - 1
  BY <1>2, SeqOver
<1> QED  BY <1>2, <1>3

LEMMA SeqAppend ==
  ASSUME NEW s, IsSeq(s), NEW e
  PROVE  /\ IsSeq(Append(s, e)) /\ Len(Append(s, e)) = Len(s) + 1
         /\ DOMAIN Append(s, e) = 1 .. Len(s) + 1
         /\ \A i \in 1 .. Len(s) + 1 : Append(s, e)[i] = IF i = Len(s) + 1 THEN e ELSE s[i]
<1> DEFINE R == {s[i] : i \in DOMAIN s}
           T == R \cup {e}
<1>1. s \in Seq(R)
  BY DEF IsSeq
<1> HIDE DEF R
<1>2. s \in Seq(T) /\ e \in T
  BY <1>1
<1> HIDE DEF T
<1>3. /\ Append(s, e) \in Seq(T) /\ Len(s) \in Nat /\ Len(Append(s, e)) = Len(s) + 1
      /\ \A i \in 1 .. Len(s) + 1 : Append(s, e)[i] = IF i = Len(s) + 1 THEN e ELSE s[i]
  BY <1>2
<1>4. IsSeq(Append(s, e)) /\ DOMAIN Append(s, e) = 1 .. Len(s) + 1
  BY <1>3, SeqOver
<1> QED  BY <1>3, <1>4

LEMMA SeqConcat ==
  ASSUME NEW s, IsSeq(s), NEW t, IsSeq(t)
  PROVE  /\ IsSeq(s \o t) /\ Len(s \o t) = Len(s) + Len(t)
         /\ DOMAIN (s \o t) = 1 .. Len(s) + Len(t)
         /\ \A i \in 1 .. Len(s) : (s \o t)[i] = s[i]
         /\ \A i \in 1 .. Len(t) : (s \o t)[Len(s) + i] = t[i]
<1> DEFINE R == {s[i] : i \in DOMAIN s}
           Q == {t[i] : i \in DOMAIN t}
           T == R \cup Q
<1>1. s \in Seq(R) /\ t \in Seq(Q)
  BY DEF IsSeq
<1> HIDE DEF R, Q
<1>2. s \in Seq(T) /\ t \in Seq(T)
  BY <1>1
<1> HIDE DEF T
<1>3. /\ s \o t \in Seq(T) /\ Len(s) \in Nat /\ Len(t) \in Nat /\ Len(s \o t) = Len(s) + Len(t)
  BY <1>2
<1>4. \A i \in 1 .. Len(s) + Len(t) : (s \o t)[i] = IF i <= Len(s) THEN s[i] ELSE t[i - Len(s)]
  BY <1>2
<1>5. IsSeq(s \o t) /\ DOMAIN (s \o t) = 1 .. Len(s) + Len(t)
  BY <1>3, SeqOver
<1>6. \A i \in 1 .. Len(s) : (s \o t)[i] = s[i]
  BY <1>3, <1>4
<1>7. ASSUME NEW i \in 1 .. Len(t) PROVE (s \o t)[Len(s) + i] = t[i]
  BY <1>3, <1>4
<1> QED  BY <1>3, <1>5, <1>6, <1>7

\* The empty sequence, and one of one element.
LEMMA SeqShort ==
  /\ IsSeq(<< >>) /\ Len(<< >>) = 0
  /\ \A e : IsSeq(<<e>>) /\ Len(<<e>>) = 1 /\ <<e>>[1] = e
<1>1. IsSeq(<< >>) /\ Len(<< >>) = 0
  <2>1. << >> \in Seq({})
    OBVIOUS
  <2> QED  BY <2>1, SeqOver
<1>2. ASSUME NEW e PROVE IsSeq(<<e>>) /\ Len(<<e>>) = 1 /\ <<e>>[1] = e
  <2>1. <<e>> \in Seq({e}) /\ Len(<<e>>) = 1 /\ <<e>>[1] = e
    OBVIOUS
  <2> QED  BY <2>1, SeqOver
<1> QED  BY <1>1, <1>2
=============================================================================
