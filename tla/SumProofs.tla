------------------------------ MODULE SumProofs ------------------------------
(* What SumOver, which adds up dollars over a set in an order nobody fixed,   *)
(* computes: the induction principles of the library take operators, so the   *)
(* two below are stated for sets, and rest on the least element of a set of   *)
(* numbers.                                                                   *)
EXTENDS Sums, FiniteSetTheorems, WellFoundedInduction, TLAPS

(* --- induction -------------------------------------------------------------- *)

(* A set of numbers that is not empty has a least.                            *)
LEMMA LeastNumber ==
  ASSUME NEW T \in SUBSET Nat, T # {}
  PROVE  \E n \in T : \A m \in T : n <= m
<1> DEFINE Less == OpToRel(<, Nat)
<1>1. IsWellFoundedOn(Less, Nat)
  BY NatLessThanWellFounded
<1>2. \A m, n \in Nat : m < n => <<m, n>> \in Less
  BY DEF OpToRel
<1> HIDE DEF Less
<1>3. PICK n \in T : \A m \in T : ~ (<<m, n>> \in Less)
  BY <1>1, WFMin
<1>4. \A m \in T : m \in Nat /\ n \in Nat
  OBVIOUS
<1>5. ASSUME NEW m \in T PROVE n <= m
  <2>1. ~ (m < n)
    BY <1>2, <1>3, <1>4
  <2>q. QED BY <1>4, <2>1
<1>q. QED BY <1>5

(* A set of numbers with zero and every successor is all of them.             *)
LEMMA NumberInduction ==
  ASSUME NEW I \in SUBSET Nat, 0 \in I, \A n \in I : n + 1 \in I
  PROVE  I = Nat
<1> SUFFICES ASSUME Nat \ I # {} PROVE FALSE
  OBVIOUS
<1>1. PICK n \in Nat \ I : \A m \in Nat \ I : n <= m
  BY LeastNumber
<1>2. n - 1 \in Nat /\ n - 1 \notin Nat \ I
  BY <1>1
<1>q. QED BY <1>2

(* A family of subsets of a finite set with the empty one, and with every      *)
(* member that is given one more element, has the set itself.                 *)
LEMMA SubsetInduction ==
  ASSUME NEW S, IsFiniteSet(S), NEW I, {} \in I,
         \A k \in I \cap SUBSET S : \A x \in S \ k : k \cup {x} \in I
  PROVE  \A k \in SUBSET S : k \in I
<1> DEFINE N == {n \in Nat : \A k \in SUBSET S : Cardinality(k) = n => k \in I}
<1>1. 0 \in N
  BY FS_EmptySet, FS_Subset
<1>2. ASSUME NEW n \in N PROVE n + 1 \in N
  <2>1. n \in Nat /\ \A k \in SUBSET S : Cardinality(k) = n => k \in I
    OBVIOUS
  <2> SUFFICES ASSUME NEW k \in SUBSET S, Cardinality(k) = n + 1 PROVE k \in I
    BY <2>1
  <2>2. IsFiniteSet(k) /\ k # {}
    BY <2>1, FS_Subset, FS_EmptySet
  <2>3. PICK x \in k : TRUE
    BY <2>2
  <2>4. Cardinality(k \ {x}) = n
    <3>1. Cardinality(k \ {x}) = Cardinality(k) - 1
      BY <2>2, <2>3, FS_RemoveElement
    <3>q. QED BY <2>1, <3>1
  <2>5. k \ {x} \in I
    BY <2>1, <2>4
  <2>6. (k \ {x}) \cup {x} = k /\ x \in S \ (k \ {x})
    OBVIOUS
  <2>q. QED BY <2>5, <2>6
<1> HIDE DEF N
<1>3. N = Nat
  <2>1. N \in SUBSET Nat
    BY DEF N
  <2>q. QED BY <1>1, <1>2, <2>1, NumberInduction
<1>4. ASSUME NEW k \in SUBSET S PROVE k \in I
  <2>1. Cardinality(k) \in Nat
    BY FS_Subset, FS_CardinalityType
  <2>q. QED BY <1>3, <2>1 DEF N
<1>q. QED BY <1>4

(* --- the recursive function behind a sum ------------------------------------ *)

Some(k) == CHOOSE x \in k : TRUE
(* The body of that function, for a function g of smaller sets.               *)
Step(f, g, k) == IF k = {} THEN 0 ELSE f[Some(k)] + g[k \ {Some(k)}]
Adds(f, g, D) == g = [k \in D |-> Step(f, g, k)]
UpTo(S, n) == {k \in SUBSET S : Cardinality(k) <= n}

(* The element picked from a set is one of it.                                *)
LEMMA SomeIsIn ==
  ASSUME NEW k, k # {}
  PROVE  Some(k) \in k
  BY DEF Some

(* Such a function exists for the small subsets, so for all of them.          *)
LEMMA AddsUpTo ==
  ASSUME NEW f, NEW S, IsFiniteSet(S)
  PROVE  \A n \in Nat : \E g : Adds(f, g, UpTo(S, n))
<1> DEFINE I == {n \in Nat : \E g : Adds(f, g, UpTo(S, n))}
<1>1. 0 \in I
  <2> DEFINE g == [k \in UpTo(S, 0) |-> 0]
  <2>1. \A k \in UpTo(S, 0) : k = {}
    BY FS_Subset, FS_EmptySet, FS_CardinalityType DEF UpTo
  <2>2. Adds(f, g, UpTo(S, 0))
    BY <2>1 DEF Adds, Step
  <2>q. QED BY <2>2
<1>2. ASSUME NEW n \in I PROVE n + 1 \in I
  <2>1. PICK g : Adds(f, g, UpTo(S, n))
    OBVIOUS
  <2> DEFINE h == [k \in UpTo(S, n + 1) |-> Step(f, g, k)]
  <2>2. ASSUME NEW k \in UpTo(S, n) PROVE k \in UpTo(S, n + 1) /\ h[k] = g[k]
    <3>1. k \in UpTo(S, n + 1)
      BY FS_Subset, FS_CardinalityType DEF UpTo
    <3>2. g[k] = Step(f, g, k)
      BY <2>1 DEF Adds
    <3>q. QED BY <3>1, <3>2
  <2>3. ASSUME NEW k \in UpTo(S, n + 1), k # {} PROVE k \ {Some(k)} \in UpTo(S, n)
    <3>1. IsFiniteSet(k) /\ Some(k) \in k /\ Cardinality(k) \in Nat
      BY <2>3, SomeIsIn, FS_Subset, FS_CardinalityType DEF UpTo
    <3>2. Cardinality(k \ {Some(k)}) = Cardinality(k) - 1
      BY <3>1, FS_RemoveElement
    <3>q. QED BY <3>1, <3>2 DEF UpTo
  <2>4. ASSUME NEW k \in UpTo(S, n + 1) PROVE Step(f, g, k) = Step(f, h, k)
    BY <2>2, <2>3 DEF Step
  <2>5. Adds(f, h, UpTo(S, n + 1))
    BY <2>4 DEF Adds
  <2>q. QED BY <2>5
<1> HIDE DEF I
<1>3. I = Nat
  <2>1. I \in SUBSET Nat
    BY DEF I
  <2>q. QED BY <1>1, <1>2, <2>1, NumberInduction
<1>q. QED BY <1>3 DEF I

(* So it exists for the subsets of any finite set.                            *)
LEMMA AddsExists ==
  ASSUME NEW f, NEW S, IsFiniteSet(S)
  PROVE  \E g : Adds(f, g, SUBSET S)
<1>1. Cardinality(S) \in Nat
  BY FS_CardinalityType
<1>2. UpTo(S, Cardinality(S)) = SUBSET S
  BY FS_Subset DEF UpTo
<1>3. PICK g : Adds(f, g, UpTo(S, Cardinality(S)))
  BY <1>1, AddsUpTo
<1>q. QED BY <1>2, <1>3

(* SumOver is the value of such a function, and every other one agrees.       *)
LEMMA SumOverAdds ==
  ASSUME NEW f, NEW S, IsFiniteSet(S)
  PROVE  \E g : Adds(f, g, SUBSET S) /\ SumOver(f, S) = g[S]
<1> DEFINE T == CHOOSE T : T = [k \in SUBSET S |->
                  IF k = {} THEN 0 ELSE LET x == CHOOSE x \in k : TRUE IN f[x] + T[k \ {x}]]
<1>1. SumOver(f, S) = T[S]
  BY DEF SumOver
<1>2. \E g : g = [k \in SUBSET S |->
                  IF k = {} THEN 0 ELSE LET x == CHOOSE x \in k : TRUE IN f[x] + g[k \ {x}]]
  <2>1. PICK g : Adds(f, g, SUBSET S)
    BY AddsExists
  <2>2. g = [k \in SUBSET S |->
               IF k = {} THEN 0 ELSE LET x == CHOOSE x \in k : TRUE IN f[x] + g[k \ {x}]]
    BY <2>1 DEF Adds, Step, Some
  <2>q. QED BY <2>2
<1>3. T = [k \in SUBSET S |->
             IF k = {} THEN 0 ELSE LET x == CHOOSE x \in k : TRUE IN f[x] + T[k \ {x}]]
  BY <1>2
<1>4. Adds(f, T, SUBSET S)
  BY <1>3 DEF Adds, Step, Some
<1>q. QED BY <1>1, <1>4

(* And there is but one.                                                      *)
LEMMA AddsAgree ==
  ASSUME NEW f, NEW g, NEW h, NEW S, NEW T \in SUBSET S, IsFiniteSet(S),
         Adds(f, g, SUBSET S), Adds(f, h, SUBSET T)
  PROVE  \A k \in SUBSET T : g[k] = h[k]
<1> DEFINE N == {n \in Nat : \A k \in SUBSET T : Cardinality(k) = n => g[k] = h[k]}
<1>1. 0 \in N
  <2>1. ASSUME NEW k \in SUBSET T, Cardinality(k) = 0 PROVE g[k] = h[k]
    <3>1. k = {}
      BY <2>1, FS_EmptySet, FS_Subset
    <3>q. QED BY <3>1 DEF Adds, Step
  <2>q. QED BY <2>1
<1>2. ASSUME NEW n \in N PROVE n + 1 \in N
  <2>1. n \in Nat /\ \A k \in SUBSET T : Cardinality(k) = n => g[k] = h[k]
    OBVIOUS
  <2> SUFFICES ASSUME NEW k \in SUBSET T, Cardinality(k) = n + 1 PROVE g[k] = h[k]
    BY <2>1
  <2>2. IsFiniteSet(k)
    BY FS_Subset
  <2>3. k # {}
    BY <2>1, <2>2, FS_EmptySet
  <2>4. PICK x : x = Some(k) /\ x \in k
    BY <2>3, SomeIsIn
  <2>5. Cardinality(k \ {x}) = n
    <3>1. Cardinality(k \ {x}) = Cardinality(k) - 1
      BY <2>2, <2>4, FS_RemoveElement
    <3>q. QED BY <2>1, <3>1
  <2>6. g[k \ {x}] = h[k \ {x}]
    BY <2>1, <2>5
  <2>7. g[k] = Step(f, g, k) /\ h[k] = Step(f, h, k)
    BY DEF Adds
  <2>q. QED BY <2>4, <2>6, <2>7 DEF Step
<1> HIDE DEF N
<1>3. N = Nat
  <2>1. N \in SUBSET Nat
    BY DEF N
  <2>q. QED BY <1>1, <1>2, <2>1, NumberInduction
<1>4. ASSUME NEW k \in SUBSET T PROVE g[k] = h[k]
  <2>1. Cardinality(k) \in Nat
    BY FS_Subset, FS_CardinalityType
  <2>q. QED BY <1>3, <2>1 DEF N
<1>q. QED BY <1>4

(* --- sums -------------------------------------------------------------------- *)

(* Nothing adds up to 0.                                                      *)
LEMMA SumOverNothing ==
  ASSUME NEW f
  PROVE  SumOver(f, {}) = 0
<1>1. PICK g : Adds(f, g, SUBSET {}) /\ SumOver(f, {}) = g[{}]
  BY SumOverAdds, FS_EmptySet
<1>q. QED BY <1>1 DEF Adds, Step

(* The element that is picked is added to the rest.                           *)
LEMMA SumOverSome ==
  ASSUME NEW f, NEW S, IsFiniteSet(S), S # {}
  PROVE  SumOver(f, S) = f[Some(S)] + SumOver(f, S \ {Some(S)})
<1>1. PICK g : Adds(f, g, SUBSET S) /\ SumOver(f, S) = g[S]
  BY SumOverAdds
<1> DEFINE T == S \ {Some(S)}
<1>2. IsFiniteSet(T) /\ T \in SUBSET S
  BY FS_Subset
<1>z. T = S \ {Some(S)}
  OBVIOUS
<1> HIDE DEF T
<1>3. PICK h : Adds(f, h, SUBSET T) /\ SumOver(f, T) = h[T]
  BY <1>2, SumOverAdds
<1>4. g[T] = h[T]
  <2>1. \A k \in SUBSET T : g[k] = h[k]
    BY <1>1, <1>2, <1>3, AddsAgree
  <2>q. QED BY <2>1
<1>5. g[S] = Step(f, g, S)
  BY <1>1 DEF Adds
<1>q. QED BY <1>1, <1>3, <1>4, <1>5, <1>z DEF Step

(* A sum of integers is one, whatever is taken out first.                     *)
LEMMA SumOverInt ==
  ASSUME NEW f, NEW S, IsFiniteSet(S), \A x \in S : f[x] \in Int
  PROVE  \A k \in SUBSET S : SumOver(f, k) \in Int
<1> DEFINE N == {n \in Nat : \A k \in SUBSET S : Cardinality(k) = n => SumOver(f, k) \in Int}
<1>1. 0 \in N
  <2>1. ASSUME NEW k \in SUBSET S, Cardinality(k) = 0 PROVE SumOver(f, k) \in Int
    <3>1. k = {}
      BY <2>1, FS_EmptySet, FS_Subset
    <3>q. QED BY <3>1, SumOverNothing
  <2>q. QED BY <2>1
<1>2. ASSUME NEW n \in N PROVE n + 1 \in N
  <2>1. n \in Nat /\ \A k \in SUBSET S : Cardinality(k) = n => SumOver(f, k) \in Int
    OBVIOUS
  <2> SUFFICES ASSUME NEW k \in SUBSET S, Cardinality(k) = n + 1 PROVE SumOver(f, k) \in Int
    BY <2>1
  <2>2. IsFiniteSet(k)
    BY FS_Subset
  <2>3. k # {}
    BY <2>1, <2>2, FS_EmptySet
  <2>4. PICK x : x = Some(k) /\ x \in k
    BY <2>3, SomeIsIn
  <2>5. Cardinality(k \ {x}) = n
    <3>1. Cardinality(k \ {x}) = Cardinality(k) - 1
      BY <2>2, <2>4, FS_RemoveElement
    <3>q. QED BY <2>1, <3>1
  <2>6. SumOver(f, k \ {x}) \in Int /\ f[x] \in Int
    BY <2>1, <2>4, <2>5
  <2>7. SumOver(f, k) = f[x] + SumOver(f, k \ {x})
    BY <2>2, <2>3, <2>4, SumOverSome
  <2>q. QED BY <2>6, <2>7
<1> HIDE DEF N
<1>3. N = Nat
  <2>1. N \in SUBSET Nat
    BY DEF N
  <2>q. QED BY <1>1, <1>2, <2>1, NumberInduction
<1>4. ASSUME NEW k \in SUBSET S PROVE SumOver(f, k) \in Int
  <2>1. Cardinality(k) \in Nat
    BY FS_Subset, FS_CardinalityType
  <2>q. QED BY <1>3, <2>1 DEF N
<1>q. QED BY <1>4

(* The order does not matter: any element can be the one taken out.           *)
LEMMA SumOverAny ==
  ASSUME NEW f, NEW S, IsFiniteSet(S), \A x \in S : f[x] \in Int
  PROVE  \A k \in SUBSET S : \A y \in k : SumOver(f, k) = f[y] + SumOver(f, k \ {y})
<1> DEFINE Good(k) == \A y \in k : SumOver(f, k) = f[y] + SumOver(f, k \ {y})
           N == {n \in Nat : \A k \in SUBSET S : Cardinality(k) = n => Good(k)}
<1>1. 0 \in N
  <2>1. ASSUME NEW k \in SUBSET S, Cardinality(k) = 0 PROVE Good(k)
    BY <2>1, FS_EmptySet, FS_Subset
  <2>q. QED BY <2>1
<1>2. ASSUME NEW n \in N PROVE n + 1 \in N
  <2>1. n \in Nat /\ \A k \in SUBSET S : Cardinality(k) = n => Good(k)
    OBVIOUS
  <2>2. ASSUME NEW k \in SUBSET S, Cardinality(k) = n + 1, NEW y \in k
        PROVE  SumOver(f, k) = f[y] + SumOver(f, k \ {y})
    <3>1. IsFiniteSet(k)
      BY FS_Subset
    <3>2. PICK x : x = Some(k) /\ x \in k
      BY SomeIsIn
    <3>3. SumOver(f, k) = f[x] + SumOver(f, k \ {x})
      BY <3>1, <3>2, SumOverSome
    <3>4. CASE x # y
      <4>1. Cardinality(k \ {x}) = Cardinality(k) - 1 /\ Cardinality(k \ {y}) = Cardinality(k) - 1
        BY <3>1, <3>2, FS_RemoveElement
      <4>2. Cardinality(k \ {x}) = n /\ Cardinality(k \ {y}) = n
        BY <2>1, <2>2, <4>1
      <4>3. SumOver(f, k \ {x}) = f[y] + SumOver(f, (k \ {x}) \ {y})
        BY <2>1, <3>4, <4>2
      <4>4. SumOver(f, k \ {y}) = f[x] + SumOver(f, (k \ {y}) \ {x})
        BY <2>1, <3>2, <3>4, <4>2
      <4>5. (k \ {x}) \ {y} = (k \ {y}) \ {x}
        OBVIOUS
      <4>6. f[x] \in Int /\ f[y] \in Int /\ SumOver(f, (k \ {x}) \ {y}) \in Int
        BY <3>2, SumOverInt
      <4>7. SumOver(f, (k \ {x}) \ {y}) = SumOver(f, (k \ {y}) \ {x})
        BY <4>5
      <4>q. QED BY ONLY <3>3, <4>3, <4>4, <4>6, <4>7
    <3>q. QED BY <3>3, <3>4
  <2>3. \A k \in SUBSET S : Cardinality(k) = n + 1 => Good(k)
    BY <2>2
  <2> HIDE DEF Good
  <2>q. QED BY <2>1, <2>3
<1>3. N = Nat
  <2>1. N \in SUBSET Nat
    OBVIOUS
  <2> HIDE DEF N
  <2>q. QED BY <1>1, <1>2, <2>1, NumberInduction
<1>4. ASSUME NEW k \in SUBSET S PROVE Good(k)
  <2>1. Cardinality(k) \in Nat
    BY FS_Subset, FS_CardinalityType
  <2> HIDE DEF Good
  <2>q. QED BY <1>3, <2>1
<1>q. QED BY <1>4

(* A sum grows by the term of an element that is added to its set.            *)
LEMMA SumOverAdd ==
  ASSUME NEW f, NEW S, IsFiniteSet(S), NEW x, x \notin S, f[x] \in Int,
         \A y \in S : f[y] \in Int
  PROVE  SumOver(f, S \cup {x}) = f[x] + SumOver(f, S)
<1>1. IsFiniteSet(S \cup {x}) /\ \A y \in S \cup {x} : f[y] \in Int
  BY FS_AddElement
<1>2. (S \cup {x}) \ {x} = S
  OBVIOUS
<1>q. QED BY <1>1, <1>2, SumOverAny

(* Term by term no larger, no larger in all; so the sum depends on the terms  *)
(* of its set alone.                                                          *)
LEMMA SumOverAtMost ==
  ASSUME NEW f, NEW g, NEW S, IsFiniteSet(S),
         \A x \in S : f[x] \in Int /\ g[x] \in Int /\ f[x] <= g[x]
  PROVE  SumOver(f, S) <= SumOver(g, S)
<1> DEFINE I == {k \in SUBSET S : SumOver(f, k) <= SumOver(g, k)}
<1>1. {} \in I
  BY SumOverNothing
<1>2. ASSUME NEW k \in I \cap SUBSET S, NEW x \in S \ k PROVE k \cup {x} \in I
  <2>1. IsFiniteSet(k) /\ SumOver(f, k) <= SumOver(g, k)
    BY FS_Subset
  <2>2. /\ SumOver(f, k \cup {x}) = f[x] + SumOver(f, k)
        /\ SumOver(g, k \cup {x}) = g[x] + SumOver(g, k)
    BY <2>1, SumOverAdd
  <2>3. SumOver(f, k) \in Int /\ SumOver(g, k) \in Int
    BY SumOverInt
  <2>4. SumOver(f, k \cup {x}) <= SumOver(g, k \cup {x})
    BY <2>1, <2>2, <2>3
  <2>q. QED BY <2>4
<1>3. S \in I
  <2> HIDE DEF I
  <2>q. QED BY <1>1, <1>2, SubsetInduction
<1>q. QED BY <1>3

(* Equal terms, equal sums.                                                   *)
LEMMA SumOverSame ==
  ASSUME NEW f, NEW g, NEW S, IsFiniteSet(S), \A x \in S : f[x] \in Int /\ f[x] = g[x]
  PROVE  SumOver(f, S) = SumOver(g, S)
<1>1. SumOver(f, S) <= SumOver(g, S) /\ SumOver(g, S) <= SumOver(f, S)
  BY SumOverAtMost
<1>2. SumOver(f, S) \in Int /\ SumOver(g, S) \in Int
  BY SumOverInt
<1>q. QED BY <1>1, <1>2

(* More terms, none of them negative, come to no less.                        *)
LEMMA SumOverMore ==
  ASSUME NEW f, NEW S, NEW T, IsFiniteSet(T), S \subseteq T, \A x \in T : f[x] \in Nat
  PROVE  SumOver(f, S) <= SumOver(f, T)
<1> DEFINE I == {k \in SUBSET (T \ S) : SumOver(f, S) <= SumOver(f, S \cup k)}
<1>0. IsFiniteSet(T \ S) /\ S \in SUBSET T
  BY FS_Subset
<1>i. \A x \in T : f[x] \in Int
  OBVIOUS
<1>n. \A k \in SUBSET T : SumOver(f, k) \in Int
  BY <1>i, SumOverInt
<1>1. {} \in I
  <2>1. S \cup {} = S
    OBVIOUS
  <2>2. SumOver(f, S) <= SumOver(f, S \cup {})
    BY <1>0, <1>n, <2>1
  <2>q. QED BY <2>2
<1>2. ASSUME NEW k \in I \cap SUBSET (T \ S), NEW x \in (T \ S) \ k PROVE k \cup {x} \in I
  <2>1. S \cup (k \cup {x}) = (S \cup k) \cup {x} /\ x \notin S \cup k
        /\ S \cup k \in SUBSET T
    OBVIOUS
  <2>2. IsFiniteSet(S \cup k) /\ SumOver(f, S) <= SumOver(f, S \cup k)
    BY <2>1, FS_Subset
  <2>3. SumOver(f, (S \cup k) \cup {x}) = f[x] + SumOver(f, S \cup k)
    BY <1>i, <2>1, <2>2, SumOverAdd
  <2>4. SumOver(f, S) \in Int /\ SumOver(f, S \cup k) \in Int /\ f[x] \in Nat
    BY <1>0, <1>n, <2>1
  <2>5. SumOver(f, S) <= SumOver(f, S \cup (k \cup {x}))
    BY <2>1, <2>2, <2>3, <2>4
  <2>q. QED BY <2>5
<1>3. T \ S \in I
  <2> DEFINE D == T \ S
  <2>1. /\ IsFiniteSet(D) /\ {} \in I
        /\ \A k \in I \cap SUBSET D : \A x \in D \ k : k \cup {x} \in I
    BY <1>0, <1>1, <1>2
  <2> HIDE DEF I, D
  <2>2. \A k \in SUBSET D : k \in I
    BY <2>1, SubsetInduction
  <2>3. D \in I
    BY <2>2
  <2>q. QED BY <2>3 DEF D
<1>4. S \cup (T \ S) = T
  OBVIOUS
<1>q. QED BY <1>3, <1>4

(* A sum of natural numbers is one.                                           *)
LEMMA SumOverNat ==
  ASSUME NEW f, NEW S, IsFiniteSet(S), \A x \in S : f[x] \in Nat
  PROVE  SumOver(f, S) \in Nat
<1>1. \A x \in S : f[x] \in Int
  OBVIOUS
<1>2. SumOver(f, S) \in Int
  BY <1>1, SumOverInt
<1>3. SumOver(f, {}) <= SumOver(f, S)
  BY SumOverMore
<1>q. QED BY <1>2, <1>3, SumOverNothing

(* What two sets with nothing in common add up to, they add up to together.   *)
LEMMA SumOverUnion ==
  ASSUME NEW f, NEW S, NEW T, IsFiniteSet(S), IsFiniteSet(T), S \cap T = {},
         \A x \in S \cup T : f[x] \in Int
  PROVE  SumOver(f, S \cup T) = SumOver(f, S) + SumOver(f, T)
<1> DEFINE I == {k \in SUBSET T : SumOver(f, S \cup k) = SumOver(f, S) + SumOver(f, k)}
<1>1. SumOver(f, S) \in Int /\ \A k \in SUBSET T : SumOver(f, k) \in Int
  BY SumOverInt
<1>2. {} \in I
  <2>1. S \cup {} = S
    OBVIOUS
  <2>q. QED BY <1>1, <2>1, SumOverNothing
<1>3. ASSUME NEW k \in I \cap SUBSET T, NEW x \in T \ k PROVE k \cup {x} \in I
  <2>1. /\ S \cup (k \cup {x}) = (S \cup k) \cup {x} /\ x \notin S \cup k
        /\ k \cup {x} \in SUBSET T
    OBVIOUS
  <2>2. IsFiniteSet(k) /\ IsFiniteSet(S \cup k)
    BY FS_Subset, FS_Union
  <2>3. f[x] \in Int /\ (\A y \in k : f[y] \in Int) /\ \A y \in S \cup k : f[y] \in Int
    OBVIOUS
  <2>4. SumOver(f, (S \cup k) \cup {x}) = f[x] + SumOver(f, S \cup k)
    BY <2>1, <2>2, <2>3, SumOverAdd
  <2>5. SumOver(f, k \cup {x}) = f[x] + SumOver(f, k)
    BY <2>2, <2>3, SumOverAdd
  <2>6. SumOver(f, S \cup (k \cup {x})) = SumOver(f, S) + SumOver(f, k \cup {x})
    BY <1>1, <2>1, <2>3, <2>4, <2>5
  <2>q. QED BY <2>1, <2>6
<1>4. T \in I
  <2> HIDE DEF I
  <2>q. QED BY <1>2, <1>3, SubsetInduction
<1>q. QED BY <1>4
=============================================================================
