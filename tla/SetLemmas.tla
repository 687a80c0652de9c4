------------------------------ MODULE SetLemmas ------------------------------
(***************************************************************************)
(* Lemmas on finite sets that the proofs of several components need: least *)
(* and greatest elements, and the enumeration of a set of numbers in       *)
(* increasing order.  Where a proof would go by induction on a finite set, *)
(* it takes a smallest counterexample instead.                             *)
(***************************************************************************)
EXTENDS Order, Functions, FiniteSetTheorems, FunctionTheorems, TLAPS

-----------------------------------------------------------------------------
(* Least and greatest elements, from the well-founded order of inclusion.  *)
Smallest(A, F) == A \in F /\ \A B \in F : B \subseteq A => B = A

LEMMA SmallestSet ==
    ASSUME NEW S, IsFiniteSet(S), NEW F \in SUBSET SUBSET S, F # {}
    PROVE  \E A : Smallest(A, F)
<1>2. \A A \in F : A \in FiniteSubsetsOf(S)
  BY FS_Subset DEF FiniteSubsetsOf
<1>3. IsWellFoundedOn(StrictSubsetOrdering(S), FiniteSubsetsOf(S))
  BY FS_StrictSubsetOrderingWellFounded
<1>4. PICK A \in F : \A B \in F : ~ (<<B, A>> \in StrictSubsetOrdering(S))
  BY <1>2, <1>3, WFMin
<1>5. ASSUME NEW B \in F, B \subseteq A PROVE B = A
  BY <1>4, <1>5 DEF StrictSubsetOrdering
<1> QED BY <1>5 DEF Smallest

LEMMA LeastExists ==
    ASSUME NEW T, T \subseteq Nat, T # {}
    PROVE  \E x \in T : \A y \in T : x <= y
<1>1. PICK n \in T : TRUE
  OBVIOUS
<1> DEFINE Upto(x) == T \cap (0 .. x)
           F == {Upto(x) : x \in T \cap (0 .. n)}
<1>2. n \in Nat /\ F \in SUBSET SUBSET (0 .. n) /\ F # {} /\ IsFiniteSet(0 .. n)
  <2>1. n \in Nat
    BY <1>1
  <2>2. IsFiniteSet(0 .. n)
    BY <2>1, FS_Interval
  <2>3. Upto(n) \in F
    BY <1>1, <2>1
  <2>4. \A x \in T \cap (0 .. n) : Upto(x) \subseteq 0 .. n
    BY <2>1
  <2> QED BY <2>1, <2>2, <2>3, <2>4
<1>3. PICK A \in F : \A B \in F : B \subseteq A => B = A
  <2>1. \E A : Smallest(A, F)
    <3> HIDE DEF F
    <3> QED BY <1>2, SmallestSet
  <2> QED BY <2>1 DEF Smallest
<1>4. PICK x \in T \cap (0 .. n) : A = Upto(x)
  BY <1>3
<1>5. ASSUME NEW y \in T PROVE x <= y
  <2>1. CASE y > n
    BY <1>4, <1>5, <2>1, <1>2
  <2>2. CASE y <= n /\ y < x
    <3>1. Upto(y) \in F /\ Upto(y) \subseteq A
      BY <1>2, <1>4, <1>5, <2>2
    <3>2. x \in A /\ x \notin Upto(y)
      BY <1>2, <1>4, <1>5, <2>2
    <3> QED BY <1>3, <3>1, <3>2
  <2> QED BY <1>2, <1>4, <2>1, <2>2
<1> QED BY <1>4, <1>5

LEMMA GreatestExists ==
    ASSUME NEW N \in Nat, NEW T, T \subseteq 0 .. N, T # {}
    PROVE  \E x \in T : \A y \in T : y <= x
<1> DEFINE From(x) == T \cap (x .. N)
           F == {From(x) : x \in T}
<1>1. F \in SUBSET SUBSET (0 .. N) /\ F # {} /\ IsFiniteSet(0 .. N)
  <2>1. IsFiniteSet(0 .. N)
    BY FS_Interval
  <2>2. \A x \in T : From(x) \in F /\ From(x) \subseteq 0 .. N
    OBVIOUS
  <2> QED BY <2>1, <2>2
<1>2. PICK A \in F : \A B \in F : B \subseteq A => B = A
  <2>1. \E A : Smallest(A, F)
    <3> HIDE DEF F
    <3> QED BY <1>1, SmallestSet
  <2> QED BY <2>1 DEF Smallest
<1>3. PICK x \in T : A = From(x)
  BY <1>2
<1>4. ASSUME NEW y \in T, y > x PROVE FALSE
  <2>1. From(y) \in F /\ From(y) \subseteq A
    BY <1>3, <1>4
  <2>2. x \in A /\ x \notin From(y)
    BY <1>3, <1>4
  <2> QED BY <1>2, <2>1, <2>2
<1> QED BY <1>3, <1>4

-----------------------------------------------------------------------------
(* The enumeration of a set of numbers.                                    *)
LEMMA SmallerInOrder ==
    ASSUME NEW S, IsFiniteSet(S), S \subseteq Nat, NEW x \in S, NEW y \in S, x < y
    PROVE  Cardinality(Smaller(S, x)) < Cardinality(Smaller(S, y))
<1>1. IsFiniteSet(Smaller(S, x)) /\ IsFiniteSet(Smaller(S, y))
  BY FS_Subset DEF Smaller
<1>0. x \in Nat /\ y \in Nat /\ \A z \in S : z \in Nat
  OBVIOUS
<1>2. Smaller(S, x) \subseteq Smaller(S, y) /\ x \in Smaller(S, y) /\ x \notin Smaller(S, x)
  <2>1. \A z \in S : z < x => z < y
    BY <1>0, SMT
  <2>2. ~(x < x)
    BY <1>0, SMT
  <2> QED BY <2>1, <2>2, Zenon DEF Smaller
<1>3. Cardinality(Smaller(S, x)) <= Cardinality(Smaller(S, y))
      /\ Cardinality(Smaller(S, x)) # Cardinality(Smaller(S, y))
  BY <1>1, <1>2, FS_Subset
<1> QED BY <1>1, <1>3, FS_CardinalityType

(* Each place of the enumeration has an element, and one only.             *)
LEMMA RanksTaken ==
    ASSUME NEW S, IsFiniteSet(S), S \subseteq Nat
    PROVE  /\ \A x \in S : Cardinality(Smaller(S, x)) \in 0 .. Cardinality(S) - 1
           /\ \A j \in 1 .. Cardinality(S) :
                 \E x \in S : Cardinality(Smaller(S, x)) = j - 1
<1> DEFINE n == Cardinality(S)
           rank == [x \in S |-> Cardinality(Smaller(S, x))]
<1>1. n \in Nat
  BY FS_CardinalityType
<1>2. ASSUME NEW x \in S PROVE rank[x] \in 0 .. n - 1
  <2>1. Smaller(S, x) \subseteq S \ {x}
    BY DEF Smaller
  <2>2. IsFiniteSet(S \ {x}) /\ Cardinality(S \ {x}) = n - 1
    BY FS_RemoveElement
  <2>3. Cardinality(Smaller(S, x)) <= n - 1 /\ Cardinality(Smaller(S, x)) \in Nat
    BY <2>1, <2>2, FS_Subset, FS_CardinalityType
  <2> QED BY <1>1, <2>3
<1>3. rank \in [S -> 0 .. n - 1]
  BY <1>2
<1>4. ASSUME NEW x \in S, NEW y \in S, rank[x] = rank[y] PROVE x = y
  <2>1. /\ rank[x] = Cardinality(Smaller(S, x)) /\ rank[y] = Cardinality(Smaller(S, y))
        /\ rank[x] \in Nat /\ x \in Nat /\ y \in Nat
    BY <1>2
  <2>2. ~(x < y)
    <3>1. x < y => Cardinality(Smaller(S, x)) < Cardinality(Smaller(S, y))
      BY SmallerInOrder
    <3> QED BY <1>4, <2>1, <3>1, SMT
  <2>3. ~(y < x)
    <3>1. y < x => Cardinality(Smaller(S, y)) < Cardinality(Smaller(S, x))
      BY SmallerInOrder
    <3> QED BY <1>4, <2>1, <3>1, SMT
  <2> QED BY <2>1, <2>2, <2>3, SMT
<1>5. rank \in Injection(S, 0 .. n - 1)
  BY <1>3, <1>4, Fun_IsInj
<1>6. IsFiniteSet(0 .. n - 1) /\ Cardinality(0 .. n - 1) = n
  <2>1. n - 1 \in Int /\ 0 \in Int /\ (IF 0 > n - 1 THEN 0 ELSE n - 1 - 0 + 1) = n
    BY <1>1, SMT
  <2> HIDE DEF n
  <2> QED BY <2>1, FS_Interval
<1>7. rank \in Surjection(S, 0 .. n - 1)
  BY <1>5, <1>6, FS_Injection
<1>8. \A r \in 0 .. n - 1 : \E x \in S : rank[x] = r
  <2> HIDE DEF rank, n
  <2> QED BY <1>7, Fun_SurjectionProperties, Zenon
<1> QED BY <1>1, <1>2, <1>8

(* Ascending(S) goes through S in increasing order and misses nothing.     *)
LEMMA AscendingGoesThrough ==
    ASSUME NEW S, IsFiniteSet(S), S \subseteq Nat
    PROVE  /\ \A j \in 1 .. Cardinality(S) :
                 Ascending(S)[j] \in S /\ Cardinality(Smaller(S, Ascending(S)[j])) = j - 1
           /\ \A x \in S : LET j == Cardinality(Smaller(S, x)) + 1
                           IN j \in 1 .. Cardinality(S) /\ Ascending(S)[j] = x
<1>1. ASSUME NEW j \in 1 .. Cardinality(S)
      PROVE  Ascending(S)[j] \in S /\ Cardinality(Smaller(S, Ascending(S)[j])) = j - 1
  <2>1. \E x \in S : Cardinality(Smaller(S, x)) = j - 1
    BY RanksTaken
  <2>2. Ascending(S)[j] = CHOOSE x \in S : Cardinality(Smaller(S, x)) = j - 1
    BY DEF Ascending
  <2> QED BY <2>1, <2>2
<1>2. ASSUME NEW x \in S
      PROVE  LET j == Cardinality(Smaller(S, x)) + 1
             IN j \in 1 .. Cardinality(S) /\ Ascending(S)[j] = x
  <2> DEFINE j == Cardinality(Smaller(S, x)) + 1
             y == Ascending(S)[j]
  <2>1. Cardinality(S) \in Nat /\ Cardinality(Smaller(S, x)) \in 0 .. Cardinality(S) - 1
    BY RanksTaken, FS_CardinalityType
  <2>2. j \in 1 .. Cardinality(S)
    BY <2>1
  <2>3. y \in S /\ Cardinality(Smaller(S, y)) = Cardinality(Smaller(S, x))
    BY <1>1, <2>1, <2>2
  <2>4. ~(x < y)
    <3>1. x < y => Cardinality(Smaller(S, x)) < Cardinality(Smaller(S, y))
      BY <2>3, SmallerInOrder
    <3> QED BY <2>1, <2>3, <3>1, SMT
  <2>5. ~(y < x)
    <3>1. y < x => Cardinality(Smaller(S, y)) < Cardinality(Smaller(S, x))
      BY <2>3, SmallerInOrder
    <3> QED BY <2>1, <2>3, <3>1, SMT
  <2>6. x \in Nat /\ y \in Nat
    BY <2>3
  <2>7. x = y
    <3> HIDE DEF y
    <3> QED BY <2>4, <2>5, <2>6, SMT
  <2> QED BY <2>2, <2>7
<1> QED BY <1>1, <1>2

-----------------------------------------------------------------------------
(* The sum over S of how many elements of T are sent to each element of S  *)
(* is how many are sent into S.  The function of the subsets of S that     *)
(* counts them solves the equation by which the sum is defined, and no     *)
(* other does: there is no smallest subset where two of them differ.       *)
SentInto(h, T, s) == {t \in T : h[t] \in s}

LEMMA SumOfCounts ==
    ASSUME NEW T, IsFiniteSet(T), NEW h, NEW S, IsFiniteSet(S), NEW f,
           \A x \in S : f[x] = Cardinality(SentInto(h, T, {x}))
    PROVE  SumFunctionOnSet(f, S) = Cardinality(SentInto(h, T, S))
<1> DEFINE Into(s) == SentInto(h, T, s)
           one(s)  == CHOOSE x \in s : TRUE
           Solves(g) == g = [s \in SUBSET S |-> IF s = {} THEN 0 ELSE f[one(s)] + g[s \ {one(s)}]]
           count == [s \in SUBSET S |-> Cardinality(Into(s))]
<1>1. \A s : IsFiniteSet(Into(s)) /\ Cardinality(Into(s)) \in Nat
  <2> SUFFICES ASSUME NEW s PROVE IsFiniteSet(Into(s)) /\ Cardinality(Into(s)) \in Nat
    OBVIOUS
  <2>1. Into(s) \subseteq T
    BY DEF SentInto
  <2> HIDE DEF Into
  <2> QED BY <2>1, FS_Subset, FS_CardinalityType
<1>2. \A s \in SUBSET S : s # {} => one(s) \in s
  OBVIOUS
<1>3. ASSUME NEW s \in SUBSET S, NEW x \in s
      PROVE  Cardinality(Into(s)) = f[x] + Cardinality(Into(s \ {x}))
  <2> DEFINE A == Into({x})
             B == Into(s \ {x})
  <2>1. Into(s) = A \cup B /\ A \cap B = {} /\ A \subseteq T
    BY DEF SentInto
  <2>2. f[x] = Cardinality(A)
    OBVIOUS
  <2>3. IsFiniteSet(A) /\ IsFiniteSet(B)
    <3>1. IsFiniteSet(B)
      BY <1>1
    <3> HIDE DEF A, B
    <3> QED BY <2>1, <3>1, FS_Subset
  <2>4. Cardinality(A \cup B) = Cardinality(A) + Cardinality(B)
    <3> HIDE DEF A, B
    <3>1. Cardinality(A \cup B) = Cardinality(A) + Cardinality(B) - Cardinality(A \cap B)
      BY <2>3, FS_Union
    <3>2. Cardinality(A \cap B) = 0
      BY <2>1, FS_EmptySet
    <3>3. Cardinality(A) \in Nat /\ Cardinality(B) \in Nat
      BY <2>3, FS_CardinalityType
    <3> QED BY <3>1, <3>2, <3>3
  <2> HIDE DEF A, B, Into
  <2> QED BY <2>1, <2>2, <2>4 DEF B
<1>4. Cardinality(Into({})) = 0
  <2>1. Into({}) = {}
    BY DEF SentInto
  <2> HIDE DEF Into
  <2> QED BY <2>1, FS_EmptySet
<1>5. \A s \in SUBSET S : count[s] = Cardinality(Into(s))
  OBVIOUS
<1> HIDE DEF Into, one
<1>6. Solves(count)
  <2>1. ASSUME NEW s \in SUBSET S
        PROVE  Cardinality(Into(s)) = IF s = {} THEN 0 ELSE f[one(s)] + count[s \ {one(s)}]
    <3>1. CASE s = {}
      BY <1>4, <3>1
    <3>2. CASE s # {}
      <4>1. s \ {one(s)} \in SUBSET S
        OBVIOUS
      <4>2. count[s \ {one(s)}] = Cardinality(Into(s \ {one(s)}))
        BY <4>1, <1>5
      <4> HIDE DEF count
      <4> QED BY <1>2, <1>3, <3>2, <4>2
    <3> QED BY <3>1, <3>2
  <2>2. count = [s \in SUBSET S |-> Cardinality(Into(s))]
    OBVIOUS
  <2> HIDE DEF count
  <2> QED BY <2>1, <2>2
<1> HIDE DEF count
<1>7. ASSUME NEW g, Solves(g) PROVE g[S] = count[S]
  <2> DEFINE F == {s \in SUBSET S : g[s] # count[s]}
  <2> SUFFICES ASSUME F # {} PROVE FALSE
    OBVIOUS
  <2>1. PICK A : Smallest(A, F)
    <3>1. F \in SUBSET SUBSET S
      OBVIOUS
    <3> HIDE DEF F
    <3> QED BY <3>1, SmallestSet
  <2>2. A \in SUBSET S /\ g[A] # count[A]
    BY <2>1 DEF Smallest
  <2>3. \A s \in SUBSET S : g[s] = IF s = {} THEN 0 ELSE f[one(s)] + g[s \ {one(s)}]
    BY <1>7
  <2>4. \A s \in SUBSET S : count[s] = IF s = {} THEN 0 ELSE f[one(s)] + count[s \ {one(s)}]
    BY <1>6
  <2>5. A # {}
    BY <2>2, <2>3, <2>4
  <2>6. one(A) \in A
    BY <1>2, <2>2, <2>5
  <2> DEFINE B == A \ {one(A)}
  <2>7. g[B] # count[B]
    BY <2>2, <2>3, <2>4, <2>5
  <2>8. B \in F /\ B \subseteq A /\ B # A
    BY <2>2, <2>6, <2>7
  <2> QED BY <2>1, <2>8 DEF Smallest
<1>8. SumFunctionOnSet(f, S) = (CHOOSE g : Solves(g))[S]
  BY DEF SumFunctionOnSet, FoldFunctionOnSet, MapThenFoldSet, one
<1>9. Solves(CHOOSE g : Solves(g))
  <2>1. \E g : Solves(g)
    BY <1>6
  <2> HIDE DEF Solves
  <2> QED BY <2>1
<1>10. count[S] = Cardinality(SentInto(h, T, S))
  BY <1>5 DEF Into
<1> QED
  <2>1. (CHOOSE g : Solves(g))[S] = count[S]
    <3> DEFINE c == CHOOSE g : Solves(g)
    <3>1. Solves(c)
      BY <1>9
    <3> HIDE DEF c
    <3>2. c[S] = count[S]
      BY <1>7, <3>1
    <3> QED BY <3>2 DEF c
  <2> HIDE DEF Solves
  <2> QED BY <1>8, <1>10, <2>1
=============================================================================
