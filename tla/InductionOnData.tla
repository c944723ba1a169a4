--------------------------- MODULE InductionOnData ---------------------------
(* Induction stated about sets of numbers, and what it gives for functions    *)
(* defined by recursion: the proofs about folds, recursive functions and      *)
(* CHOOSE of a smallest element rest on it.                                   *)
EXTENDS Naturals, FiniteSets, FiniteSetTheorems, WellFoundedInduction, TLAPS

\* A set of numbers has a smallest one.
LEMMA SmallestNumber ==
  ASSUME NEW S, S \subseteq Nat, S # {}
  PROVE  \E p \in S : \A q \in S : p <= q
  <1>1. PICK p \in S : \A q \in S : <<q, p>> \notin OpToRel(<, Nat)
    BY NatLessThanWellFounded, WFMin
  <1>2. \A q \in S : ~(q < p) BY <1>1 DEF OpToRel
  <1> QED BY <1>2

\* A bounded set of numbers has a largest one.
LEMMA LargestNumber ==
  ASSUME NEW n \in Nat, NEW S \in SUBSET (0 .. n), S # {}
  PROVE  \E p \in S : \A q \in S : q <= p
  <1> DEFINE below == {k \in Nat : n - k \in S}
  <1>1. PICK x \in S : TRUE OBVIOUS
  <1>2. n - x \in Nat /\ n - (n - x) = x BY <1>1
  <1>3. n - x \in below BY <1>1, <1>2
  <1>4. below \subseteq Nat /\ below # {} BY <1>3
  <1>5. PICK k \in below : \A j \in below : k <= j BY <1>4, SmallestNumber
  <1>6. k \in Nat /\ n - k \in S BY <1>5
  <1>7. ASSUME NEW q \in S PROVE q <= n - k
    <2>1. q \in 0 .. n OBVIOUS
    <2>2. n - q \in Nat /\ n - (n - q) = q BY <2>1
    <2>3. n - q \in below BY <2>2
    <2>4. k <= n - q BY <2>3, <1>5
    <2> QED BY <2>1, <2>4, <1>6
  <1> QED BY <1>6, <1>7

\* A set of numbers with 0 and the successor of each of its members holds all.
LEMMA AllNumbers ==
  ASSUME NEW S, 0 \in S, \A n \in Nat : n \in S => n + 1 \in S
  PROVE  \A n \in Nat : n \in S
  <1> DEFINE T == {n \in Nat : n \notin S}
  <1> SUFFICES ASSUME T # {} PROVE FALSE OBVIOUS
  <1>1. PICK n \in T : \A k \in T : n <= k BY SmallestNumber
  <1>2. n \in Nat /\ n # 0 /\ n \notin S BY <1>1
  <1>3. n - 1 \in Nat /\ n - 1 \notin T BY <1>1, <1>2
  <1>4. n - 1 \in S /\ (n - 1) + 1 = n BY <1>2, <1>3
  <1> QED BY <1>2, <1>3, <1>4

\* The same for the numbers up to a bound.
LEMMA AllNumbersUpTo ==
  ASSUME NEW m \in Nat, NEW S, 0 \in S,
         \A n \in 1..m : n - 1 \in S => n \in S
  PROVE  \A n \in 0..m : n \in S
  <1> DEFINE T == {n \in Nat : n <= m => n \in S}
  <1>1. 0 \in T OBVIOUS
  <1>2. ASSUME NEW n \in Nat, n \in T PROVE n + 1 \in T
    <2>1. CASE n + 1 <= m
      <3>1. n + 1 \in 1..m /\ (n + 1) - 1 = n /\ n \in S BY <1>2, <2>1
      <3> QED BY <3>1
    <2>2. CASE ~(n + 1 <= m) BY <2>2
    <2> QED BY <2>1, <2>2
  <1> HIDE DEF T
  <1>3. \A n \in Nat : n \in T BY <1>1, <1>2, AllNumbers
  <1> QED BY <1>3 DEF T

-----------------------------------------------------------------------------
(* Recursion over the subsets of a finite set, by way of an element picked    *)
(* from each: what the folds of the community modules do.                     *)

SmallSets(T, n) == {S \in SUBSET T : Cardinality(S) <= n}

LEMMA EmptyOnly ==
  ASSUME NEW T, IsFiniteSet(T)
  PROVE  \A S \in SmallSets(T, 0) : S = {}
  <1> SUFFICES ASSUME NEW S \in SmallSets(T, 0) PROVE S = {} OBVIOUS
  <1>1. S \in SUBSET T /\ Cardinality(S) <= 0 BY DEF SmallSets
  <1>2. IsFiniteSet(S) /\ Cardinality(S) \in Nat BY <1>1, FS_Subset, FS_CardinalityType
  <1> QED BY <1>1, <1>2, FS_EmptySet

LEMMA AllSmall ==
  ASSUME NEW T, IsFiniteSet(T)
  PROVE  Cardinality(T) \in Nat /\ SmallSets(T, Cardinality(T)) = SUBSET T
  BY FS_Subset, FS_CardinalityType DEF SmallSets

\* A set without one of its elements is smaller by one.
LEMMA OneLess ==
  ASSUME NEW T, IsFiniteSet(T), NEW n \in Nat, NEW S \in SmallSets(T, n + 1), NEW x \in S
  PROVE  S \ {x} \in SmallSets(T, n)
  <1>1. S \in SUBSET T /\ Cardinality(S) <= n + 1 BY DEF SmallSets
  <1>2. IsFiniteSet(S) /\ Cardinality(S) \in Nat BY <1>1, FS_Subset, FS_CardinalityType
  <1>3. Cardinality(S \ {x}) = Cardinality(S) - 1 BY <1>2, FS_RemoveElement
  <1>4. S \ {x} \in SUBSET T BY <1>1
  <1> QED BY <1>1, <1>2, <1>3, <1>4 DEF SmallSets

\* f is defined on the sets in SS by recursion with the steps of F.
Recurses(f, SS, base, pick, F) ==
  f = [S \in SS |-> IF S = {} THEN base ELSE F[<<pick[S], f[S \ {pick[S]}]>>]]

\* The recursion defines a function, and its values are in V.
LEMMA RecursionOnSubsets ==
  ASSUME NEW T, IsFiniteSet(T), NEW V, NEW base \in V, NEW F \in [T \X V -> V],
         NEW pick, \A S \in SUBSET T : S # {} => pick[S] \in S
  PROVE  \E f \in [SUBSET T -> V] : Recurses(f, SUBSET T, base, pick, F)
  <1> DEFINE N == {n \in Nat : \E f \in [SmallSets(T, n) -> V] :
                                 Recurses(f, SmallSets(T, n), base, pick, F)}
  <1>1. 0 \in N
    <2> DEFINE f == [S \in SmallSets(T, 0) |-> base]
    <2>1. f \in [SmallSets(T, 0) -> V] OBVIOUS
    <2>2. Recurses(f, SmallSets(T, 0), base, pick, F) BY EmptyOnly DEF Recurses
    <2> HIDE DEF f
    <2> QED BY <2>1, <2>2
  <1>2. ASSUME NEW n \in Nat, n \in N PROVE n + 1 \in N
    <2>1. PICK g \in [SmallSets(T, n) -> V] : Recurses(g, SmallSets(T, n), base, pick, F)
      BY <1>2
    <2> DEFINE step(h, S) == IF S = {} THEN base ELSE F[<<pick[S], h[S \ {pick[S]}]>>]
               f == [S \in SmallSets(T, n + 1) |-> step(g, S)]
    <2>2. \A S \in SmallSets(T, n) : S \in SmallSets(T, n + 1)
      <3> SUFFICES ASSUME NEW S \in SmallSets(T, n) PROVE Cardinality(S) <= n + 1
        BY DEF SmallSets
      <3>1. S \in SUBSET T /\ Cardinality(S) <= n BY DEF SmallSets
      <3>2. Cardinality(S) \in Nat BY <3>1, FS_Subset, FS_CardinalityType
      <3> QED BY <3>1, <3>2
    <2>3. ASSUME NEW S \in SmallSets(T, n) PROVE f[S] = g[S]
      <3>1. f[S] = step(g, S) BY <2>2
      <3>2. g[S] = step(g, S) BY <2>1 DEF Recurses
      <3> QED BY <3>1, <3>2
    <2>4. ASSUME NEW S \in SmallSets(T, n + 1), S # {}
          PROVE  /\ pick[S] \in T /\ S \ {pick[S]} \in SmallSets(T, n)
                 /\ f[S \ {pick[S]}] = g[S \ {pick[S]}]
      <3>1. pick[S] \in S /\ S \subseteq T BY <2>4 DEF SmallSets
      <3>2. S \ {pick[S]} \in SmallSets(T, n) BY <3>1, OneLess
      <3> QED BY <2>3, <3>1, <3>2
    <2>5. \A S \in SmallSets(T, n + 1) : step(g, S) = step(f, S) /\ step(g, S) \in V
      <3> SUFFICES ASSUME NEW S \in SmallSets(T, n + 1)
                   PROVE  step(g, S) = step(f, S) /\ step(g, S) \in V
        OBVIOUS
      <3> HIDE DEF f
      <3>1. CASE S = {} BY <3>1
      <3>2. CASE S # {}
        <4>1. g[S \ {pick[S]}] \in V BY <2>4, <3>2
        <4>2. <<pick[S], g[S \ {pick[S]}]>> \in T \X V BY <2>4, <3>2, <4>1
        <4> QED BY <2>4, <3>2, <4>2
      <3> QED BY <3>1, <3>2
    <2>6. f \in [SmallSets(T, n + 1) -> V] BY <2>5
    <2>7. f = [S \in SmallSets(T, n + 1) |-> step(f, S)]
      <3>1. \A S \in SmallSets(T, n + 1) : step(g, S) = step(f, S) BY <2>5
      <3> HIDE DEF step
      <3>2. [S \in SmallSets(T, n + 1) |-> step(g, S)] = [S \in SmallSets(T, n + 1) |-> step(f, S)]
        BY <3>1
      <3> QED BY <3>2
    <2>8. Recurses(f, SmallSets(T, n + 1), base, pick, F)
      <3> HIDE DEF f
      <3> QED BY <2>7 DEF Recurses
    <2> HIDE DEF f
    <2> QED BY <2>6, <2>8
  <1> HIDE DEF N
  <1>3. \A n \in Nat : n \in N BY <1>1, <1>2, AllNumbers
  <1>4. Cardinality(T) \in N BY <1>3, AllSmall
  <1> QED BY <1>4, AllSmall, ZenonT(60) DEF N

\* What holds of the empty set's value and is kept by each step of such a
\* recursion holds of every value.
LEMMA InductionOnSubsets ==
  ASSUME NEW T, IsFiniteSet(T), NEW V, NEW h, NEW pick,
         \A S \in SUBSET T : S # {} => pick[S] \in S,
         h[{}] \in V,
         \A S \in SUBSET T : S # {} /\ h[S \ {pick[S]}] \in V => h[S] \in V
  PROVE  \A S \in SUBSET T : h[S] \in V
  <1> DEFINE N == {n \in Nat : \A S \in SmallSets(T, n) : h[S] \in V}
  <1>1. 0 \in N BY EmptyOnly
  <1>2. ASSUME NEW n \in Nat, n \in N PROVE n + 1 \in N
    <2> SUFFICES ASSUME NEW S \in SmallSets(T, n + 1) PROVE h[S] \in V OBVIOUS
    <2>1. S \in SUBSET T BY DEF SmallSets
    <2>2. CASE S = {} BY <2>2
    <2>3. CASE S # {}
      <3>1. S \ {pick[S]} \in SmallSets(T, n) BY <2>1, <2>3, OneLess
      <3>2. h[S \ {pick[S]}] \in V BY <1>2, <3>1
      <3> QED BY <2>1, <2>3, <3>2
    <2> QED BY <2>2, <2>3
  <1> HIDE DEF N
  <1>3. \A n \in Nat : n \in N BY <1>1, <1>2, AllNumbers
  <1>4. Cardinality(T) \in N BY <1>3, AllSmall
  <1> QED BY <1>4, AllSmall DEF N
=============================================================================
