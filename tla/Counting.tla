------------------------------ MODULE Counting ------------------------------
(***************************************************************************)
(* Lemmas about finite sets of numbers that the proofs share: least        *)
(* elements, the rank of an element, and counting the bytes of a family of *)
(* snapshots.                                                              *)
(*                                                                         *)
(* Induction comes in through the first of them, which rests on the        *)
(* finite sets being well ordered by inclusion.                            *)
(***************************************************************************)
EXTENDS Integers, Sequences, FiniteSetTheorems, WellFoundedInduction, TLAPS

\* Every set of natural numbers that is not empty has a least element.
LEMMA LeastNat ==
    ASSUME NEW T \in SUBSET Nat, T # {}
    PROVE  \E m \in T : \A n \in T : m <= n
<1>1. PICK k \in T : TRUE
    OBVIOUS
<1> DEFINE U == {1 .. i : i \in {j \in T : j <= k}}
<1>2. U \subseteq FiniteSubsetsOf(Nat) /\ U # {}
    <2>1. \A i \in Nat : IsFiniteSet(1 .. i)
        BY FS_Interval
    <2> QED
        BY <1>1, <2>1 DEF FiniteSubsetsOf
<1>3. PICK x \in U : \A y \in U : <<y, x>> \notin StrictSubsetOrdering(Nat)
    <2> HIDE DEF U
    <2> QED
        BY <1>2, FS_StrictSubsetOrderingWellFounded, WFMin
<1>4. PICK m \in T : m <= k /\ x = 1 .. m
    OBVIOUS
<1>5. ASSUME NEW n \in T, n < m
      PROVE  FALSE
    <2>1. 1 .. n \in U
        BY <1>4, <1>5
    <2>2. 1 .. n \subseteq 1 .. m /\ m \in 1 .. m /\ m \notin 1 .. n
        BY <1>5
    <2>3. <<1 .. n, 1 .. m>> \in StrictSubsetOrdering(Nat)
        BY <2>2 DEF StrictSubsetOrdering
    <2> QED
        BY <1>3, <1>4, <2>1, <2>3
<1> QED
    BY <1>4, <1>5

\* The elements of a set that are at most i.
UpTo(S, i) == {j \in S : j <= i}

\* From one number to the next, at most that number is added.
LEMMA UpToStep ==
    ASSUME NEW S, \A j \in S : j \in Nat, NEW i \in Nat
    PROVE  /\ UpTo(S, i) = IF i \in S THEN UpTo(S, i - 1) \cup {i} ELSE UpTo(S, i - 1)
           /\ i \notin UpTo(S, i - 1)
           /\ UpTo(S, -1) = {}
<1>1. CASE i \in S
    <2>1. \A j \in S : j <= i <=> j <= i - 1 \/ j = i
        OBVIOUS
    <2>2. \A j : j \in UpTo(S, i) <=> j \in UpTo(S, i - 1) \cup {i}
        BY <1>1, <2>1 DEF UpTo
    <2>3. UpTo(S, i) = UpTo(S, i - 1) \cup {i}
        BY <2>2, Zenon
    <2>4. i \notin UpTo(S, i - 1) /\ UpTo(S, -1) = {}
        BY DEF UpTo
    <2> QED
        BY <1>1, <2>3, <2>4
<1>2. CASE i \notin S
    <2>1. \A j \in S : j <= i <=> j <= i - 1
        BY <1>2
    <2> QED
        BY <2>1 DEF UpTo
<1>3. UpTo(S, -1) = {} /\ i \notin UpTo(S, i - 1)
    BY DEF UpTo
<1> QED
    BY <1>1, <1>2, <1>3

\* Of a set of positions there is one of every rank.
LEMMA EveryRankIsTaken ==
    ASSUME NEW n \in Nat, NEW S \in SUBSET (1 .. n), NEW k \in 1 .. Cardinality(S)
    PROVE  \E i \in S : Cardinality(UpTo(S, i)) = k
<1>1. IsFiniteSet(S) /\ \A i \in Int : IsFiniteSet(UpTo(S, i))
    <2>1. IsFiniteSet(S)
        <3>1. IsFiniteSet(1 .. n)
            BY FS_Interval
        <3> QED
            BY <3>1, FS_Subset
    <2>2. \A i : UpTo(S, i) \in SUBSET S
        BY DEF UpTo
    <2> QED
        BY <2>1, <2>2, FS_Subset
<1>2. \A j \in S : j \in Nat /\ 0 < j /\ j <= n
    OBVIOUS
<1> DEFINE T == {i \in Nat : Cardinality(UpTo(S, i)) >= k}
<1>3. T # {}
    <2>1. UpTo(S, n) = S
        BY <1>2 DEF UpTo
    <2> QED
        BY <1>1, <2>1, FS_CardinalityType
<1>4. PICK i \in T : \A i2 \in T : i <= i2
    <2> HIDE DEF T
    <2>1. T \in SUBSET Nat
        BY DEF T
    <2> QED
        BY <1>3, <2>1, LeastNat
<1> HIDE DEF T
<1>5. i \in Nat /\ Cardinality(UpTo(S, i)) >= k
    BY <1>4 DEF T
<1>6. \A j \in S : j \in Nat
    BY <1>2
<1>7. /\ UpTo(S, i) = IF i \in S THEN UpTo(S, i - 1) \cup {i} ELSE UpTo(S, i - 1)
      /\ i \notin UpTo(S, i - 1)
      /\ UpTo(S, -1) = {}
    BY <1>5, <1>6, UpToStep, Zenon
<1>8. IsFiniteSet(UpTo(S, i - 1)) /\ Cardinality(UpTo(S, i - 1)) \in Nat
    BY <1>1, <1>5, FS_CardinalityType
<1>9. Cardinality(UpTo(S, i - 1)) < k
    <2>1. CASE i = 0
        <3>1. UpTo(S, i - 1) = {}
            BY <1>7, <2>1
        <3> QED
            BY <3>1, FS_EmptySet
    <2>2. CASE i # 0
        <3>1. i - 1 \in Nat
            BY <1>5, <2>2
        <3> QED
            BY <1>4, <1>5, <1>8, <3>1 DEF T
    <2> QED
        BY <2>1, <2>2
<1>10. i \in S
    BY <1>5, <1>7, <1>8, <1>9
<1>11. Cardinality(UpTo(S, i)) = Cardinality(UpTo(S, i - 1)) + 1
    <2>1. UpTo(S, i) = UpTo(S, i - 1) \cup {i}
        BY <1>7, <1>10
    <2> QED
        BY <1>7, <1>8, <2>1, FS_AddElement
<1> QED
    BY <1>5, <1>8, <1>9, <1>10, <1>11

\* The numbers up to n.
LEMMA FirstNumbers ==
    \A n \in Nat : IsFiniteSet(1 .. n) /\ Cardinality(1 .. n) = n
<1>1. TAKE n \in Nat
<1>2. 1 \in Int /\ n \in Int /\ (IF 1 > n THEN 0 ELSE n - 1 + 1) = n
    OBVIOUS
<1>3. IsFiniteSet(1 .. n) /\ Cardinality(1 .. n) = IF 1 > n THEN 0 ELSE n - 1 + 1
    BY <1>2, FS_Interval
<1> QED
    BY <1>2, <1>3

\* What is numbered one to one by a finite set has as many elements.
LEMMA SameNumber ==
    ASSUME NEW S, IsFiniteSet(S), NEW T, NEW f \in [S -> T],
           \A a, b \in S : f[a] = f[b] => a = b,
           \A t \in T : \E a \in S : f[a] = t
    PROVE  IsFiniteSet(T) /\ Cardinality(T) = Cardinality(S)
<1>1. f \in Injection(S, T)
    BY DEF Injection, IsInjective
<1>2. f \in Surjection(S, T)
    BY DEF Surjection
<1> QED
    BY <1>1, <1>2, FS_Surjection

\* Different elements of a set of positions have different ranks, none of them
\* larger than the set.
LEMMA RanksDiffer ==
    ASSUME NEW n \in Nat, NEW S \in SUBSET (1 .. n), NEW i \in S, NEW j \in S
    PROVE  /\ Cardinality(UpTo(S, i)) \in 1 .. Cardinality(S)
           /\ Cardinality(UpTo(S, i)) = Cardinality(UpTo(S, j)) => i = j
<1>1. IsFiniteSet(S)
    <2>1. IsFiniteSet(1 .. n)
        BY FS_Interval
    <2> QED
        BY <2>1, FS_Subset
<1>2. ASSUME NEW a \in S, NEW b \in S, a < b
      PROVE  Cardinality(UpTo(S, a)) < Cardinality(UpTo(S, b))
    <2>1. UpTo(S, a) \in SUBSET UpTo(S, b) /\ UpTo(S, a) # UpTo(S, b)
        <3>1. \A x \in S : x \in Nat
            OBVIOUS
        <3>2. \A x \in S : x <= a => x <= b
            BY <1>2, <3>1
        <3>3. b <= b /\ ~(b <= a)
            BY <1>2, <3>1
        <3>4. b \in UpTo(S, b) /\ b \notin UpTo(S, a)
            BY <3>3 DEF UpTo
        <3> QED
            BY <3>2, <3>4 DEF UpTo
    <2>2. UpTo(S, b) \in SUBSET S
        BY DEF UpTo
    <2>3. IsFiniteSet(UpTo(S, b))
        BY <1>1, <2>2, FS_Subset
    <2>4. IsFiniteSet(UpTo(S, a)) /\ Cardinality(UpTo(S, a)) <= Cardinality(UpTo(S, b))
          /\ (Cardinality(UpTo(S, b)) = Cardinality(UpTo(S, a)) => UpTo(S, b) = UpTo(S, a))
        BY <2>1, <2>3, FS_Subset
    <2> QED
        BY <2>1, <2>3, <2>4, FS_CardinalityType
<1>3. i \in Nat /\ j \in Nat
    OBVIOUS
<1>4. UpTo(S, i) \in SUBSET S /\ i \in UpTo(S, i)
    BY <1>3 DEF UpTo
<1>5. IsFiniteSet(UpTo(S, i)) /\ Cardinality(UpTo(S, i)) <= Cardinality(S)
    BY <1>1, <1>4, FS_Subset
<1>6. Cardinality(UpTo(S, i)) \in Nat /\ Cardinality(S) \in Nat /\ Cardinality(UpTo(S, i)) # 0
    <2>1. UpTo(S, i) # {}
        BY <1>4
    <2> QED
        BY <1>1, <1>5, <2>1, FS_CardinalityType, FS_EmptySet
<1>7. IsFiniteSet(UpTo(S, j)) /\ Cardinality(UpTo(S, j)) \in Nat
    <2>1. UpTo(S, j) \in SUBSET S
        BY DEF UpTo
    <2> QED
        BY <1>1, <2>1, FS_Subset, FS_CardinalityType
<1>8. Cardinality(UpTo(S, i)) = Cardinality(UpTo(S, j)) => i = j
    BY <1>2, <1>3, <1>6, <1>7
<1> QED
    BY <1>5, <1>6, <1>8

\* Induction on finite sets: what is closed under adding an element contains S.
LEMMA FiniteInduction ==
    ASSUME NEW S, IsFiniteSet(S), NEW P, {} \in P,
           \A T \in SUBSET S : \A x \in S \ T : T \in P => T \cup {x} \in P
    PROVE  S \in P
<1> DEFINE B == {T \in SUBSET S : T \notin P}
<1>1. SUFFICES ASSUME S \notin P PROVE FALSE
    OBVIOUS
<1>2. B \subseteq FiniteSubsetsOf(S) /\ B # {}
    <2>1. \A T \in SUBSET S : IsFiniteSet(T)
        BY FS_Subset
    <2> QED
        BY <1>1, <2>1 DEF FiniteSubsetsOf
<1>3. PICK T \in B : \A U \in B : <<U, T>> \notin StrictSubsetOrdering(S)
    <2> HIDE DEF B
    <2> QED
        BY <1>2, FS_StrictSubsetOrderingWellFounded, WFMin
<1>4. PICK x \in T : TRUE
    OBVIOUS
<1>5. T \ {x} \in SUBSET S /\ x \in S \ (T \ {x}) /\ (T \ {x}) \cup {x} = T
    OBVIOUS
<1>6. T \ {x} \notin P
    BY <1>5
<1>7. <<T \ {x}, T>> \in StrictSubsetOrdering(S)
    BY <1>4, <1>5 DEF StrictSubsetOrdering
<1> QED
    BY <1>3, <1>5, <1>6, <1>7

\* A size is counted as that many pairs with one first component: as many are
\* added to a set of pairs that has none of them.
LEMMA SizeIsCounted ==
    ASSUME NEW R, IsFiniteSet(R), NEW x, NEW n \in Nat, \A u \in R : u[1] # x
    PROVE  /\ IsFiniteSet(R \cup ({x} \X (1 .. n)))
           /\ Cardinality(R \cup ({x} \X (1 .. n))) = Cardinality(R) + n
<1> DEFINE new == {x} \X (1 .. n)
<1>1. IsFiniteSet({x}) /\ Cardinality({x}) = 1
    BY FS_Singleton
<1>2. IsFiniteSet(1 .. n) /\ Cardinality(1 .. n) = n
    BY FS_Interval
<1>3. IsFiniteSet(new) /\ Cardinality(new) = Cardinality({x}) * Cardinality(1 .. n)
    BY <1>1, <1>2, FS_Product, Zenon
<1>4. R \cap new = {}
    OBVIOUS
<1>5. Cardinality(new) = n /\ Cardinality(R) \in Nat
    BY <1>1, <1>2, <1>3, FS_CardinalityType
<1> HIDE DEF new
<1>6. IsFiniteSet(R \cup new) /\ Cardinality(R \cup new) = Cardinality(R) + Cardinality(new) - Cardinality({})
    BY <1>3, <1>4, FS_Union
<1> QED
    BY <1>5, <1>6, FS_EmptySet DEF new

-----------------------------------------------------------------------------
(* Recursion and induction over sequences                                  *)

\* What is defined step by step exists.
Follows(f, n, S, a, G) == f \in [0 .. n -> S] /\ f[0] = a /\ \A i \in 1 .. n : f[i] = G[<<i, f[i - 1]>>]

LEMMA Recursion ==
    ASSUME NEW n \in Nat, NEW S, NEW a \in S, NEW G \in [Nat \X S -> S]
    PROVE  \E f : Follows(f, n, S, a, G)
<1> DEFINE Steps(f, m) == f \in [0 .. m -> S] /\ f[0] = a /\ \A i \in 1 .. m : f[i] = G[<<i, f[i - 1]>>]
           bad == {m \in 0 .. n : ~ \E f : Steps(f, m)}
<1>1. ASSUME bad # {}
      PROVE  FALSE
    <2>1. bad \in SUBSET Nat
        <3>1. bad \subseteq 0 .. n
            BY Zenon
        <3> HIDE DEF bad
        <3> QED
            BY <3>1
    <2>2. PICK m \in bad : \A k \in bad : m <= k
        <3> HIDE DEF bad
        <3> QED
            BY <1>1, <2>1, LeastNat
    <2>3. m \in 0 .. n /\ ~ \E f : Steps(f, m)
        OBVIOUS
    <2>4. CASE m = 0
        <3>1. Steps([i \in 0 .. 0 |-> a], 0)
            OBVIOUS
        <3> QED
            BY <2>3, <2>4, <3>1
    <2>5. CASE m > 0
        <3>1. m - 1 \in 0 .. n /\ m - 1 \notin bad
            <4>1. m - 1 \in 0 .. n
                BY <2>3, <2>5
            <4> HIDE DEF bad
            <4> QED
                BY <2>2, <2>3, <4>1
        <3>2. PICK f : Steps(f, m - 1)
            BY <3>1
        <3> DEFINE x == G[<<m, f[m - 1]>>]
                   g == [i \in 0 .. m |-> IF i < m THEN f[i] ELSE x]
        <3>3. x \in S
            <4>1. m - 1 \in 0 .. m - 1 /\ m \in Nat
                BY <2>3, <2>5
            <4> QED
                BY <3>2, <4>1
        <3>4. g \in [0 .. m -> S] /\ g[0] = a
            <4>1. \A i \in 0 .. m : i < m => i \in 0 .. m - 1
                BY <2>3
            <4>2. 0 \in 0 .. m /\ 0 < m
                BY <2>3, <2>5
            <4> HIDE DEF x
            <4> QED
                BY <3>2, <3>3, <4>1, <4>2
        <3>5. ASSUME NEW i \in 1 .. m
              PROVE  g[i] = G[<<i, g[i - 1]>>]
            <4>1. i \in 0 .. m /\ i - 1 \in 0 .. m /\ i - 1 < m /\ m \in Nat
                BY <2>3
            <4>2. g[i - 1] = f[i - 1]
                BY <4>1
            <4>3. CASE i = m
                BY <2>3, <4>1, <4>2, <4>3
            <4>4. CASE i < m
                <5>1. i \in 1 .. m - 1 /\ g[i] = f[i]
                    BY <2>3, <4>1, <4>4
                <5> HIDE DEF g
                <5> QED
                    BY <3>2, <4>2, <5>1
            <4> QED
                BY <2>3, <4>3, <4>4
        <3>6. Steps(g, m)
            <4> HIDE DEF g
            <4> QED
                BY <3>4, <3>5
        <3> QED
            BY <2>3, <3>6
    <2> QED
        BY <2>3, <2>4, <2>5
<1>2. n \in 0 .. n /\ bad = {}
    BY <1>1
<1>3. \E f : Steps(f, n)
    BY <1>2
<1> QED
    BY <1>3 DEF Follows

\* What holds of the empty sequence and is kept by appending holds of every sequence.
LEMMA SequenceInduction ==
    ASSUME NEW T, NEW P, <<>> \in P,
           \A s \in Seq(T) : \A x \in T : s \in P => Append(s, x) \in P
    PROVE  Seq(T) \subseteq P
<1> DEFINE bad == {n \in Nat : \E s \in Seq(T) : Len(s) = n /\ s \notin P}
<1>1. ASSUME bad # {}
      PROVE  FALSE
    <2>1. bad \in SUBSET Nat
        OBVIOUS
    <2>2. PICK m \in bad : \A k \in bad : m <= k
        <3> HIDE DEF bad
        <3> QED
            BY <1>1, <2>1, LeastNat
    <2>3. PICK s \in Seq(T) : Len(s) = m /\ s \notin P
        OBVIOUS
    <2>4. s # <<>> /\ m \in Nat /\ m # 0
        BY <2>3
    <2> DEFINE t == SubSeq(s, 1, m - 1)
    <2>5. t \in Seq(T) /\ Len(t) = m - 1 /\ s[m] \in T /\ s = Append(t, s[m])
        BY <2>3, <2>4
    <2>6. m - 1 \in Nat /\ m - 1 \notin bad
        <3>1. m - 1 \in Nat /\ m - 1 < m
            BY <2>4
        <3> HIDE DEF bad
        <3> QED
            BY <2>2, <2>4, <3>1
    <2> HIDE DEF t
    <2>7. t \in P
        BY <2>5, <2>6
    <2> QED
        BY <2>3, <2>5, <2>7
<1>2. ASSUME NEW s \in Seq(T)
      PROVE  s \in P
    <2>1. Len(s) \in Nat
        OBVIOUS
    <2> QED
        BY <1>1, <2>1
<1> QED
    BY <1>2

=============================================================================
