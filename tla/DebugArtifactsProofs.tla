------------------------ MODULE DebugArtifactsProofs ------------------------
(***************************************************************************)
(* Theorems about DebugArtifacts: the response cache and the artifact      *)
(* store count what they hold, keep within their bounds and give up the    *)
(* oldest first.                                                           *)
(*                                                                         *)
(* Since a store has one entry for a key, its list of entries is as good   *)
(* as a set of them, and what it counts is the size of that set.  Only the *)
(* choice of the oldest looks at the list.                                 *)
(***************************************************************************)
EXTENDS DebugArtifacts, Counting

-----------------------------------------------------------------------------
(* Sizes of sets of entries *)

\* The bytes of some entries, one by one.
Units(E) == UNION {{e} \X (1 .. e.size) : e \in E}

SizeOf(E) == Cardinality(Units(E))

\* A byte of some entries is a byte of one of them.
LEMMA UnitsAre ==
    \A E, u : u \in Units(E) <=> \E e \in E : u \in {e} \X (1 .. e.size)
BY DEF Units

\* Bytes are added up.
LEMMA UnitsOfUnion ==
    \A E, F : Units(E \cup F) = Units(E) \cup Units(F)
BY DEF Units

\* The bytes of one entry.
LEMMA UnitsOfOne ==
    \A e : Units({e}) = {e} \X (1 .. e.size)
BY DEF Units

\* No entries have no bytes.
LEMMA NothingHasNoSize == Units({}) = {} /\ SizeOf({}) = 0
BY FS_EmptySet DEF Units, SizeOf

\* Finitely many entries have finitely many bytes.
LEMMA UnitsAreFinite ==
    ASSUME NEW E, IsFiniteSet(E), \A e \in E : e.size \in Nat
    PROVE  IsFiniteSet(Units(E)) /\ SizeOf(E) \in Nat
<1> DEFINE P == {T \in SUBSET E : IsFiniteSet(Units(T))}
<1>1. {} \in P
    BY NothingHasNoSize, FS_EmptySet
<1>2. ASSUME NEW T \in SUBSET E, NEW x \in E \ T, T \in P
      PROVE  T \cup {x} \in P
    <2>1. IsFiniteSet({x} \X (1 .. x.size))
        <3>1. IsFiniteSet({x})
            BY FS_Singleton
        <3>2. 1 \in Int /\ x.size \in Int
            OBVIOUS
        <3>3. IsFiniteSet(1 .. x.size)
            BY <3>2, FS_Interval
        <3> QED
            BY <3>1, <3>3, FS_Product
    <2>2. Units(T \cup {x}) = Units(T) \cup ({x} \X (1 .. x.size))
        <3>1. Units(T \cup {x}) = Units(T) \cup Units({x})
            BY UnitsOfUnion, Zenon
        <3>2. Units({x}) = {x} \X (1 .. x.size)
            BY UnitsOfOne, Zenon
        <3> QED
            BY <3>1, <3>2, Zenon
    <2>3. IsFiniteSet(Units(T))
        BY <1>2
    <2>4. IsFiniteSet(Units(T) \cup ({x} \X (1 .. x.size)))
        BY <2>1, <2>3, FS_Union
    <2>5. IsFiniteSet(Units(T \cup {x}))
        BY <2>2, <2>4, Zenon
    <2> QED
        BY <2>5
<1> HIDE DEF P
<1>3. E \in P
    BY <1>1, <1>2, FiniteInduction
<1> QED
    BY <1>3, FS_CardinalityType DEF P, SizeOf

\* The sizes of sets that have no entry in common add up.
LEMMA SizesAddUp ==
    ASSUME NEW E, IsFiniteSet(E), \A e \in E : e.size \in Nat,
           NEW F, IsFiniteSet(F), \A e \in F : e.size \in Nat,
           E \cap F = {}
    PROVE  SizeOf(E \cup F) = SizeOf(E) + SizeOf(F)
<1>1. Units(E) \cap Units(F) = {}
    <2>1. ASSUME NEW u \in Units(E), u \in Units(F)
          PROVE  FALSE
        <3>1. PICK e \in E : u \in {e} \X (1 .. e.size)
            BY UnitsAre
        <3>2. PICK f \in F : u \in {f} \X (1 .. f.size)
            BY <2>1, UnitsAre
        <3>3. u[1] = e /\ u[1] = f
            BY <3>1, <3>2
        <3> QED
            BY <3>3
    <2> QED
        BY <2>1
<1>2. IsFiniteSet(Units(E)) /\ IsFiniteSet(Units(F)) /\ SizeOf(E) \in Nat /\ SizeOf(F) \in Nat
    BY UnitsAreFinite
<1>3. Cardinality(Units(E) \cup Units(F)) = SizeOf(E) + SizeOf(F) - Cardinality({})
    BY <1>1, <1>2, FS_Union DEF SizeOf
<1>4. Units(E \cup F) = Units(E) \cup Units(F)
    BY UnitsOfUnion, Zenon
<1>5. SizeOf(E \cup F) = Cardinality(Units(E) \cup Units(F)) /\ Cardinality({}) = 0
    BY <1>4, FS_EmptySet, Zenon DEF SizeOf
<1> QED
    BY <1>2, <1>3, <1>5

\* An entry has its size.
LEMMA SizeOfOne ==
    ASSUME NEW e, e.size \in Nat
    PROVE  SizeOf({e}) = e.size
<1>1. \A u \in {} : u[1] # e
    OBVIOUS
<1>2. Cardinality({} \cup ({e} \X (1 .. e.size))) = Cardinality({}) + e.size
    BY <1>1, FS_EmptySet, SizeIsCounted
<1>3. Units({e}) = {} \cup ({e} \X (1 .. e.size))
    BY UnitsOfOne, Zenon
<1>4. SizeOf({e}) = Cardinality({} \cup ({e} \X (1 .. e.size))) /\ Cardinality({}) = 0
    BY <1>3, FS_EmptySet, Zenon DEF SizeOf
<1> QED
    BY <1>2, <1>4

\* Fewer entries have no more bytes.
LEMMA PartsAreSmaller ==
    ASSUME NEW E, IsFiniteSet(E), \A e \in E : e.size \in Nat, NEW F \in SUBSET E
    PROVE  SizeOf(F) <= SizeOf(E) /\ SizeOf(F) \in Nat /\ SizeOf(E) \in Nat
<1>1. Units(F) \in SUBSET Units(E)
    BY UnitsAre
<1> QED
    BY <1>1, UnitsAreFinite, FS_Subset, FS_CardinalityType DEF SizeOf

-----------------------------------------------------------------------------
(* Lists of entries *)

Keyed(s) == \A i, j \in DOMAIN s : s[i].key = s[j].key => i = j

\* Entries with different keys at different positions, each with a size and a date.
Listed(s) ==
    /\ \E n \in Nat : s \in [1 .. n -> ToSet(s)]
    /\ Keyed(s)
    /\ \A e \in ToSet(s) : e.size \in Nat /\ e.stored_at \in Int

\* A list is a sequence of its entries.
LEMMA ListFacts ==
    ASSUME NEW s, Listed(s)
    PROVE  /\ Len(s) \in Nat
           /\ DOMAIN s = 1 .. Len(s)
           /\ s \in Seq(ToSet(s))
           /\ \A i \in 1 .. Len(s) : s[i] \in ToSet(s) /\ s[i].size \in Nat /\ s[i].stored_at \in Int
           /\ \A e \in ToSet(s) : \E i \in 1 .. Len(s) : s[i] = e
           /\ \A i, j \in 1 .. Len(s) : s[i].key = s[j].key => i = j
           /\ \A e, f \in ToSet(s) : e.key = f.key => e = f
<1>1. PICK n \in Nat : s \in [1 .. n -> ToSet(s)]
    BY DEF Listed
<1>2. s \in Seq(ToSet(s)) /\ Len(s) = n /\ DOMAIN s = 1 .. n
    BY <1>1
<1>3. \A e \in ToSet(s) : \E i \in 1 .. n : s[i] = e
    BY <1>2 DEF ToSet
<1>4. \A i, j \in 1 .. n : s[i].key = s[j].key => i = j
    BY <1>2 DEF Listed, Keyed
<1>5. \A i \in 1 .. n : s[i] \in ToSet(s) /\ s[i].size \in Nat /\ s[i].stored_at \in Int
    BY <1>1 DEF Listed
<1>6. \A e, f \in ToSet(s) : e.key = f.key => e = f
    BY <1>3, <1>4
<1> QED
    BY <1>2, <1>3, <1>4, <1>5, <1>6

\* At some positions there are as many entries, and their size is that of the set
\* of entries.
LEMMA PositionsCount ==
    ASSUME NEW s, Listed(s), NEW P \in SUBSET (1 .. Len(s))
    PROVE  LET E == {s[i] : i \in P}
           IN  /\ IsFiniteSet(E)
               /\ Cardinality(E) = Cardinality(P)
               /\ Bytes(s, P) = SizeOf(E)
<1> DEFINE E == {s[i] : i \in P}
           numbered == [i \in P |-> s[i]]
           A == UNION {{i} \X (1 .. s[i].size) : i \in P}
           named == [u \in A |-> <<s[u[1]], u[2]>>]
<1>1. /\ Len(s) \in Nat
      /\ \A i \in P : s[i].size \in Nat
      /\ \A i, j \in P : s[i].key = s[j].key => i = j
    BY ListFacts
<1>2. IsFiniteSet(P)
    <2>1. IsFiniteSet(1 .. Len(s))
        BY <1>1, FirstNumbers
    <2> QED
        BY <2>1, FS_Subset
<1>3. IsFiniteSet(E) /\ Cardinality(E) = Cardinality(P)
    <2>1. numbered \in [P -> E]
        OBVIOUS
    <2>2. \A i, j \in P : numbered[i] = numbered[j] => i = j
        BY <1>1
    <2>3. \A e \in E : \E i \in P : numbered[i] = e
        OBVIOUS
    <2> HIDE DEF numbered, E
    <2> QED
        BY <1>2, <2>1, <2>2, <2>3, SameNumber
<1>4. \A u : u \in A <=> \E i \in P : u \in {i} \X (1 .. s[i].size)
    OBVIOUS
<1>5. \A u \in A : u[1] \in P /\ u[2] \in 1 .. s[u[1]].size /\ u = <<u[1], u[2]>>
    BY <1>4
<1>6. \A i \in P : \A b \in 1 .. s[i].size : <<i, b>> \in A
    BY <1>4
<1> HIDE DEF A
<1>7. named \in [A -> Units(E)]
    <2>1. \A u \in A : s[u[1]] \in E /\ <<s[u[1]], u[2]>> \in {s[u[1]]} \X (1 .. s[u[1]].size)
        BY <1>5
    <2> HIDE DEF E
    <2>2. \A u \in A : <<s[u[1]], u[2]>> \in Units(E)
        BY <2>1, UnitsAre
    <2> QED
        BY <2>2
<1>8. \A u, v \in A : named[u] = named[v] => u = v
    <2>1. ASSUME NEW u \in A, NEW v \in A, named[u] = named[v]
          PROVE  u = v
        <3>1. s[u[1]] = s[v[1]] /\ u[2] = v[2]
            BY <2>1
        <3>2. u[1] = v[1]
            BY <1>1, <1>5, <3>1
        <3> QED
            BY <1>5, <3>1, <3>2
    <2> QED
        BY <2>1
<1>9. \A w \in Units(E) : \E u \in A : named[u] = w
    <2>1. ASSUME NEW w \in Units(E)
          PROVE  \E u \in A : named[u] = w
        <3>1. PICK e \in E : w \in {e} \X (1 .. e.size)
            BY UnitsAre
        <3>2. PICK i \in P : e = s[i]
            BY <3>1
        <3>3. w = <<s[i], w[2]>> /\ w[2] \in 1 .. s[i].size
            BY <3>1, <3>2
        <3>4. <<i, w[2]>> \in A
            BY <1>6, <3>3
        <3> QED
            BY <3>3, <3>4
    <2> QED
        BY <2>1
<1>10. IsFiniteSet(Units(E)) /\ Cardinality(Units(E)) \in Nat
    <2>1. \A e \in E : e.size \in Nat
        BY <1>1
    <2> HIDE DEF E
    <2> QED
        BY <1>3, <2>1, UnitsAreFinite DEF SizeOf
<1>11. IsFiniteSet(A) /\ Cardinality(A) = Cardinality(Units(E))
    <2> HIDE DEF E, named
    <2>1. named \in Injection(A, Units(E))
        BY <1>7, <1>8 DEF Injection, IsInjective
    <2>2. named \in Surjection(A, Units(E))
        BY <1>7, <1>9 DEF Surjection
    <2> QED
        BY <1>10, <2>1, <2>2, FS_Injection
<1>12. Bytes(s, P) = Cardinality(A)
    BY DEF Bytes, A
<1> HIDE DEF E, named, numbered
<1>13. Bytes(s, P) = SizeOf(E)
    BY <1>11, <1>12 DEF SizeOf
<1> QED
    BY <1>3, <1>13 DEF E

\* All of a list together.
LEMMA ListCounts ==
    ASSUME NEW s, Listed(s)
    PROVE  /\ IsFiniteSet(ToSet(s))
           /\ Cardinality(ToSet(s)) = Len(s)
           /\ Bytes(s, DOMAIN s) = SizeOf(ToSet(s))
           /\ s = <<>> <=> ToSet(s) = {}
<1>1. Len(s) \in Nat /\ DOMAIN s = 1 .. Len(s) /\ s \in Seq(ToSet(s))
    BY ListFacts
<1>2. ToSet(s) = {s[i] : i \in 1 .. Len(s)}
    BY <1>1 DEF ToSet
<1>3. Cardinality(1 .. Len(s)) = Len(s)
    BY <1>1, FirstNumbers
<1>4. s = <<>> <=> ToSet(s) = {}
    <2>1. CASE Len(s) = 0
        BY <1>1, <1>2, <2>1
    <2>2. CASE Len(s) # 0
        <3>1. 1 \in 1 .. Len(s)
            BY <1>1, <2>2
        <3>2. s # <<>>
            BY <1>1, <2>2
        <3> QED
            BY <1>2, <3>1, <3>2
    <2> QED
        BY <2>1, <2>2
<1> DEFINE P == 1 .. Len(s)
<1>5. P \in SUBSET (1 .. Len(s))
    OBVIOUS
<1> HIDE DEF P
<1>6. /\ IsFiniteSet({s[i] : i \in P})
      /\ Cardinality({s[i] : i \in P}) = Cardinality(P)
      /\ Bytes(s, P) = SizeOf({s[i] : i \in P})
    BY <1>5, PositionsCount
<1>7. P = DOMAIN s /\ {s[i] : i \in P} = ToSet(s) /\ Cardinality(P) = Len(s)
    BY <1>1, <1>2, <1>3 DEF P
<1> QED
    BY <1>4, <1>6, <1>7

\* What stands at some positions of a list is a list of it.
LEMMA PartsAreListed ==
    ASSUME NEW s, Listed(s), NEW S \in SUBSET (1 .. Len(s))
    PROVE  /\ Listed(Subsequence(s, S))
           /\ ToSet(Subsequence(s, S)) = {s[i] : i \in S}
<1> DEFINE m == Cardinality(S)
           Rank(i) == Cardinality({j \in S : j <= i})
           at == [n \in 1 .. m |-> CHOOSE i \in S : Rank(i) = n]
           t == Subsequence(s, S)
<1>1. /\ Len(s) \in Nat
      /\ \A i \in S : s[i].size \in Nat /\ s[i].stored_at \in Int
      /\ \A i, j \in S : s[i].key = s[j].key => i = j
    BY ListFacts
<1>2. m \in Nat
    <2>1. IsFiniteSet(1 .. Len(s))
        BY <1>1, FirstNumbers
    <2> QED
        BY <2>1, FS_Subset, FS_CardinalityType
<1>3. /\ \A n \in 1 .. m : \E i \in S : Rank(i) = n
      /\ \A i \in S : Rank(i) \in 1 .. m
      /\ \A i, j \in S : Rank(i) = Rank(j) => i = j
    <2>1. \A i : Rank(i) = Cardinality(UpTo(S, i))
        BY Zenon DEF UpTo
    <2>2. \A n \in 1 .. Cardinality(S) : \E i \in S : Cardinality(UpTo(S, i)) = n
        BY <1>1, EveryRankIsTaken
    <2>3. \A i, j \in S : /\ Cardinality(UpTo(S, i)) \in 1 .. Cardinality(S)
                          /\ Cardinality(UpTo(S, i)) = Cardinality(UpTo(S, j)) => i = j
        BY <1>1, RanksDiffer
    <2> HIDE DEF Rank
    <2> QED
        BY <2>1, <2>2, <2>3
<1>4. t = [n \in 1 .. m |-> s[CHOOSE i \in S : Rank(i) = n]]
    BY DEF Subsequence
<1> HIDE DEF Rank, t
<1>5. \A n \in 1 .. m : at[n] \in S /\ Rank(at[n]) = n
    BY <1>3
<1>6. \A n \in 1 .. m : t[n] = s[at[n]]
    BY <1>4
<1> HIDE DEF at, m
<1>7. DOMAIN t = 1 .. m
    BY <1>4
<1>8. \A n \in 1 .. m : t[n] \in {s[i] : i \in S}
    BY <1>5, <1>6
<1>9. \A i \in S : \E n \in 1 .. m : t[n] = s[i]
    <2>1. ASSUME NEW i \in S
          PROVE  Rank(i) \in 1 .. m /\ at[Rank(i)] = i
        BY <1>3, <1>5
    <2> QED
        BY <1>6, <2>1
<1>10. ToSet(t) = {s[i] : i \in S}
    BY <1>7, <1>8, <1>9 DEF ToSet
<1>11. Keyed(t)
    <2>1. ASSUME NEW a \in 1 .. m, NEW b \in 1 .. m, t[a].key = t[b].key
          PROVE  a = b
        <3>1. at[a] \in S /\ at[b] \in S
            BY <1>5
        <3>2. s[at[a]].key = s[at[b]].key
            BY <1>6, <2>1
        <3>3. at[a] = at[b]
            BY <1>1, <3>1, <3>2
        <3> QED
            BY <1>5, <3>3
    <2> QED
        BY <1>7, <2>1 DEF Keyed
<1>12. t \in [1 .. m -> ToSet(t)]
    BY <1>4, <1>8, <1>10
<1>13. \A e \in ToSet(t) : e.size \in Nat /\ e.stored_at \in Int
    BY <1>1, <1>10
<1>14. Listed(t)
    BY <1>2, <1>11, <1>12, <1>13 DEF Listed
<1> QED
    BY <1>10, <1>14 DEF t

\* One more entry, with a key of its own, at the end.
LEMMA OneMoreIsListed ==
    ASSUME NEW s, Listed(s), NEW e, e.size \in Nat, e.stored_at \in Int,
           \A f \in ToSet(s) : f.key # e.key
    PROVE  /\ Listed(Append(s, e))
           /\ ToSet(Append(s, e)) = ToSet(s) \cup {e}
           /\ Len(Append(s, e)) = Len(s) + 1
<1> DEFINE n == Len(s)
           t == Append(s, e)
<1>1. /\ n \in Nat
      /\ s \in Seq(ToSet(s))
      /\ \A i \in 1 .. n : s[i] \in ToSet(s) /\ s[i].size \in Nat /\ s[i].stored_at \in Int
      /\ \A f \in ToSet(s) : \E i \in 1 .. n : s[i] = f
      /\ \A i, j \in 1 .. n : s[i].key = s[j].key => i = j
    BY ListFacts
<1>2. s \in Seq(ToSet(s) \cup {e}) /\ e \in ToSet(s) \cup {e}
    <2>1. s \in Seq(ToSet(s))
        BY <1>1
    <2> QED
        BY <2>1
<1> HIDE DEF n
<1>3. /\ DOMAIN t = 1 .. n + 1
      /\ t \in Seq(ToSet(s) \cup {e})
      /\ Len(t) = n + 1
      /\ t[n + 1] = e
      /\ \A i \in 1 .. n : t[i] = s[i]
    BY <1>2 DEF n
<1> HIDE DEF t
<1>4. \A i \in 1 .. n + 1 : i # n + 1 => i \in 1 .. n
    <2>1. n \in Nat
        BY <1>1
    <2> QED
        BY <2>1
<1>5. n + 1 \in 1 .. n + 1 /\ \A i \in 1 .. n : i \in 1 .. n + 1 /\ i # n + 1
    BY <1>1
<1>6. t \in [1 .. n + 1 -> ToSet(s) \cup {e}]
    BY <1>3
<1>7. ToSet(t) = ToSet(s) \cup {e}
    <2>1. \A i \in 1 .. n + 1 : t[i] \in ToSet(s) \cup {e}
        BY <1>1, <1>3, <1>4
    <2>2. \A f \in ToSet(s) \cup {e} : \E i \in 1 .. n + 1 : t[i] = f
        BY <1>1, <1>3, <1>5
    <2>3. DOMAIN t = 1 .. n + 1
        BY <1>3
    <2>4. \A f : f \in ToSet(t) <=> f \in ToSet(s) \cup {e}
        BY <2>1, <2>2, <2>3, Zenon DEF ToSet
    <2> QED
        BY <2>4, Zenon
<1>8. Keyed(t)
    <2>1. ASSUME NEW i \in 1 .. n + 1, NEW j \in 1 .. n + 1, t[i].key = t[j].key
          PROVE  i = j
        BY <1>1, <1>3, <1>4, <2>1
    <2> QED
        BY <1>3, <2>1 DEF Keyed
<1>9. t \in [1 .. n + 1 -> ToSet(t)]
    BY <1>6, <1>7
<1>10. Listed(t)
    BY <1>1, <1>7, <1>8, <1>9 DEF Listed
<1> QED
    BY <1>3, <1>7, <1>10 DEF t, n

-----------------------------------------------------------------------------
(* Stores *)

\* A store counts the bytes of what it lists.
Counted(c) ==
    /\ Listed(c.entries)
    /\ c.total_bytes = SizeOf(ToSet(c.entries))

\* The entries of an empty store.
LEMMA EmptyIsCounted ==
    Counted(EmptyCache) /\ ToSet(EmptyCache.entries) = {}
<1>1. ToSet(<<>>) = {}
    BY DEF ToSet
<1>2. Listed(<<>>)
    <2>1. <<>> \in [1 .. 0 -> {}]
        OBVIOUS
    <2> QED
        BY <1>1, <2>1 DEF Listed, Keyed
<1> QED
    BY <1>1, <1>2, NothingHasNoSize DEF Counted, EmptyCache

\* Removing some entries leaves the others, counted.
LEMMA WithoutLeavesOthers ==
    ASSUME NEW c, Counted(c), NEW gone
    PROVE  /\ Counted(Without(c, gone))
           /\ ToSet(Without(c, gone).entries) = ToSet(c.entries) \ gone
<1> DEFINE s == c.entries
           leaving == {i \in DOMAIN s : s[i] \in gone}
           staying == DOMAIN s \ leaving
           L == {s[i] : i \in leaving}
           T == {s[i] : i \in staying}
<1>1. /\ Without(c, gone).entries = Subsequence(s, staying)
      /\ Without(c, gone).total_bytes = c.total_bytes - Bytes(s, leaving)
    BY DEF Without
<1>2. Listed(s) /\ c.total_bytes = SizeOf(ToSet(s))
    BY DEF Counted
<1>3. DOMAIN s = 1 .. Len(s)
    BY <1>2, ListFacts
<1>4. leaving \in SUBSET (1 .. Len(s)) /\ staying \in SUBSET (1 .. Len(s))
    BY <1>3
<1>5. /\ T = ToSet(s) \ gone
      /\ L \cap T = {}
      /\ L \cup T = ToSet(s)
    BY DEF ToSet
<1> HIDE DEF leaving, staying
<1>6. IsFiniteSet(L) /\ Bytes(s, leaving) = SizeOf(L) /\ IsFiniteSet(T)
    BY <1>2, <1>4, PositionsCount
<1>7. Listed(Subsequence(s, staying)) /\ ToSet(Subsequence(s, staying)) = T
    BY <1>2, <1>4, PartsAreListed
<1>8. (\A e \in L : e.size \in Nat) /\ (\A e \in T : e.size \in Nat)
    BY <1>2, <1>5 DEF Listed
<1> HIDE DEF L, T, s
<1>9. SizeOf(ToSet(s)) = SizeOf(L) + SizeOf(T) /\ SizeOf(L) \in Nat /\ SizeOf(T) \in Nat
    BY <1>5, <1>6, <1>8, SizesAddUp, UnitsAreFinite
<1>10. Without(c, gone).total_bytes = SizeOf(T)
    BY <1>1, <1>2, <1>6, <1>9
<1> QED
    BY <1>1, <1>5, <1>7, <1>10 DEF Counted, s

-----------------------------------------------------------------------------
(* Evictions *)

\* The positions that are evicted before i.
Ahead(c, i) == {j \in DOMAIN c.entries :
    \/ c.entries[j].stored_at < c.entries[i].stored_at
    \/ c.entries[j].stored_at = c.entries[i].stored_at /\ j < i}

\* The oldest are those with few ahead of them.
LEMMA OldestAre ==
    \A c, n : Oldest(c, n) = {c.entries[i] : i \in {j \in DOMAIN c.entries : Cardinality(Ahead(c, j)) < n}}
BY Zenon DEF Oldest, Ahead

\* All entries are among the oldest if there are no more of them.
LEMMA OldestOfAll ==
    ASSUME NEW c, Listed(c.entries)
    PROVE  /\ \A i \in DOMAIN c.entries : Cardinality(Ahead(c, i)) \in Nat
           /\ \A n : Oldest(c, n) \subseteq ToSet(c.entries)
           /\ Oldest(c, Len(c.entries)) = ToSet(c.entries)
<1> DEFINE s == c.entries
<1>1. /\ Len(s) \in Nat /\ DOMAIN s = 1 .. Len(s)
      /\ \A i \in 1 .. Len(s) : s[i].stored_at \in Int
    BY ListFacts
<1>2. ASSUME NEW i \in DOMAIN s
      PROVE  Cardinality(Ahead(c, i)) \in Nat /\ Cardinality(Ahead(c, i)) < Len(s)
    <2>1. IsFiniteSet(1 .. Len(s)) /\ Cardinality(1 .. Len(s)) = Len(s)
        BY <1>1, FirstNumbers
    <2>2. Ahead(c, i) \in SUBSET (1 .. Len(s))
        BY <1>1 DEF Ahead
    <2>3. i \notin Ahead(c, i) /\ i \in 1 .. Len(s)
        BY <1>1, <1>2 DEF Ahead
    <2>4. /\ IsFiniteSet(Ahead(c, i)) /\ Cardinality(Ahead(c, i)) <= Cardinality(1 .. Len(s))
          /\ Cardinality(1 .. Len(s)) = Cardinality(Ahead(c, i)) => 1 .. Len(s) = Ahead(c, i)
        BY <2>1, <2>2, FS_Subset
    <2>5. Cardinality(Ahead(c, i)) \in Nat
        BY <2>4, FS_CardinalityType
    <2>6. Cardinality(Ahead(c, i)) # Len(s)
        BY <2>1, <2>3, <2>4
    <2> QED
        BY <1>1, <2>1, <2>4, <2>5, <2>6
<1>3. \A n : Oldest(c, n) \subseteq ToSet(s)
    BY OldestAre DEF ToSet
<1>4. Oldest(c, Len(s)) = ToSet(s)
    <2>1. {j \in DOMAIN s : Cardinality(Ahead(c, j)) < Len(s)} = DOMAIN s
        BY <1>2
    <2> QED
        BY <2>1, OldestAre, Zenon DEF ToSet
<1> QED
    BY <1>2, <1>3, <1>4

\* Who is evicted is no younger than who would be evicted next.
LEMMA OldestComeFirst ==
    ASSUME NEW c, Listed(c.entries), NEW n \in Nat,
           NEW e \in Oldest(c, n), NEW f \in ToSet(c.entries) \ Oldest(c, n - 1)
    PROVE  e.stored_at <= f.stored_at
<1> DEFINE s == c.entries
<1>1. /\ Len(s) \in Nat /\ DOMAIN s = 1 .. Len(s)
      /\ \A i \in 1 .. Len(s) : s[i].stored_at \in Int
    BY ListFacts
<1>2. PICK i \in DOMAIN s : s[i] = e /\ Cardinality(Ahead(c, i)) < n
    BY OldestAre
<1>3. PICK j \in DOMAIN s : s[j] = f /\ ~(Cardinality(Ahead(c, j)) < n - 1)
    <2>1. PICK j \in DOMAIN s : s[j] = f
        BY DEF ToSet
    <2>2. ~(Cardinality(Ahead(c, j)) < n - 1)
        BY <2>1, OldestAre
    <2> QED
        BY <2>1, <2>2
<1>4. SUFFICES ASSUME f.stored_at < e.stored_at PROVE FALSE
    BY <1>1, <1>2, <1>3
<1>5. Ahead(c, j) \cup {j} \in SUBSET Ahead(c, i)
    BY <1>1, <1>2, <1>3, <1>4 DEF Ahead
<1>6. j \notin Ahead(c, j)
    BY <1>1, <1>3 DEF Ahead
<1>7. IsFiniteSet(Ahead(c, i)) /\ IsFiniteSet(Ahead(c, j))
    <2>1. IsFiniteSet(1 .. Len(s))
        BY <1>1, FirstNumbers
    <2>2. Ahead(c, i) \in SUBSET (1 .. Len(s)) /\ Ahead(c, j) \in SUBSET (1 .. Len(s))
        BY <1>1 DEF Ahead
    <2> QED
        BY <2>1, <2>2, FS_Subset
<1>8. Cardinality(Ahead(c, j) \cup {j}) = Cardinality(Ahead(c, j)) + 1
    BY <1>6, <1>7, FS_AddElement
<1>9. Cardinality(Ahead(c, j) \cup {j}) <= Cardinality(Ahead(c, i))
    BY <1>5, <1>7, FS_Subset
<1>10. Cardinality(Ahead(c, i)) \in Nat /\ Cardinality(Ahead(c, j)) \in Nat
    BY OldestOfAll
<1> QED
    BY <1>2, <1>3, <1>8, <1>9, <1>10

\* When everything has been evicted, nothing is left.
LEMMA AllEvicted ==
    ASSUME NEW c, Counted(c)
    PROVE  /\ Len(c.entries) \in Nat
           /\ Without(c, Oldest(c, Len(c.entries))).entries = <<>>
<1> DEFINE d == Without(c, Oldest(c, Len(c.entries)))
<1>1. Listed(c.entries)
    BY DEF Counted
<1>2. Oldest(c, Len(c.entries)) = ToSet(c.entries)
    BY <1>1, OldestOfAll
<1>3. Counted(d) /\ ToSet(d.entries) = {}
    BY <1>2, WithoutLeavesOthers
<1>4. d.entries = <<>>
    BY <1>3, ListCounts DEF Counted
<1> QED
    BY <1>1, <1>4, ListFacts

\* The loop of put() ends as soon as the new entry fits.
LEMMA RoomIsMade ==
    ASSUME NEW c, Counted(c), NEW size \in Nat
    PROVE  \E n \in 0 .. Len(c.entries) :
               /\ MadeRoom(c, size) = Without(c, Oldest(c, n))
               /\ Fits(Without(c, Oldest(c, n)), size)
               /\ \A m \in 0 .. n - 1 : ~Fits(Without(c, Oldest(c, m)), size)
<1> DEFINE Enough(n) == Fits(Without(c, Oldest(c, n)), size)
           least == CHOOSE n \in 0 .. Len(c.entries) : Enough(n) /\ \A m \in 0 .. (n - 1) : ~Enough(m)
           T == {n \in 0 .. Len(c.entries) : Enough(n)}
<1>1. MadeRoom(c, size) = Without(c, Oldest(c, least))
    BY DEF MadeRoom
<1>2. Len(c.entries) \in Nat /\ Enough(Len(c.entries))
    BY AllEvicted DEF Fits
<1> HIDE DEF Enough
<1>3. T \in SUBSET Nat /\ T # {}
    BY <1>2
<1>4. PICK n \in T : \A m \in T : n <= m
    <2> HIDE DEF T
    <2> QED
        BY <1>3, LeastNat
<1>5. n \in 0 .. Len(c.entries) /\ Enough(n) /\ \A m \in 0 .. n - 1 : ~Enough(m)
    BY <1>2, <1>4
<1>6. least \in 0 .. Len(c.entries) /\ Enough(least) /\ \A m \in 0 .. least - 1 : ~Enough(m)
    BY <1>5
<1> QED
    BY <1>1, <1>6 DEF Enough

\* The fresh entries of other keys when one for k is put at time t.
Rivals(c, k, t) == {f \in ToSet(c.entries) \ Expired(c, t) : f.key # k}

\* What put() leaves of the other entries before and after its evictions.
Recent(c, e, t) == Without(Invalidate(c, e.key), Expired(Invalidate(c, e.key), t))

Room(c, e, t) == MadeRoom(Recent(c, e, t), e.size)

\* What put() does: the counts and the bounds are kept, the new entry is there, and the
\* others are those for which there was room.
PutDone(c, e, t) ==
    /\ Counted(Recent(c, e, t))
    /\ ToSet(Recent(c, e, t).entries) = Rivals(c, e.key, t)
    /\ ToSet(Room(c, e, t).entries) \subseteq Rivals(c, e.key, t)
    /\ ToSet(Put(c, e, t).entries) = ToSet(Room(c, e, t).entries) \cup {e}
    /\ Counted(Put(c, e, t))
    /\ Put(c, e, t).total_bytes <= max_total_bytes
    /\ Len(Put(c, e, t).entries) <= max_entries

\* A put() of an entry that can fit at all does that.
LEMMA PutKeepsCount ==
    ASSUME NEW c, Counted(c), NEW e, e.size \in Nat, e.stored_at \in Int, NEW t,
           e.size <= max_total_bytes
    PROVE  PutDone(c, e, t)
<1> DEFINE old == Invalidate(c, e.key)
           recent == Without(old, Expired(old, t))
           room == MadeRoom(recent, e.size)
           d == Put(c, e, t)
<1>1. Counted(old) /\ ToSet(old.entries) = {f \in ToSet(c.entries) : f.key # e.key}
    BY WithoutLeavesOthers DEF Invalidate, EntriesOf
<1> HIDE DEF old
<1>2. Counted(recent) /\ ToSet(recent.entries) = {f \in ToSet(old.entries) : ~(t > f.expires_at)}
    BY <1>1, WithoutLeavesOthers DEF Expired
<1> HIDE DEF recent
<1>3. PICK n \in 0 .. Len(recent.entries) :
          room = Without(recent, Oldest(recent, n)) /\ Fits(Without(recent, Oldest(recent, n)), e.size)
    BY <1>2, RoomIsMade
<1>4. Fits(room, e.size) /\ ToSet(recent.entries) = Rivals(c, e.key, t)
    BY <1>1, <1>2, <1>3 DEF Rivals, Expired
<1>5. Counted(room) /\ ToSet(room.entries) \subseteq ToSet(recent.entries)
    BY <1>2, <1>3, WithoutLeavesOthers
<1> HIDE DEF room
<1>6. d = [entries |-> Append(room.entries, e), total_bytes |-> room.total_bytes + e.size]
    <2>1. ~(e.size > max_total_bytes)
        BY ResponseCacheAssumption
    <2> QED
        BY <2>1, Zenon DEF Put, room, recent, old, d
<1>7. d.entries = Append(room.entries, e) /\ d.total_bytes = room.total_bytes + e.size
    BY <1>6
<1> HIDE DEF d
<1>8. Listed(room.entries) /\ \A f \in ToSet(room.entries) : f.key # e.key
    BY <1>1, <1>2, <1>5 DEF Counted
<1>9. /\ Listed(d.entries)
      /\ ToSet(d.entries) = ToSet(room.entries) \cup {e}
      /\ Len(d.entries) = Len(room.entries) + 1
    BY <1>7, <1>8, OneMoreIsListed
<1>10. d.total_bytes = SizeOf(ToSet(d.entries)) /\ room.total_bytes \in Nat
    <2>1. /\ IsFiniteSet(ToSet(room.entries)) /\ IsFiniteSet({e})
          /\ \A f \in ToSet(room.entries) : f.size \in Nat
          /\ ToSet(room.entries) \cap {e} = {}
        BY <1>8, ListCounts, FS_Singleton DEF Listed
    <2>2. SizeOf(ToSet(room.entries) \cup {e}) = SizeOf(ToSet(room.entries)) + SizeOf({e})
        BY <2>1, SizesAddUp
    <2>3. SizeOf({e}) = e.size /\ SizeOf(ToSet(room.entries)) \in Nat
        BY <2>1, SizeOfOne, UnitsAreFinite
    <2> QED
        BY <1>5, <1>7, <1>9, <2>2, <2>3 DEF Counted
<1>11. Counted(d)
    BY <1>9, <1>10 DEF Counted
<1>12. d.total_bytes <= max_total_bytes /\ Len(d.entries) <= max_entries
    <2>1. CASE room.entries = <<>>
        <3>1. ToSet(room.entries) = {} /\ Len(room.entries) = 0
            BY <1>8, <2>1, ListCounts
        <3>2. room.total_bytes = 0
            BY <1>5, <3>1, NothingHasNoSize DEF Counted
        <3> QED
            BY <1>7, <1>9, <3>1, <3>2, ResponseCacheAssumption
    <2>2. CASE Len(room.entries) < max_entries /\ room.total_bytes + e.size <= max_total_bytes
        <3>1. Len(room.entries) \in Nat
            BY <1>8, ListFacts
        <3> QED
            BY <1>7, <1>9, <2>2, <3>1, ResponseCacheAssumption
    <2> QED
        BY <1>4, <2>1, <2>2 DEF Fits
<1> QED
    BY <1>2, <1>4, <1>5, <1>9, <1>11, <1>12 DEF PutDone, Recent, Room, recent, room, d, old

-----------------------------------------------------------------------------
(* Files *)

\* The loop of write() evicts until the new file fits or nothing is left.
LEMMA EvictionMakesRoom ==
    ASSUME NEW s, Counted(s), NEW size \in Nat
    PROVE  LET room == Without(s, Evicted(s, size))
           IN  /\ Evicted(s, size) \subseteq ToSet(s.entries)
               /\ room.entries = <<>> \/ room.total_bytes + size <= max_debug_bytes
<1> DEFINE Enough(n) == LET r == Without(s, Oldest(s, n))
                        IN  r.entries = <<>> \/ r.total_bytes + size <= max_debug_bytes
           T == {n \in 0 .. Len(s.entries) : Enough(n)}
<1>1. Evicted(s, size) = Oldest(s, Min(T))
    BY DEF Evicted
<1>2. Len(s.entries) \in Nat /\ Enough(Len(s.entries))
    BY AllEvicted
<1>3. \A n : Oldest(s, n) \subseteq ToSet(s.entries)
    BY OldestOfAll DEF Counted
<1> HIDE DEF Enough
<1>4. T \in SUBSET Nat /\ T # {}
    BY <1>2
<1>5. Min(T) \in T
    <2> HIDE DEF T
    <2>1. \E n \in T : \A m \in T : n <= m
        BY <1>4, LeastNat
    <2> QED
        BY <2>1 DEF Min
<1>6. Enough(Min(T))
    BY <1>5
<1> QED
    BY <1>1, <1>3, <1>6 DEF Enough

\* A file that is replaced is counted at its new size, in its old place.
LEMMA ReplacedIsCounted ==
    ASSUME NEW s, Counted(s), NEW f, f.size \in Nat, f.stored_at \in Int,
           \E g \in ToSet(s.entries) : g.key = f.key
    PROVE  LET d == Written(s, f)
           IN  /\ Counted(d)
               /\ ToSet(d.entries) = {g \in ToSet(s.entries) : g.key # f.key} \cup {f}
               /\ d.total_bytes <= s.total_bytes + f.size
<1> DEFINE e == s.entries
           d == Written(s, f)
           t == [i \in DOMAIN e |-> IF e[i].key = f.key THEN f ELSE e[i]]
           P == {i \in DOMAIN e : e[i].key = f.key}
           old == {e[i] : i \in P}
           others == {g \in ToSet(e) : g.key # f.key}
<1>1. /\ Listed(e)
      /\ Len(e) \in Nat /\ DOMAIN e = 1 .. Len(e)
      /\ \A i \in 1 .. Len(e) : e[i] \in ToSet(e) /\ e[i].size \in Nat /\ e[i].stored_at \in Int
      /\ \A g \in ToSet(e) : \E i \in 1 .. Len(e) : e[i] = g
      /\ \A i, j \in 1 .. Len(e) : e[i].key = e[j].key => i = j
    <2>1. Listed(e)
        BY DEF Counted
    <2> QED
        BY <2>1, ListFacts
<1>2. d.entries = t /\ d.total_bytes = s.total_bytes + f.size - Bytes(e, P)
    BY DEF Written
<1> HIDE DEF d
<1>3. P \in SUBSET (1 .. Len(e)) /\ old \cup others = ToSet(e) /\ old \cap others = {}
    <2>1. \A g : g \in old <=> g \in ToSet(e) /\ g.key = f.key
        <3>1. \A g : g \in ToSet(e) <=> \E i \in DOMAIN e : e[i] = g
            BY DEF ToSet
        <3> QED
            BY <3>1
    <2> HIDE DEF old
    <2> QED
        BY <1>1, <2>1
<1>4. Bytes(e, P) = SizeOf(old) /\ IsFiniteSet(old)
    <2>1. Listed(e) /\ P \in SUBSET (1 .. Len(e))
        BY <1>1, <1>3
    <2> HIDE DEF P
    <2>2. /\ IsFiniteSet({e[i] : i \in P})
          /\ Bytes(e, P) = SizeOf({e[i] : i \in P})
        BY <2>1, PositionsCount
    <2> QED
        BY <2>2
<1>5. IsFiniteSet(ToSet(e)) /\ \A g \in ToSet(e) : g.size \in Nat /\ g.stored_at \in Int
    BY <1>1, ListCounts
<1>6. IsFiniteSet(others)
    BY <1>5, FS_Subset
<1>7. SizeOf(ToSet(e)) = SizeOf(old) + SizeOf(others) /\ SizeOf(old) \in Nat /\ SizeOf(others) \in Nat
    <2>1. (\A g \in old : g.size \in Nat) /\ (\A g \in others : g.size \in Nat)
        BY <1>3, <1>5
    <2> HIDE DEF old, others
    <2> QED
        BY <1>3, <1>4, <1>6, <2>1, SizesAddUp, UnitsAreFinite
<1>8. SizeOf(others \cup {f}) = SizeOf(others) + f.size
    <2>1. (\A g \in others : g.size \in Nat) /\ others \cap {f} = {}
        BY <1>5
    <2>2. IsFiniteSet({f}) /\ SizeOf({f}) = f.size
        BY FS_Singleton, SizeOfOne
    <2> HIDE DEF others
    <2> QED
        BY <1>6, <2>1, <2>2, SizesAddUp
<1>9. \A i \in 1 .. Len(e) : t[i].key = e[i].key
    BY <1>1
<1>10. ToSet(t) = others \cup {f}
    <2>1. \A i \in DOMAIN t : t[i] \in others \cup {f}
        BY <1>1
    <2>2. \A g \in others : \E i \in DOMAIN t : t[i] = g
        BY <1>1
    <2>3. \E i \in DOMAIN t : t[i] = f
        BY <1>1
    <2> HIDE DEF t, others
    <2>4. \A g : g \in ToSet(t) <=> g \in others \cup {f}
        BY <2>1, <2>2, <2>3, Zenon DEF ToSet
    <2> QED
        BY <2>4, Zenon
<1>11. DOMAIN t = 1 .. Len(e) /\ t \in [1 .. Len(e) -> ToSet(t)]
    <2>1. DOMAIN t = 1 .. Len(e) /\ t = [i \in 1 .. Len(e) |-> t[i]]
        BY <1>1
    <2> HIDE DEF t
    <2>2. \A i \in 1 .. Len(e) : t[i] \in ToSet(t)
        BY <2>1 DEF ToSet
    <2> QED
        BY <2>1, <2>2
<1> HIDE DEF t
<1>12. \A g \in ToSet(t) : g.size \in Nat /\ g.stored_at \in Int
    BY <1>5, <1>10
<1>13. Listed(t)
    BY <1>1, <1>9, <1>11, <1>12 DEF Listed, Keyed
<1> HIDE DEF others, old, P
<1>14. s.total_bytes = SizeOf(ToSet(e))
    BY DEF Counted
<1>15. d.total_bytes = SizeOf(ToSet(t)) /\ d.total_bytes <= s.total_bytes + f.size
    BY <1>2, <1>4, <1>7, <1>8, <1>10, <1>14
<1> QED
    BY <1>2, <1>10, <1>13, <1>15 DEF Counted, d, others

\* What is counted after a write, when room had been made for it.
LEMMA WrittenIsCounted ==
    ASSUME NEW s, Counted(s), NEW f, f.size \in Nat, f.stored_at \in Int,
           s.entries = <<>> \/ s.total_bytes + f.size <= max_debug_bytes
    PROVE  LET d == Written(s, f)
           IN  /\ Counted(d)
               /\ ToSet(d.entries) = {g \in ToSet(s.entries) : g.key # f.key} \cup {f}
               /\ d.total_bytes <= max_debug_bytes \/ Len(d.entries) = 1
<1> DEFINE d == Written(s, f)
<1>1. Listed(s.entries) /\ s.total_bytes = SizeOf(ToSet(s.entries))
    BY DEF Counted
<1>2. s.total_bytes \in Nat
    BY <1>1, ListCounts, UnitsAreFinite DEF Listed
<1>3. CASE \E g \in ToSet(s.entries) : g.key = f.key
    <2>1. s.entries # <<>>
        BY <1>1, <1>3, ListCounts
    <2>2. /\ Counted(d)
          /\ ToSet(d.entries) = {g \in ToSet(s.entries) : g.key # f.key} \cup {f}
          /\ d.total_bytes <= s.total_bytes + f.size
        BY <1>3, ReplacedIsCounted
    <2>3. d.total_bytes \in Nat
        BY <2>2, ListCounts, UnitsAreFinite DEF Counted, Listed
    <2>4. d.total_bytes <= max_debug_bytes
        BY <1>2, <2>1, <2>2, <2>3, DebugArtifactsAssumption
    <2> HIDE DEF d
    <2> QED
        BY <2>2, <2>4 DEF d
<1>4. CASE ~\E g \in ToSet(s.entries) : g.key = f.key
    <2> DEFINE none == {i \in DOMAIN s.entries : s.entries[i].key = f.key}
    <2>1. none = {}
        BY <1>4 DEF ToSet
    <2>2. d.entries = Append(s.entries, f) /\ d.total_bytes = s.total_bytes + f.size - Bytes(s.entries, none)
        BY <1>4 DEF Written
    <2> HIDE DEF d, none
    <2>3. Bytes(s.entries, none) = 0
        BY <2>1, FS_EmptySet DEF Bytes
    <2>4. /\ Listed(d.entries)
          /\ ToSet(d.entries) = ToSet(s.entries) \cup {f}
          /\ Len(d.entries) = Len(s.entries) + 1
        BY <1>1, <1>4, <2>2, OneMoreIsListed
    <2>5. ToSet(s.entries) = {g \in ToSet(s.entries) : g.key # f.key}
        BY <1>4
    <2>6. SizeOf(ToSet(s.entries) \cup {f}) = s.total_bytes + f.size
        <3>1. /\ IsFiniteSet(ToSet(s.entries)) /\ IsFiniteSet({f})
              /\ \A g \in ToSet(s.entries) : g.size \in Nat
              /\ ToSet(s.entries) \cap {f} = {}
            BY <1>1, <1>4, ListCounts, FS_Singleton DEF Listed
        <3>2. SizeOf({f}) = f.size
            BY SizeOfOne
        <3> QED
            BY <1>1, <3>1, <3>2, SizesAddUp
    <2>7. d.total_bytes = s.total_bytes + f.size
        BY <1>2, <2>2, <2>3
    <2>8. d.total_bytes <= max_debug_bytes \/ Len(d.entries) = 1
        <3>1. CASE s.entries = <<>>
            <4>1. Len(s.entries) = 0
                BY <3>1
            <4> QED
                BY <2>4, <4>1
        <3>2. CASE s.total_bytes + f.size <= max_debug_bytes
            BY <2>7, <3>2
        <3> QED
            BY <3>1, <3>2
    <2> QED
        BY <2>4, <2>5, <2>6, <2>7, <2>8 DEF Counted, d
<1> QED
    BY <1>3, <1>4

\* What is on disk, and that the files that are counted are.
OnDisk(s, d) ==
    /\ \E there \in SUBSET CacheKeys : d \in [there -> FileSizes]
    /\ \A f \in ToSet(s.entries) : f.key \in DOMAIN d /\ d[f.key] = f.size

\* The files that stay in the store stay on disk.
LEMMA UnlinkedIsOnDisk ==
    ASSUME NEW s, Listed(s.entries), NEW d, OnDisk(s, d),
           NEW gone \in SUBSET ToSet(s.entries), NEW stuck \in SUBSET PathsOf(gone),
           NEW r, ToSet(r.entries) = ToSet(s.entries) \ gone
    PROVE  OnDisk(r, Unlinked(d, PathsOf(gone), stuck))
<1> DEFINE u == Unlinked(d, PathsOf(gone), stuck)
           there == DOMAIN d \ (PathsOf(gone) \ stuck)
<1>1. \A e, f \in ToSet(s.entries) : e.key = f.key => e = f
    BY ListFacts
<1>2. \A k : k \in PathsOf(gone) <=> \E f \in gone : f.key = k
    BY DEF PathsOf
<1>3. u = [k \in there |-> d[k]]
    BY DEF Unlinked, Restrict
<1> HIDE DEF u
<1>4. \E known \in SUBSET CacheKeys : u \in [known -> FileSizes]
    <2>1. PICK known \in SUBSET CacheKeys : d \in [known -> FileSizes]
        BY DEF OnDisk
    <2>2. there \in SUBSET CacheKeys /\ \A k \in there : d[k] \in FileSizes
        BY <2>1
    <2> HIDE DEF there
    <2> QED
        BY <1>3, <2>2
<1>5. ASSUME NEW f \in ToSet(r.entries)
      PROVE  f.key \in DOMAIN u /\ u[f.key] = f.size
    <2>1. f \in ToSet(s.entries) /\ f \notin gone
        OBVIOUS
    <2>2. f.key \in DOMAIN d /\ d[f.key] = f.size
        BY <2>1 DEF OnDisk
    <2>3. f.key \notin PathsOf(gone)
        BY <1>1, <1>2, <2>1
    <2>4. f.key \in there
        BY <2>2, <2>3
    <2> HIDE DEF there
    <2> QED
        BY <1>3, <2>2, <2>4
<1> QED
    BY <1>4, <1>5 DEF OnDisk, u

\* A file that is written is there at its size, and the others are as they were.
LEMMA SavedIsOnDisk ==
    ASSUME NEW s, NEW d, OnDisk(s, d),
           NEW f, f.key \in CacheKeys, f.size \in FileSizes,
           NEW r, ToSet(r.entries) = {g \in ToSet(s.entries) : g.key # f.key} \cup {f}
    PROVE  OnDisk(r, Saved(d, f.key, f.size))
<1> DEFINE u == Saved(d, f.key, f.size)
           there == DOMAIN d \cup {f.key}
<1>1. u = [k \in there |-> IF k = f.key THEN f.size ELSE d[k]]
    BY DEF Saved
<1> HIDE DEF u
<1>2. \E known \in SUBSET CacheKeys : u \in [known -> FileSizes]
    <2>1. PICK known \in SUBSET CacheKeys : d \in [known -> FileSizes]
        BY DEF OnDisk
    <2>2. there \in SUBSET CacheKeys /\ \A k \in there : k # f.key => d[k] \in FileSizes
        BY <2>1
    <2> HIDE DEF there
    <2> QED
        BY <1>1, <2>2
<1>3. ASSUME NEW g \in ToSet(r.entries)
      PROVE  g.key \in DOMAIN u /\ u[g.key] = g.size
    <2>1. CASE g = f
        BY <1>1, <2>1
    <2>2. CASE g # f
        <3>1. g \in ToSet(s.entries) /\ g.key # f.key
            BY <2>2
        <3>2. g.key \in DOMAIN d /\ d[g.key] = g.size
            BY <3>1 DEF OnDisk
        <3>3. g.key \in there
            BY <3>2
        <3> HIDE DEF there
        <3> QED
            BY <1>1, <3>1, <3>2, <3>3
    <2> QED
        BY <2>1, <2>2
<1> QED
    BY <1>2, <1>3 DEF OnDisk, u

-----------------------------------------------------------------------------
(* The invariant *)

CacheEntries == [key : CacheKeys, body : Bodies, size : BodySizes,
                 stored_at : 0 .. MaxNow, expires_at : Int]

FileEntries == [key : CacheKeys, size : {n \in FileSizes : n <= max_file_bytes}, stored_at : 0 .. MaxNow]

\* A cache that counts what it holds and keeps within its bounds.
CacheSound(c) ==
    /\ Counted(c)
    /\ ToSet(c.entries) \subseteq CacheEntries
    /\ c.total_bytes <= max_total_bytes
    /\ Len(c.entries) <= max_entries

\* The same of the files, and that they are on disk.
FilesSound(s, d) ==
    /\ Counted(s)
    /\ ToSet(s.entries) \subseteq FileEntries
    /\ s.total_bytes <= max_debug_bytes \/ Len(s.entries) = 1
    /\ OnDisk(s, d)

IInv ==
    /\ CacheSound(cache)
    /\ FilesSound(files, disk)
    /\ now \in 0 .. MaxNow

\* Entries have sizes and dates.
LEMMA EntriesAreTyped ==
    /\ \A e \in CacheEntries : e.key \in CacheKeys /\ e.size \in Nat /\ e.stored_at \in Int
    /\ \A f \in FileEntries : f.key \in CacheKeys /\ f.size \in Nat /\ f.size \in FileSizes /\ f.stored_at \in Int
<1>1. (\A t \in 0 .. MaxNow : t \in Int) /\ BodySizes \subseteq Nat /\ FileSizes \subseteq Nat
    BY ResponseCacheAssumption, DebugArtifactsAssumption
<1> QED
    BY <1>1 DEF CacheEntries, FileEntries

\* What is counted is a number; less of it is not more.
LEMMA FewerAreLess ==
    ASSUME NEW s, Counted(s), NEW r, Counted(r), ToSet(r.entries) \subseteq ToSet(s.entries)
    PROVE  /\ r.total_bytes \in Nat /\ s.total_bytes \in Nat
           /\ Len(r.entries) \in Nat /\ Len(s.entries) \in Nat
           /\ r.total_bytes <= s.total_bytes
           /\ Len(r.entries) <= Len(s.entries)
           /\ Len(r.entries) = 0 => r.total_bytes = 0
<1>1. Listed(s.entries) /\ Listed(r.entries)
    BY DEF Counted
<1>2. /\ IsFiniteSet(ToSet(s.entries)) /\ \A e \in ToSet(s.entries) : e.size \in Nat
      /\ Cardinality(ToSet(s.entries)) = Len(s.entries)
      /\ Cardinality(ToSet(r.entries)) = Len(r.entries)
    BY <1>1, ListCounts DEF Listed
<1>3. /\ Cardinality(ToSet(r.entries)) <= Cardinality(ToSet(s.entries))
      /\ IsFiniteSet(ToSet(r.entries))
    BY <1>2, FS_Subset
<1>4. SizeOf(ToSet(r.entries)) <= SizeOf(ToSet(s.entries)) /\ SizeOf(ToSet(r.entries)) \in Nat
      /\ SizeOf(ToSet(s.entries)) \in Nat
    BY <1>2, PartsAreSmaller
<1>5. Cardinality(ToSet(r.entries)) = 0 => ToSet(r.entries) = {}
    BY <1>3, FS_EmptySet
<1>6. Len(r.entries) \in Nat /\ Len(s.entries) \in Nat
    BY <1>1, ListFacts
<1>7. Len(r.entries) = 0 => r.total_bytes = 0
    BY <1>2, <1>5, NothingHasNoSize DEF Counted
<1> QED
    BY <1>2, <1>3, <1>4, <1>6, <1>7 DEF Counted

\* Removing files keeps the bound of the store.
LEMMA FewerKeepBound ==
    ASSUME NEW s, Counted(s), NEW r, Counted(r), ToSet(r.entries) \subseteq ToSet(s.entries),
           s.total_bytes <= max_debug_bytes \/ Len(s.entries) = 1
    PROVE  r.total_bytes <= max_debug_bytes \/ Len(r.entries) = 1
<1>1. /\ r.total_bytes \in Nat /\ s.total_bytes \in Nat
      /\ Len(r.entries) \in Nat
      /\ r.total_bytes <= s.total_bytes
      /\ Len(r.entries) <= Len(s.entries)
      /\ Len(r.entries) = 0 => r.total_bytes = 0
    BY FewerAreLess
<1>2. max_debug_bytes \in Nat
    BY DebugArtifactsAssumption
<1>3. CASE s.total_bytes <= max_debug_bytes
    BY <1>1, <1>2, <1>3
<1>4. CASE Len(s.entries) = 1
    <2> DEFINE n == Len(r.entries)
    <2>1. n \in Nat /\ n <= 1 /\ (n = 0 => r.total_bytes = 0)
        BY <1>1, <1>4
    <2> HIDE DEF n
    <2>2. n = 0 \/ n = 1
        BY <2>1
    <2>3. n = 0 => r.total_bytes <= max_debug_bytes
        BY <1>2, <2>1
    <2> QED
        BY <2>2, <2>3 DEF n
<1> QED
    BY <1>3, <1>4

\* Removing bodies keeps the cache sound (get, invalidate).
LEMMA FewerBodiesAreSound ==
    ASSUME NEW c, CacheSound(c), NEW gone
    PROVE  CacheSound(Without(c, gone))
<1> DEFINE d == Without(c, gone)
<1>1. Counted(c) /\ Counted(d) /\ ToSet(d.entries) \subseteq ToSet(c.entries)
    BY WithoutLeavesOthers DEF CacheSound
<1>2. /\ d.total_bytes \in Nat /\ c.total_bytes \in Nat /\ d.total_bytes <= c.total_bytes
      /\ Len(d.entries) \in Nat /\ Len(c.entries) \in Nat /\ Len(d.entries) <= Len(c.entries)
    BY <1>1, FewerAreLess
<1> HIDE DEF d
<1>3. d.total_bytes <= max_total_bytes /\ Len(d.entries) <= max_entries
    BY <1>2, ResponseCacheAssumption DEF CacheSound
<1> QED
    BY <1>1, <1>3 DEF CacheSound, d

\* put() keeps the cache sound.
LEMMA PutIsSound ==
    ASSUME NEW c, CacheSound(c), NEW e \in CacheEntries, NEW t
    PROVE  CacheSound(Put(c, e, t))
<1>1. e.size \in Nat /\ e.stored_at \in Int
    BY EntriesAreTyped
<1>2. CASE e.size <= max_total_bytes
    <2> DEFINE d == Put(c, e, t)
    <2>1. Counted(c)
        BY DEF CacheSound
    <2>2. /\ Counted(d)
          /\ ToSet(d.entries) \subseteq ToSet(c.entries) \cup {e}
          /\ d.total_bytes <= max_total_bytes
          /\ Len(d.entries) <= max_entries
        <3>1. PutDone(c, e, t)
            BY <1>1, <1>2, <2>1, PutKeepsCount
        <3> HIDE DEF d
        <3> QED
            BY <3>1 DEF PutDone, Rivals, d
    <2> HIDE DEF d
    <2> QED
        BY <2>2 DEF CacheSound, d
<1>3. CASE ~(e.size <= max_total_bytes)
    <2>1. e.size > max_total_bytes
        BY <1>1, <1>3, ResponseCacheAssumption
    <2> QED
        BY <2>1 DEF Put
<1> QED
    BY <1>2, <1>3

\* The system starts with both stores empty and nothing on disk.
LEMMA StartsSound == Init => IInv
<1>1. SUFFICES ASSUME Init PROVE IInv
    OBVIOUS
<1>2. cache = EmptyCache /\ files = EmptyCache /\ now = 0 /\ disk = <<>>
    BY <1>1 DEF Init, CacheInit
<1>3. Counted(EmptyCache) /\ ToSet(EmptyCache.entries) = {}
    BY EmptyIsCounted
<1>4. EmptyCache.total_bytes = 0 /\ Len(EmptyCache.entries) = 0
    BY DEF EmptyCache
<1>5. OnDisk(EmptyCache, <<>>)
    <2>1. <<>> \in [{} -> FileSizes] /\ {} \in SUBSET CacheKeys
        OBVIOUS
    <2> QED
        BY <1>3, <2>1 DEF OnDisk
<1> QED
    BY <1>2, <1>3, <1>4, <1>5, ResponseCacheAssumption, DebugArtifactsAssumption
       DEF IInv, CacheSound, FilesSound

-----------------------------------------------------------------------------
(* The steps *)

\* A scrape's body is put into the cache with the date of now.
LEMMA CachePutIsSound ==
    ASSUME IInv, NEW k \in CacheKeys, NEW body \in Bodies, NEW size \in BodySizes,
           NEW ttl \in Ttls, CachePut(k, body, size, now + ttl)
    PROVE  CacheSound(cache') /\ now' \in 0 .. MaxNow
<1> DEFINE e == Entry(k, body, size, now, now + ttl)
<1>1. now \in 0 .. MaxNow /\ CacheSound(cache)
    BY DEF IInv
<1>2. Earlier(now + response_ttl, now + ttl) \in Int
    BY <1>1, ResponseCacheAssumption DEF Earlier
<1>3. e \in CacheEntries
    BY <1>1, <1>2 DEF Entry, CacheEntries
<1>4. cache' = Put(cache, e, now) /\ now' = now
    BY DEF CachePut
<1> HIDE DEF e
<1> QED
    BY <1>1, <1>3, <1>4, PutIsSound

\* The files after a write that is refused: the purge has happened.
LEMMA RefusedIsSound ==
    ASSUME IInv, NEW length \in FileSizes, WriteRefused(length)
    PROVE  FilesSound(files', disk')
<1> DEFINE gone == Outdated(files, now)
           r == Without(files, gone)
<1>1. PICK stuck \in SUBSET PathsOf(gone) :
          files' = r /\ disk' = Unlinked(disk, PathsOf(gone), stuck)
    BY DEF WriteRefused
<1>2. /\ Counted(files) /\ OnDisk(files, disk) /\ ToSet(files.entries) \subseteq FileEntries
      /\ files.total_bytes <= max_debug_bytes \/ Len(files.entries) = 1
    BY DEF IInv, FilesSound
<1>3. gone \in SUBSET ToSet(files.entries)
    BY DEF Outdated
<1> HIDE DEF gone
<1>4. Counted(r) /\ ToSet(r.entries) = ToSet(files.entries) \ gone
    BY <1>2, WithoutLeavesOthers
<1> HIDE DEF r
<1>5. r.total_bytes <= max_debug_bytes \/ Len(r.entries) = 1
    BY <1>2, <1>4, FewerKeepBound
<1>6. OnDisk(r, Unlinked(disk, PathsOf(gone), stuck))
    BY <1>2, <1>3, <1>4, UnlinkedIsOnDisk DEF Counted
<1> QED
    BY <1>1, <1>2, <1>4, <1>5, <1>6 DEF FilesSound

\* The files after a write: the purge, the evictions, and the file if it was written.
LEMMA WriteIsSound ==
    ASSUME IInv, NEW k \in CacheKeys, NEW length \in FileSizes, NEW works \in BOOLEAN,
           Write(k, length, works)
    PROVE  FilesSound(files', disk')
<1> DEFINE old == Outdated(files, now)
           kept == Without(files, old)
           evicted == Evicted(kept, length)
           room == Without(kept, evicted)
           gone == old \cup evicted
           f == [key |-> k, size |-> length, stored_at |-> now]
<1>1. PICK stuck \in SUBSET PathsOf(gone) :
          IF works
          THEN /\ files' = Written(room, f)
               /\ disk' = Saved(Unlinked(disk, PathsOf(gone), stuck), k, length)
          ELSE /\ files' = room
               /\ disk' = Unlinked(disk, PathsOf(gone), stuck)
    BY DEF Write
<1>2. /\ Counted(files) /\ OnDisk(files, disk) /\ ToSet(files.entries) \subseteq FileEntries
      /\ now \in 0 .. MaxNow /\ length <= max_file_bytes
    BY DEF IInv, FilesSound, Write
<1>3. length \in Nat /\ now \in Int
    BY <1>2, DebugArtifactsAssumption, ResponseCacheAssumption
<1>4. old \in SUBSET ToSet(files.entries)
    BY DEF Outdated
<1> HIDE DEF old
<1>5. Counted(kept) /\ ToSet(kept.entries) = ToSet(files.entries) \ old
    BY <1>2, WithoutLeavesOthers
<1> HIDE DEF kept
<1>6. /\ evicted \subseteq ToSet(kept.entries)
      /\ room.entries = <<>> \/ room.total_bytes + length <= max_debug_bytes
    BY <1>3, <1>5, EvictionMakesRoom
<1>7. Counted(room) /\ ToSet(room.entries) = ToSet(kept.entries) \ evicted
    BY <1>5, WithoutLeavesOthers
<1> HIDE DEF room, evicted
<1>8. gone \in SUBSET ToSet(files.entries) /\ ToSet(room.entries) = ToSet(files.entries) \ gone
    BY <1>4, <1>5, <1>6, <1>7
<1> HIDE DEF gone
<1> DEFINE d == Unlinked(disk, PathsOf(gone), stuck)
<1>9. OnDisk(room, d)
    BY <1>2, <1>8, UnlinkedIsOnDisk DEF Counted
<1>10. ToSet(room.entries) \subseteq FileEntries
    BY <1>2, <1>8
<1> HIDE DEF d
<1>11. CASE works
    <2>1. f \in FileEntries /\ f.key = k /\ f.size = length /\ f.stored_at = now
        BY <1>2 DEF FileEntries
    <2> HIDE DEF f
    <2> DEFINE w == Written(room, f)
    <2>2. /\ Counted(w)
          /\ ToSet(w.entries) = {g \in ToSet(room.entries) : g.key # f.key} \cup {f}
          /\ w.total_bytes <= max_debug_bytes \/ Len(w.entries) = 1
        BY <1>3, <1>6, <1>7, <2>1, WrittenIsCounted
    <2> HIDE DEF w
    <2>3. OnDisk(w, Saved(d, f.key, f.size))
        BY <1>9, <2>1, <2>2, SavedIsOnDisk
    <2>4. ToSet(w.entries) \subseteq FileEntries
        BY <1>10, <2>1, <2>2
    <2>5. FilesSound(w, Saved(d, k, length))
        BY <2>1, <2>2, <2>3, <2>4 DEF FilesSound
    <2> QED
        BY <1>1, <1>11, <2>5 DEF w, d
<1>12. CASE ~works
    <2>1. room.total_bytes <= max_debug_bytes \/ Len(room.entries) = 1
        <3>1. room.total_bytes \in Nat /\ (Len(room.entries) = 0 => room.total_bytes = 0)
            BY <1>7, FewerAreLess
        <3>2. room.entries = <<>> => Len(room.entries) = 0
            OBVIOUS
        <3> QED
            BY <1>3, <1>6, <3>1, <3>2, DebugArtifactsAssumption
    <2>2. FilesSound(room, d)
        BY <1>7, <1>9, <1>10, <2>1 DEF FilesSound
    <2> QED
        BY <1>1, <1>12, <2>2 DEF d
<1> QED
    BY <1>11, <1>12

\* A restart forgets what is counted; what is on disk stays there.
LEMMA RestartIsSound ==
    ASSUME IInv, Restart
    PROVE  IInv'
<1>1. cache' = EmptyCache /\ files' = EmptyCache /\ now' = now /\ disk' = disk
    BY DEF Restart
<1>2. now \in 0 .. MaxNow /\ \E there \in SUBSET CacheKeys : disk \in [there -> FileSizes]
    BY DEF IInv, FilesSound, OnDisk
<1>3. Counted(EmptyCache) /\ ToSet(EmptyCache.entries) = {}
    BY EmptyIsCounted
<1>4. EmptyCache.total_bytes = 0 /\ Len(EmptyCache.entries) = 0
    BY DEF EmptyCache
<1>5. OnDisk(EmptyCache, disk)
    BY <1>2, <1>3 DEF OnDisk
<1>6. CacheSound(EmptyCache) /\ FilesSound(EmptyCache, disk)
    BY <1>3, <1>4, <1>5, ResponseCacheAssumption, DebugArtifactsAssumption DEF CacheSound, FilesSound
<1> QED
    BY <1>1, <1>2, <1>6 DEF IInv

\* Every step keeps both stores sound.
LEMMA StepIsSound == IInv /\ [Next]_vars => IInv'
<1>1. SUFFICES ASSUME IInv, [Next]_vars PROVE IInv'
    OBVIOUS
<1>2. CacheSound(cache) /\ FilesSound(files, disk) /\ now \in 0 .. MaxNow
    BY <1>1 DEF IInv
<1>3. ASSUME NEW k \in CacheKeys, NEW body \in Bodies, NEW size \in BodySizes, NEW ttl \in Ttls,
             ScrapeStores(k, body, size, now + ttl)
      PROVE  IInv'
    <2>1. CacheSound(cache') /\ now' \in 0 .. MaxNow
        BY <1>1, <1>3, CachePutIsSound DEF ScrapeStores
    <2>2. CASE NoArtifact
        BY <1>2, <2>1, <2>2 DEF NoArtifact, IInv
    <2>3. ASSUME NEW length \in FileSizes, WriteRefused(length)
          PROVE  FilesSound(files', disk')
        BY <1>1, <2>3, RefusedIsSound
    <2>4. ASSUME NEW length \in FileSizes, NEW works \in BOOLEAN, Write(k, length, works)
          PROVE  FilesSound(files', disk')
        BY <1>1, <2>4, WriteIsSound
    <2> QED
        BY <1>3, <2>1, <2>2, <2>3, <2>4 DEF ScrapeStores, IInv
<1>4. ASSUME NEW k \in CacheKeys, ScrapeLooks(k)
      PROVE  IInv'
    <2>1. PICK gone : cache' = Without(cache, gone) /\ now' = now
        BY <1>4 DEF ScrapeLooks, CacheGet, CacheInvalidate, Looked, Invalidate
    <2>2. CacheSound(cache')
        BY <1>2, <2>1, FewerBodiesAreSound
    <2> QED
        BY <1>2, <1>4, <2>1, <2>2 DEF ScrapeLooks, NoArtifact, IInv
<1>5. CASE Tick
    <2>1. cache' = cache /\ now' = now + 1 /\ now < MaxNow
        BY <1>5 DEF Tick, CacheTick
    <2>2. now' \in 0 .. MaxNow
        BY <1>2, <2>1, ResponseCacheAssumption
    <2> QED
        BY <1>2, <1>5, <2>1, <2>2 DEF Tick, NoArtifact, IInv
<1>6. CASE Restart
    BY <1>1, <1>6, RestartIsSound
<1>7. CASE UNCHANGED vars
    BY <1>2, <1>7 DEF vars, cacheVars, IInv
<1> QED
    BY <1>1, <1>3, <1>4, <1>5, <1>6, <1>7 DEF Next

\* The invariant holds in every reachable state.
THEOREM Invariance == Spec => []IInv
BY StartsSound, StepIsSound, PTL DEF Spec

\* What is listed from a set is a sequence over it.
LEMMA ListsAreSequences ==
    ASSUME NEW s, Listed(s), NEW R, ToSet(s) \subseteq R
    PROVE  s \in Seq(R)
<1>1. Len(s) \in Nat /\ DOMAIN s = 1 .. Len(s) /\ s \in Seq(ToSet(s))
    BY ListFacts
<1> QED
    BY <1>1

\* The caches and counters have the shapes the code gives them, whatever is put,
\* written, purged or forgotten.
THEOREM TypeCorrect == Spec => []TypeOK
<1>1. IInv => TypeOK
    <2>1. SUFFICES ASSUME IInv PROVE TypeOK
        OBVIOUS
    <2>2. CacheSound(cache) /\ FilesSound(files, disk) /\ now \in 0 .. MaxNow
        BY <2>1 DEF IInv
    <2>3. cache.entries \in Seq(CacheEntries)
        BY <2>2, ListsAreSequences DEF CacheSound, Counted
    <2>4. cache.total_bytes \in Nat /\ files.total_bytes \in Nat
        BY <2>2, FewerAreLess DEF CacheSound, FilesSound
    <2>5. DOMAIN disk \subseteq CacheKeys /\ disk \in [DOMAIN disk -> FileSizes]
        BY <2>2 DEF FilesSound, OnDisk
    <2>6. files.entries \in Seq([key : CacheKeys, size : FileSizes, stored_at : 0 .. MaxNow])
        <3>1. FileEntries \subseteq [key : CacheKeys, size : FileSizes, stored_at : 0 .. MaxNow]
            BY DEF FileEntries
        <3> QED
            BY <2>2, <3>1, ListsAreSequences DEF FilesSound, Counted
    <2> QED
        BY <2>2, <2>3, <2>4, <2>5, <2>6 DEF TypeOK, CacheTypeOK, CacheEntries
<1> QED
    BY <1>1, Invariance, PTL

\* One file by itself is no larger than a file may be.
LEMMA OneFileFits ==
    ASSUME NEW s, Counted(s), ToSet(s.entries) \subseteq FileEntries, Len(s.entries) = 1
    PROVE  s.total_bytes <= max_file_bytes
<1>1. Listed(s.entries) /\ s.total_bytes = SizeOf(ToSet(s.entries))
    BY DEF Counted
<1>2. ToSet(s.entries) = {s.entries[1]}
    <2>1. DOMAIN s.entries = 1 .. 1
        BY <1>1, ListFacts
    <2> QED
        BY <2>1 DEF ToSet
<1>3. s.entries[1].size \in Nat /\ s.entries[1].size <= max_file_bytes
    BY <1>1, <1>2, ListFacts DEF FileEntries, Listed
<1> QED
    BY <1>1, <1>2, <1>3, SizeOfOne

\* Neither store loses count of what it holds or outgrows its bounds, whatever is
\* replaced, evicted, expired or refused on the way.
THEOREM StoresCountWhatTheyHold == Spec => []StoresKeepCount
<1>1. IInv => StoresKeepCount
    <2>1. SUFFICES ASSUME IInv PROVE StoresKeepCount
        OBVIOUS
    <2>2. CacheSound(cache) /\ FilesSound(files, disk)
        BY <2>1 DEF IInv
    <2>3. Listed(cache.entries) /\ Listed(files.entries)
        BY <2>2 DEF CacheSound, FilesSound, Counted
    <2>4. /\ cache.total_bytes = Bytes(cache.entries, DOMAIN cache.entries)
          /\ files.total_bytes = Bytes(files.entries, DOMAIN files.entries)
        BY <2>2, <2>3, ListCounts DEF CacheSound, FilesSound, Counted
    <2>5. CacheWithinBounds
        BY <2>2, <2>3, <2>4 DEF CacheWithinBounds, CacheSound, Listed, Keyed
    <2>6. ArtifactsAreCounted
        <3>1. Len(files.entries) = 1 => files.total_bytes <= max_file_bytes
            BY <2>2, OneFileFits DEF FilesSound
        <3> QED
            BY <2>2, <2>3, <2>4, <3>1 DEF ArtifactsAreCounted, FilesSound, OnDisk, Listed, Keyed
    <2> QED
        BY <2>5, <2>6 DEF StoresKeepCount
<1> QED
    BY <1>1, Invariance, PTL

\* What is on disk and not counted stays there: neither the purge by age nor the
\* making of room ever looks at a file that an unlink refused or that a restart left
\* (_purge_expired, _evict_oldest_global).
THEOREM UncountedFilesStay ==
    Spec => [][\A p \in DOMAIN disk : p \notin PathsOf(ToSet(files.entries)) => p \in DOMAIN disk']_vars
<1> DEFINE Stays == \A p \in DOMAIN disk : p \notin PathsOf(ToSet(files.entries)) => p \in DOMAIN disk'
<1>1. ASSUME NEW gone, gone \subseteq ToSet(files.entries), NEW stuck
      PROVE  \A p \in DOMAIN disk : p \notin PathsOf(ToSet(files.entries)) => p \in DOMAIN Unlinked(disk, PathsOf(gone), stuck)
    <2>1. DOMAIN Unlinked(disk, PathsOf(gone), stuck) = DOMAIN disk \ (PathsOf(gone) \ stuck)
        BY DEF Unlinked, Restrict
    <2>2. PathsOf(gone) \subseteq PathsOf(ToSet(files.entries))
        BY <1>1 DEF PathsOf
    <2> QED
        BY <2>1, <2>2
<1>2. ASSUME NEW length, WriteRefused(length)
      PROVE  Stays
    <2>1. Outdated(files, now) \subseteq ToSet(files.entries)
        BY DEF Outdated
    <2>2. \E stuck : disk' = Unlinked(disk, PathsOf(Outdated(files, now)), stuck)
        BY <1>2 DEF WriteRefused
    <2> QED
        BY <1>1, <2>1, <2>2
<1>3. ASSUME IInv, NEW k, NEW length \in FileSizes, NEW works, Write(k, length, works)
      PROVE  Stays
    <2> DEFINE old == Outdated(files, now)
               kept == Without(files, old)
               gone == old \cup Evicted(kept, length)
    <2>1. old \subseteq ToSet(files.entries)
        BY DEF Outdated
    <2>2. Counted(files)
        BY <1>3 DEF IInv, FilesSound
    <2>3. \E stuck : \/ disk' = Saved(Unlinked(disk, PathsOf(gone), stuck), k, length)
                     \/ disk' = Unlinked(disk, PathsOf(gone), stuck)
        BY <1>3 DEF Write
    <2> HIDE DEF old
    <2>4. Counted(kept) /\ ToSet(kept.entries) = ToSet(files.entries) \ old
        BY <2>2, WithoutLeavesOthers
    <2> HIDE DEF kept
    <2>5. gone \subseteq ToSet(files.entries)
        BY <2>1, <2>4, EvictionMakesRoom, DebugArtifactsAssumption
    <2> HIDE DEF gone
    <2>6. \A d : DOMAIN d \subseteq DOMAIN Saved(d, k, length)
        BY DEF Saved
    <2> QED
        BY <1>1, <2>3, <2>5, <2>6
<1>4. IInv /\ [Next]_vars => [Stays]_vars
    <2>1. ASSUME disk' = disk
          PROVE  Stays
        BY <2>1
    <2> HIDE DEF Stays
    <2>2. ASSUME IInv, Next
          PROVE  Stays
        BY <1>2, <1>3, <2>1, <2>2 DEF Next, ScrapeStores, ScrapeLooks, NoArtifact, Tick, Restart
    <2> QED
        BY <2>2
<1> QED
    BY <1>4, Invariance, PTL DEF Spec

-----------------------------------------------------------------------------
(* Evicting the oldest *)

\* The positions of the rivals that are no older than one of them.
SinceOf(c, k, t, e) == {i \in DOMAIN c.entries :
    c.entries[i] \in Rivals(c, k, t) /\ c.entries[i].stored_at >= e.stored_at}

\* More evictions are of more entries.
LEMMA OldestGrow ==
    ASSUME NEW c, Listed(c.entries), NEW n \in Nat
    PROVE  Oldest(c, n - 1) \subseteq Oldest(c, n)
<1>1. \A i \in DOMAIN c.entries : Cardinality(Ahead(c, i)) \in Nat
    BY OldestOfAll
<1>2. \A i \in DOMAIN c.entries : Cardinality(Ahead(c, i)) < n - 1 => Cardinality(Ahead(c, i)) < n
    BY <1>1
<1> QED
    BY <1>2, OldestAre

\* What put() evicts did not fit beside the new entry and what is no older, and what
\* it keeps is no older.
LEMMA PutEvictsOldest ==
    ASSUME NEW c, Counted(c), NEW e, e.size \in Nat, e.stored_at \in Int, NEW t,
           e.size <= max_total_bytes,
           NEW x \in Rivals(c, e.key, t), x \notin ToSet(Put(c, e, t).entries)
    PROVE  /\ \/ Cardinality(SinceOf(c, e.key, t, x)) + 1 > max_entries
              \/ Bytes(c.entries, SinceOf(c, e.key, t, x)) + e.size > max_total_bytes
           /\ \A f \in Rivals(c, e.key, t) \cap ToSet(Put(c, e, t).entries) : f.stored_at >= x.stored_at
<1> DEFINE recent == Recent(c, e, t)
           room == Room(c, e, t)
           d == Put(c, e, t)
<1>1. PutDone(c, e, t)
    BY PutKeepsCount
<1> DEFINE rivals == Rivals(c, e.key, t)
           since == SinceOf(c, e.key, t, x)
           E == {c.entries[i] : i \in since}
<1>2. /\ Counted(recent)
      /\ ToSet(recent.entries) = rivals
      /\ ToSet(d.entries) = ToSet(room.entries) \cup {e}
      /\ room = MadeRoom(recent, e.size)
    BY <1>1 DEF PutDone, Room
<1> HIDE DEF recent, room, d
<1>3. PICK n \in 0 .. Len(recent.entries) :
          /\ room = Without(recent, Oldest(recent, n))
          /\ \A m \in 0 .. n - 1 : ~Fits(Without(recent, Oldest(recent, m)), e.size)
    BY <1>2, RoomIsMade
<1>4. Listed(recent.entries) /\ Listed(c.entries)
    BY <1>2 DEF Counted
<1>5. ToSet(room.entries) = rivals \ Oldest(recent, n)
    BY <1>2, <1>3, WithoutLeavesOthers
<1>6. x \in Oldest(recent, n) /\ x \in rivals /\ \A f \in rivals : f.key # e.key
    BY <1>2, <1>5 DEF d, Rivals
<1>7. n \in Nat /\ n # 0
    <2>1. n \in Nat
        BY <1>4, ListFacts
    <2>2. PICK i \in DOMAIN recent.entries : Cardinality(Ahead(recent, i)) < n
        BY <1>6, OldestAre
    <2>3. Cardinality(Ahead(recent, i)) \in Nat
        BY <1>4, OldestOfAll
    <2> QED
        BY <2>1, <2>2, <2>3
<1> DEFINE before == Without(recent, Oldest(recent, n - 1))
<1>8. ~Fits(before, e.size)
    BY <1>3, <1>7
<1>9. Counted(before) /\ ToSet(before.entries) = rivals \ Oldest(recent, n - 1)
    BY <1>2, WithoutLeavesOthers
<1> HIDE DEF before, rivals
<1>10. \A f \in rivals \ Oldest(recent, n - 1) : x.stored_at <= f.stored_at
    BY <1>2, <1>4, <1>6, <1>7, OldestComeFirst
<1>11. \A f \in rivals : f.stored_at \in Int /\ f.size \in Nat
    BY <1>2, <1>4 DEF Listed
<1>12. \A f \in rivals : \E i \in DOMAIN c.entries : c.entries[i] = f
    BY DEF rivals, Rivals, ToSet
<1>13. since = {i \in DOMAIN c.entries : c.entries[i] \in rivals /\ c.entries[i].stored_at >= x.stored_at}
    BY DEF SinceOf, rivals
<1> HIDE DEF since
<1>14. ToSet(before.entries) \subseteq E /\ E \subseteq rivals
    <2>1. \A f \in rivals : x.stored_at <= f.stored_at => f.stored_at >= x.stored_at
        BY <1>6, <1>11
    <2> QED
        BY <1>9, <1>10, <1>12, <1>13, <2>1
<1>15. since \in SUBSET (1 .. Len(c.entries))
    BY <1>4, <1>13, ListFacts
<1>16. IsFiniteSet(E) /\ Cardinality(E) = Cardinality(since) /\ Bytes(c.entries, since) = SizeOf(E)
    BY <1>4, <1>15, PositionsCount
<1> HIDE DEF E
<1>17. /\ Cardinality(ToSet(before.entries)) <= Cardinality(E) /\ Cardinality(E) \in Nat
       /\ SizeOf(ToSet(before.entries)) <= SizeOf(E) /\ SizeOf(E) \in Nat
    BY <1>11, <1>14, <1>16, FS_Subset, FS_CardinalityType, PartsAreSmaller
<1>18. /\ Len(before.entries) = Cardinality(ToSet(before.entries)) /\ Len(before.entries) \in Nat
       /\ before.total_bytes = SizeOf(ToSet(before.entries)) /\ before.total_bytes \in Nat
    BY <1>9, ListCounts, ListFacts, FewerAreLess DEF Counted
<1>19. ~(Len(before.entries) < max_entries) \/ ~(before.total_bytes + e.size <= max_total_bytes)
    BY <1>8 DEF Fits
<1>20. \/ Cardinality(since) + 1 > max_entries
       \/ Bytes(c.entries, since) + e.size > max_total_bytes
    BY <1>16, <1>17, <1>18, <1>19, ResponseCacheAssumption
<1>21. \A f \in rivals \cap ToSet(d.entries) : f.stored_at >= x.stored_at
    <2>1. ASSUME NEW f \in rivals, f \in ToSet(d.entries)
          PROVE  f.stored_at >= x.stored_at
        <3>1. f \in rivals \ Oldest(recent, n)
            BY <1>2, <1>5, <1>6, <2>1
        <3>2. f \in rivals \ Oldest(recent, n - 1)
            BY <1>4, <1>7, <3>1, OldestGrow
        <3> QED
            BY <1>6, <1>10, <1>11, <3>2
    <2> QED
        BY <2>1
<1> QED
    BY <1>20, <1>21 DEF since, rivals, d

\* The step that EvictsOnlyOldest allows.
GivesUpOnlyOldest ==
    \A new \in ToSet(cache'.entries) \ ToSet(cache.entries) :
        LET rivals == {f \in ToSet(cache.entries) \ Expired(cache, now) : f.key # new.key}
            Since(e) == {i \in DOMAIN cache.entries :
                cache.entries[i] \in rivals /\ cache.entries[i].stored_at >= e.stored_at}
        IN  \A e \in rivals \ ToSet(cache'.entries) :
                /\ \/ Cardinality(Since(e)) + 1 > max_entries
                   \/ Bytes(cache.entries, Since(e)) + new.size > max_total_bytes
                /\ \A f \in rivals \cap ToSet(cache'.entries) : f.stored_at >= e.stored_at

\* A put gives up only the oldest, and nothing else stores anything.
LEMMA StepGivesUpOnlyOldest == IInv /\ [Next]_vars => [GivesUpOnlyOldest]_cacheVars
<1>1. SUFFICES ASSUME IInv, [Next]_vars, cacheVars' # cacheVars PROVE GivesUpOnlyOldest
    OBVIOUS
<1>2. Counted(cache) /\ now \in 0 .. MaxNow
    BY <1>1 DEF IInv, CacheSound
<1>3. ASSUME NEW k \in CacheKeys, NEW body \in Bodies, NEW size \in BodySizes, NEW ttl \in Ttls,
             ScrapeStores(k, body, size, now + ttl)
      PROVE  GivesUpOnlyOldest
    <2> DEFINE e == Entry(k, body, size, now, now + ttl)
    <2>1. cache' = Put(cache, e, now)
        BY <1>3 DEF ScrapeStores, CachePut
    <2>2. e.size = size /\ e.stored_at = now /\ e.key = k
        BY DEF Entry
    <2>3. e.size \in Nat /\ e.stored_at \in Int
        BY <1>2, <2>2, ResponseCacheAssumption
    <2> HIDE DEF e
    <2>4. CASE e.size > max_total_bytes
        BY <2>1, <2>4 DEF Put, GivesUpOnlyOldest
    <2>5. CASE ~(e.size > max_total_bytes)
        <3>1. e.size <= max_total_bytes
            BY <2>3, <2>5, ResponseCacheAssumption
        <3>2. ToSet(cache'.entries) \subseteq ToSet(cache.entries) \cup {e}
            <4>1. PutDone(cache, e, now)
                BY <1>2, <2>3, <3>1, PutKeepsCount
            <4> QED
                BY <2>1, <4>1 DEF PutDone, Rivals
        <3>3. ASSUME NEW x \in Rivals(cache, e.key, now), x \notin ToSet(cache'.entries)
              PROVE  /\ \/ Cardinality(SinceOf(cache, e.key, now, x)) + 1 > max_entries
                        \/ Bytes(cache.entries, SinceOf(cache, e.key, now, x)) + e.size > max_total_bytes
                     /\ \A f \in Rivals(cache, e.key, now) \cap ToSet(cache'.entries) : f.stored_at >= x.stored_at
            BY <1>2, <2>1, <2>3, <3>1, <3>3, PutEvictsOldest
        <3>4. \A new \in ToSet(cache'.entries) \ ToSet(cache.entries) : new = e
            BY <3>2
        <3> QED
            BY <3>3, <3>4 DEF GivesUpOnlyOldest, Rivals, SinceOf
    <2> QED
        BY <2>4, <2>5
<1>4. ASSUME ToSet(cache'.entries) \subseteq ToSet(cache.entries)
      PROVE  GivesUpOnlyOldest
    BY <1>4 DEF GivesUpOnlyOldest
<1>5. ASSUME NEW k \in CacheKeys, ScrapeLooks(k)
      PROVE  GivesUpOnlyOldest
    <2>1. PICK gone : cache' = Without(cache, gone)
        BY <1>5 DEF ScrapeLooks, CacheGet, CacheInvalidate, Looked, Invalidate
    <2>2. ToSet(cache'.entries) \subseteq ToSet(cache.entries)
        BY <1>2, <2>1, WithoutLeavesOthers
    <2> QED
        BY <1>4, <2>2
<1>6. CASE Tick
    BY <1>4, <1>6 DEF Tick, CacheTick
<1>7. CASE Restart
    BY <1>4, <1>7, EmptyIsCounted DEF Restart
<1>8. CASE UNCHANGED vars
    BY <1>1, <1>8 DEF vars, cacheVars
<1> QED
    BY <1>1, <1>3, <1>5, <1>6, <1>7, <1>8 DEF Next

\* A fresh body of another key is given up only for want of room, and the oldest go
\* first (the loop in put).
THEOREM OldestGoFirst == Spec => EvictsOnlyOldest
<1>1. Spec => [][GivesUpOnlyOldest]_cacheVars
    BY Invariance, StepGivesUpOnlyOldest, PTL DEF Spec
<1> QED
    BY <1>1, PTL DEF EvictsOnlyOldest, GivesUpOnlyOldest

=============================================================================
