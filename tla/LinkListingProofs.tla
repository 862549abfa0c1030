------------------------- MODULE LinkListingProofs -------------------------
(***************************************************************************)
(* Theorems about LinkListing, for any finite set of links, any types and  *)
(* spellings, any sizes of pages, caps and limits, and all three stores:   *)
(* only links that were there are listed, and links that come and go make  *)
(* a listing repeat or skip no more than they are themselves.              *)
(***************************************************************************)
EXTENDS LinkListing, FiniteSetTheorems, FunctionTheorems, SequenceTheorems,
        TLAPS

----------------------------------------------------------------------------
(* The place of a number in a set, and sorting by it.                       *)

(* Ranks grow with the elements, from 1 to the number of them.              *)
LEMMA RankGrows ==
    ASSUME NEW S \in SUBSET Nat, IsFiniteSet(S)
    PROVE  /\ Cardinality(S) \in Nat
           /\ \A i \in S : Rank(i, S) \in 1 .. Cardinality(S)
           /\ \A i, j \in S : i < j => Rank(i, S) < Rank(j, S)
           /\ \A i, j \in S : Rank(i, S) = Rank(j, S) => i = j
<1> DEFINE Upto(i) == {k \in S : k <= i}
<1>1. \A i \in S : /\ IsFiniteSet(Upto(i)) /\ Cardinality(Upto(i)) \in Nat
                   /\ Cardinality(Upto(i)) <= Cardinality(S)
                   /\ Cardinality(Upto(i)) # 0
  <2> TAKE i \in S
  <2>1. IsFiniteSet(Upto(i)) /\ Cardinality(Upto(i)) <= Cardinality(S)
    BY FS_Subset
  <2>2. i \in Upto(i)
    OBVIOUS
  <2> QED
    BY <2>1, <2>2, FS_CardinalityType, FS_EmptySet
<1>2. Cardinality(S) \in Nat
  BY FS_CardinalityType
<1>3. \A i, j \in S : i < j => Cardinality(Upto(i)) < Cardinality(Upto(j))
  <2> SUFFICES ASSUME NEW i \in S, NEW j \in S, i < j
               PROVE  Cardinality(Upto(i)) < Cardinality(Upto(j))
    OBVIOUS
  <2>1. Upto(i) \in SUBSET Upto(j) /\ j \in Upto(j) /\ j \notin Upto(i)
    <3>1. i \in Nat /\ j \in Nat /\ \A k \in S : k \in Nat
      OBVIOUS
    <3>2. \A k \in S : k <= i => k <= j
      BY <3>1
    <3>3. j <= j /\ ~(j <= i)
      BY <3>1
    <3> QED
      BY <3>2, <3>3, Zenon
  <2> HIDE DEF Upto
  <2>2. /\ Cardinality(Upto(i)) <= Cardinality(Upto(j))
        /\ Cardinality(Upto(i)) # Cardinality(Upto(j))
    BY <1>1, <2>1, FS_Subset
  <2> QED
    BY <1>1, <2>2
<1>4. \A i \in S : Rank(i, S) = Cardinality(Upto(i))
  BY DEF Rank
<1> HIDE DEF Upto
<1>5. \A i, j \in S : i < j \/ j < i \/ i = j
  OBVIOUS
<1> QED
  BY <1>1, <1>2, <1>3, <1>4, <1>5

(* A finite set of numbers can be sorted.                                   *)
LEMMA SortedIncreases ==
    ASSUME NEW S \in SUBSET Nat, IsFiniteSet(S)
    PROVE  /\ Sorted(S) \in [1 .. Cardinality(S) -> S]
           /\ \A m, n \in 1 .. Cardinality(S) :
                m < n => Sorted(S)[m] < Sorted(S)[n]
<1> DEFINE N == Cardinality(S)
           r == [i \in S |-> Rank(i, S)]
<1>1. /\ N \in Nat /\ r \in [S -> 1 .. N]
      /\ \A i, j \in S : r[i] = r[j] => i = j
  BY RankGrows
<1>2. r \in Injection(S, 1 .. N)
  BY <1>1, Fun_IsInj
<1>3. IsFiniteSet(1 .. N) /\ Cardinality(1 .. N) = N
  BY <1>1, FS_Interval
<1>4. r \in Surjection(S, 1 .. N)
  BY <1>2, <1>3, FS_Injection
<1>5. \A n \in 1 .. N : \E i \in S : r[i] = n
  BY <1>4 DEF Surjection
<1> DEFINE f == [n \in 1 .. N |-> CHOOSE i \in S : r[i] = n]
<1>6. \A n \in 1 .. N : f[n] \in S /\ r[f[n]] = n
  BY <1>5
<1>7. f \in [1 .. N -> S]
  BY <1>6
<1>8. \A m, n \in 1 .. N : m < n => f[m] < f[n]
  <2> SUFFICES ASSUME NEW m \in 1 .. N, NEW n \in 1 .. N, m < n, ~(f[m] < f[n])
               PROVE  FALSE
    OBVIOUS
  <2>1. /\ f[m] \in S /\ f[n] \in S /\ r[f[m]] = m /\ r[f[n]] = n
        /\ f[m] \in Nat /\ f[n] \in Nat
    <3> HIDE DEF f, r
    <3>1. f[m] \in S /\ f[n] \in S /\ r[f[m]] = m /\ r[f[n]] = n
      BY <1>6
    <3> QED
      BY <3>1
  <2>3. Rank(f[m], S) = m /\ Rank(f[n], S) = n
    BY <2>1
  <2> HIDE DEF f, r
  <2>2. f[n] < f[m] \/ f[n] = f[m]
    BY <2>1
  <2> QED
    BY <1>1, <2>1, <2>2, <2>3, RankGrows
<1> HIDE DEF f
<1>9. \E s \in [1 .. N -> S] : \A m, n \in DOMAIN s : m < n => s[m] < s[n]
  <2>1. DOMAIN f = 1 .. N
    BY <1>7
  <2> QED
    BY <1>7, <1>8, <2>1
<1>10. /\ Sorted(S) \in [1 .. N -> S]
       /\ \A m, n \in DOMAIN Sorted(S) : m < n => Sorted(S)[m] < Sorted(S)[n]
  BY <1>9 DEF Sorted
<1> QED
  BY <1>10

(* The sorted sequence has every element at its rank.                       *)
LEMMA SortedRank ==
    ASSUME NEW S \in SUBSET Nat, IsFiniteSet(S)
    PROVE  /\ Sorted(S) \in Seq(S) /\ Len(Sorted(S)) = Cardinality(S)
           /\ \A n \in 1 .. Cardinality(S) :
                Sorted(S)[n] \in S /\ Rank(Sorted(S)[n], S) = n
           /\ \A i \in S : /\ Rank(i, S) \in 1 .. Cardinality(S)
                           /\ Sorted(S)[Rank(i, S)] = i
<1> DEFINE N == Cardinality(S)
           s == Sorted(S)
<1>1. N \in Nat
  BY FS_CardinalityType
<1>2. /\ s \in [1 .. N -> S]
      /\ \A m, n \in 1 .. N : m < n => s[m] < s[n]
  BY SortedIncreases
<1> HIDE DEF s
<1>3. s \in Seq(S) /\ Len(s) = N
  BY <1>1, <1>2
<1>4. \A m, n \in 1 .. N : s[m] = s[n] => m = n
  <2> SUFFICES ASSUME NEW m \in 1 .. N, NEW n \in 1 .. N, s[m] = s[n], m # n
               PROVE  FALSE
    OBVIOUS
  <2>1. s[m] \in S /\ (m < n \/ n < m)
    BY <1>1, <1>2
  <2>2. s[m] \in Nat
    BY <2>1
  <2> QED
    BY <1>2, <2>1, <2>2
<1>5. IsFiniteSet(1 .. N) /\ Cardinality(1 .. N) = N
  BY <1>1, FS_Interval
<1>6. s \in Injection(1 .. N, S)
  BY <1>2, <1>4, Fun_IsInj
<1>7. s \in Surjection(1 .. N, S)
  BY <1>5, <1>6, FS_Injection
<1>8. \A i \in S : \E n \in 1 .. N : s[n] = i
  BY <1>7 DEF Surjection
<1>9. \A n \in 1 .. N : s[n] \in S /\ Rank(s[n], S) = n
  <2> SUFFICES ASSUME NEW n \in 1 .. N
               PROVE  Rank(s[n], S) = n
    BY <1>2
  <2> DEFINE T == {j \in S : j <= s[n]}
             g == [k \in 1 .. n |-> s[k]]
  <2>1. \A k \in 1 .. n : k \in 1 .. N /\ (k < n \/ k = n)
    BY <1>1
  <2>2. \A k \in 1 .. n : s[k] \in T
    <3> TAKE k \in 1 .. n
    <3>1. s[k] \in S /\ s[n] \in S /\ (s[k] < s[n] \/ s[k] = s[n])
      BY <1>2, <2>1
    <3>2. s[k] \in Nat /\ s[n] \in Nat
      BY <3>1
    <3> QED
      BY <3>1, <3>2
  <2>3. \A j \in T : \E k \in 1 .. n : s[k] = j
    <3> TAKE j \in T
    <3>1. PICK k \in 1 .. N : s[k] = j
      BY <1>8
    <3>2. ~(n < k)
      <4> SUFFICES ASSUME n < k
                   PROVE  FALSE
        OBVIOUS
      <4>1. s[n] < s[k] /\ s[n] \in Nat /\ s[k] \in Nat /\ s[k] <= s[n]
        BY <1>2, <3>1
      <4> QED
        BY <4>1
    <3> QED
      BY <1>1, <3>1, <3>2
  <2>4. g \in [1 .. n -> T] /\ \A a, b \in 1 .. n : g[a] = g[b] => a = b
    BY <1>4, <2>1, <2>2
  <2>5. g \in Bijection(1 .. n, T)
    <3>1. \A t \in T : \E k \in 1 .. n : g[k] = t
      BY <2>3
    <3> HIDE DEF g, T
    <3> QED
      BY <2>4, <3>1, Fun_IsBij
  <2>6. IsFiniteSet(1 .. n) /\ Cardinality(1 .. n) = n
    BY FS_Interval
  <2>7. ExistsBijection(1 .. n, T)
    BY <2>5 DEF ExistsBijection
  <2>8. Cardinality(T) = n
    BY <2>6, <2>7, FS_Bijection
  <2> QED
    BY <2>8 DEF Rank
<1>10. \A i \in S : Rank(i, S) \in 1 .. N /\ s[Rank(i, S)] = i
  BY <1>8, <1>9
<1> QED
  BY <1>3, <1>9, <1>10 DEF s

(* Without an element, those above it move down by one.                     *)
LEMMA RankDrops ==
    ASSUME NEW S \in SUBSET Nat, IsFiniteSet(S), NEW d \in S
    PROVE  \A i \in S \ {d} :
             Rank(i, S \ {d}) = IF d < i THEN Rank(i, S) - 1 ELSE Rank(i, S)
<1> TAKE i \in S \ {d}
<1> DEFINE T == {k \in S : k <= i}
           U == {k \in S \ {d} : k <= i}
<1>1. i \in Nat /\ d \in Nat /\ i # d /\ i \in S
  OBVIOUS
<1>2. IsFiniteSet(T)
  BY FS_Subset
<1>3. U = T \ {d} /\ (d \in T <=> d < i)
  <2>1. d <= i <=> d < i
    BY <1>1
  <2> QED
    BY <2>1, Zenon
<1>4. Cardinality(T \ {d}) = IF d \in T THEN Cardinality(T) - 1 ELSE Cardinality(T)
  BY <1>2, FS_RemoveElement
<1>5. Rank(i, S \ {d}) = Cardinality(U) /\ Rank(i, S) = Cardinality(T)
  BY DEF Rank
<1> HIDE DEF T, U
<1> QED
  BY <1>3, <1>4, <1>5

(* So one element at most comes to be among the first c when one goes, and  *)
(* one at most is behind them when one comes, and was not before.           *)
LEMMA OneGoes ==
    ASSUME NEW S \in SUBSET Nat, IsFiniteSet(S), NEW d \in S, NEW c \in Nat
    PROVE  /\ \A i \in S \ {d} : Rank(i, S \ {d}) <= Rank(i, S)
           /\ \E x : \A i \in S \ {d} :
                Rank(i, S \ {d}) <= c => Rank(i, S) <= c \/ i = x
<1>1. /\ \A i \in S : Rank(i, S) \in Nat
      /\ \A i, j \in S : Rank(i, S) = Rank(j, S) => i = j
  BY RankGrows
<1>2. \A i \in S \ {d} : Rank(i, S \ {d}) \in {Rank(i, S), Rank(i, S) - 1}
  BY RankDrops
<1>3. \A i \in S \ {d} :
        Rank(i, S \ {d}) <= c => Rank(i, S) <= c \/ Rank(i, S) = c + 1
  BY <1>1, <1>2
<1>4. CASE \E x \in S : Rank(x, S) = c + 1
  BY <1>1, <1>2, <1>3, <1>4
<1>5. CASE ~ \E x \in S : Rank(x, S) = c + 1
  BY <1>1, <1>2, <1>3, <1>5
<1> QED
  BY <1>4, <1>5

LEMMA OneComes ==
    ASSUME NEW S \in SUBSET Nat, IsFiniteSet(S), NEW a \in Nat \ S, NEW c \in Nat
    PROVE  /\ \A i \in S : Rank(i, S) <= Rank(i, S \cup {a})
           /\ \E x : \A i \in S \cup {a} : Rank(i, S \cup {a}) > c =>
                i = x \/ (i \in S /\ Rank(i, S) > c)
<1> DEFINE T == S \cup {a}
<1>1. T \in SUBSET Nat /\ IsFiniteSet(T) /\ a \in T /\ T \ {a} = S
  BY FS_AddElement
<1> HIDE DEF T
<1>2. /\ \A i \in T : Rank(i, T) \in Nat
      /\ \A i, j \in T : Rank(i, T) = Rank(j, T) => i = j
      /\ \A i, j \in T : i < j => Rank(i, T) < Rank(j, T)
  BY <1>1, RankGrows
<1>3. \A i \in S : Rank(i, S) = IF a < i THEN Rank(i, T) - 1 ELSE Rank(i, T)
  BY <1>1, RankDrops
<1>4. \A i \in S : i \in T
  BY <1>1
<1>5. CASE Rank(a, T) > c
  <2>1. \A i \in S : a < i => Rank(i, T) - 1 > c
    BY <1>1, <1>2, <1>4, <1>5
  <2>2. \A i \in T : Rank(i, T) > c => i = a \/ (i \in S /\ Rank(i, S) > c)
    BY <1>1, <1>3, <2>1
  <2> QED
    BY <1>2, <1>3, <1>4, <2>2 DEF T
<1>6. CASE ~(Rank(a, T) > c)
  <2>1. \A i \in T : Rank(i, T) > c =>
          i \in S /\ (Rank(i, S) > c \/ Rank(i, T) = c + 1)
    BY <1>1, <1>2, <1>3, <1>6
  <2>2. \E x : \A i \in T : Rank(i, T) > c => i = x \/ (i \in S /\ Rank(i, S) > c)
    <3>1. CASE \E x \in T : Rank(x, T) = c + 1
      BY <1>2, <2>1, <3>1
    <3>2. CASE ~ \E x \in T : Rank(x, T) = c + 1
      BY <2>1, <3>2
    <3> QED
      BY <3>1, <3>2
  <2> QED
    BY <1>2, <1>3, <1>4, <2>2 DEF T
<1> QED
  BY <1>5, <1>6

----------------------------------------------------------------------------
(* Sequences: what is kept of a page, and what the answer becomes.          *)

(* Min is a choice among the elements; of two it is the lesser.             *)
LEMMA MinOfTwo ==
    ASSUME NEW a \in Int, NEW b \in Int
    PROVE  Min({a, b}) = IF a <= b THEN a ELSE b
<1> DEFINE m == IF a <= b THEN a ELSE b
<1>1. m \in {a, b} /\ \A y \in {a, b} : m <= y
  OBVIOUS
<1>2. \A x \in {a, b} : (\A y \in {a, b} : x <= y) => x = m
  OBVIOUS
<1> HIDE DEF m
<1>3. Min({a, b}) = m
  BY <1>1, <1>2 DEF Min
<1> QED
  BY <1>3 DEF m

(* A sequence has at most as many elements as positions, and as many if it  *)
(* repeats none.                                                            *)
LEMMA RangeCardinality ==
    ASSUME NEW S, NEW s \in Seq(S)
    PROVE  /\ IsFiniteSet(Range(s)) /\ Range(s) \subseteq S
           /\ Cardinality(Range(s)) \in Nat /\ Cardinality(Range(s)) <= Len(s)
           /\ IsInjective(s) => Cardinality(Range(s)) = Len(s)
<1>1. Len(s) \in Nat /\ DOMAIN s = 1 .. Len(s) /\ s \in [1 .. Len(s) -> S]
  BY LenProperties
<1>2. s \in [1 .. Len(s) -> Range(s)] /\ Range(s) \subseteq S
  BY <1>1 DEF Range
<1>3. \A y \in Range(s) : \E n \in 1 .. Len(s) : s[n] = y
  BY <1>1 DEF Range
<1>4. s \in Surjection(1 .. Len(s), Range(s))
  BY <1>2, <1>3, Fun_IsSurj
<1>5. IsFiniteSet(1 .. Len(s)) /\ Cardinality(1 .. Len(s)) = Len(s)
  BY <1>1, FS_Interval
<1>6. /\ IsFiniteSet(Range(s)) /\ Cardinality(Range(s)) <= Len(s)
      /\ Cardinality(Range(s)) = Len(s) <=> s \in Injection(1 .. Len(s), Range(s))
  BY <1>4, <1>5, FS_Surjection
<1>7. IsInjective(s) => s \in Injection(1 .. Len(s), Range(s))
  BY <1>1, <1>2, Fun_IsInj DEF IsInjective
<1>8. Cardinality(Range(s)) \in Nat
  BY <1>6, FS_CardinalityType
<1> QED
  BY <1>2, <1>6, <1>7, <1>8

(* What a sequence with another one appended holds.                         *)
LEMMA Concatenation ==
    ASSUME NEW S, NEW s \in Seq(S), NEW t \in Seq(S)
    PROVE  /\ s \o t \in Seq(S) /\ Len(s \o t) = Len(s) + Len(t)
           /\ Range(s \o t) = Range(s) \cup Range(t)
<1> DEFINE u == s \o t
<1>1. /\ u \in Seq(S) /\ Len(u) = Len(s) + Len(t)
      /\ \A i \in 1 .. Len(s) + Len(t) :
           u[i] = IF i <= Len(s) THEN s[i] ELSE t[i - Len(s)]
  BY ConcatProperties
<1> HIDE DEF u
<1>2. /\ Len(s) \in Nat /\ DOMAIN s = 1 .. Len(s)
      /\ Len(t) \in Nat /\ DOMAIN t = 1 .. Len(t)
      /\ DOMAIN u = 1 .. Len(s) + Len(t)
  BY <1>1, LenProperties
<1>3. \A i \in 1 .. Len(s) : i \in DOMAIN u /\ u[i] = s[i]
  BY <1>1, <1>2
<1>4. \A i \in 1 .. Len(t) : Len(s) + i \in DOMAIN u /\ u[Len(s) + i] = t[i]
  BY <1>1, <1>2
<1>5. \A i \in DOMAIN u : \/ i \in DOMAIN s /\ u[i] = s[i]
                          \/ i - Len(s) \in DOMAIN t /\ u[i] = t[i - Len(s)]
  BY <1>1, <1>2
<1>6. Range(u) = Range(s) \cup Range(t)
  BY <1>2, <1>3, <1>4, <1>5 DEF Range
<1> QED
  BY <1>1, <1>6 DEF u

(* The elements of a sequence in positions m to n.                          *)
LEMMA Slice ==
    ASSUME NEW S, NEW s \in Seq(S), IsInjective(s),
           NEW c \in Nat, NEW n \in Nat, n <= Len(s)
    PROVE  /\ SubSeq(s, c + 1, n) \in Seq(S)
           /\ Len(SubSeq(s, c + 1, n)) = IF c < n THEN n - c ELSE 0
           /\ IsInjective(SubSeq(s, c + 1, n))
           /\ Range(SubSeq(s, c + 1, n)) = {s[k] : k \in c + 1 .. n}
<1> DEFINE t == SubSeq(s, c + 1, n)
<1>1. Len(s) \in Nat /\ DOMAIN s = 1 .. Len(s) /\ \A k \in 1 .. Len(s) : s[k] \in S
  BY LenProperties, ElementOfSeq
<1>2. \A k \in c + 1 .. n : s[k] \in S
  BY <1>1
<1>3. /\ t \in Seq(S) /\ Len(t) = IF c + 1 <= n THEN n - (c + 1) + 1 ELSE 0
      /\ \A i \in 1 .. n - (c + 1) + 1 : t[i] = s[c + 1 + i - 1]
  BY <1>2, SubSeqProperties
<1> HIDE DEF t
<1>4. Len(t) = (IF c < n THEN n - c ELSE 0) /\ DOMAIN t = 1 .. Len(t)
  BY <1>3, LenProperties
<1>5. \A i \in DOMAIN t : c + i \in c + 1 .. n /\ c + i \in DOMAIN s /\ t[i] = s[c + i]
  BY <1>1, <1>3, <1>4
<1>6. \A k \in c + 1 .. n : k - c \in DOMAIN t /\ t[k - c] = s[k]
  <2> TAKE k \in c + 1 .. n
  <2>1. k - c \in DOMAIN t
    BY <1>4
  <2>2. c + (k - c) = k
    OBVIOUS
  <2> QED
    BY <1>5, <2>1, <2>2
<1>7. Range(t) = {s[k] : k \in c + 1 .. n}
  BY <1>5, <1>6 DEF Range
<1>8. IsInjective(t)
  <2> SUFFICES ASSUME NEW a \in DOMAIN t, NEW b \in DOMAIN t, t[a] = t[b]
               PROVE  a = b
    BY DEF IsInjective
  <2>1. c + a = c + b
    BY <1>5 DEF IsInjective
  <2> QED
    BY <1>4, <2>1
<1> QED
  BY <1>3, <1>4, <1>7, <1>8 DEF t

\* The elements of S after the first c, up to the n-th.
Between(S, c, n) == {i \in S : c < Rank(i, S) /\ Rank(i, S) <= n}

(* A finite set sorted is a sequence without repetitions, and a piece of it *)
(* holds the elements by their ranks.                                       *)
LEMMA SortedPiece ==
    ASSUME NEW S \in SUBSET Nat, IsFiniteSet(S),
           NEW c \in Nat, NEW n \in Nat, n <= Cardinality(S)
    PROVE  /\ SubSeq(Sorted(S), c + 1, n) \in Seq(S)
           /\ Len(SubSeq(Sorted(S), c + 1, n)) = IF c < n THEN n - c ELSE 0
           /\ IsInjective(SubSeq(Sorted(S), c + 1, n))
           /\ Range(SubSeq(Sorted(S), c + 1, n)) = Between(S, c, n)
<1> DEFINE s == Sorted(S)
<1>1. /\ s \in Seq(S) /\ Len(s) = Cardinality(S) /\ Cardinality(S) \in Nat
      /\ \A k \in 1 .. Cardinality(S) : s[k] \in S /\ Rank(s[k], S) = k
      /\ \A i \in S : Rank(i, S) \in 1 .. Cardinality(S) /\ s[Rank(i, S)] = i
  BY SortedRank, FS_CardinalityType
<1> HIDE DEF s
<1>2. DOMAIN s = 1 .. Cardinality(S)
  BY <1>1, LenProperties
<1>3. IsInjective(s)
  BY <1>1, <1>2 DEF IsInjective
<1>4. {s[k] : k \in c + 1 .. n} = {i \in S : c < Rank(i, S) /\ Rank(i, S) <= n}
  <2>1. \A k \in c + 1 .. n : /\ s[k] \in S /\ Rank(s[k], S) = k
                              /\ c < k /\ k <= n
    BY <1>1
  <2>2. \A i \in S : c < Rank(i, S) /\ Rank(i, S) <= n =>
          Rank(i, S) \in c + 1 .. n /\ s[Rank(i, S)] = i
    BY <1>1
  <2> QED
    BY <2>1, <2>2
<1> QED
  BY <1>1, <1>3, <1>4, Slice DEF s, Between

(* All of it is a piece of it.                                              *)
LEMMA SortedWhole ==
    ASSUME NEW S \in SUBSET Nat, IsFiniteSet(S)
    PROVE  /\ Sorted(S) \in Seq(S) /\ Len(Sorted(S)) = Cardinality(S)
           /\ IsInjective(Sorted(S)) /\ Range(Sorted(S)) = S
<1> DEFINE s == Sorted(S)
<1>1. /\ s \in Seq(S) /\ Len(s) = Cardinality(S) /\ Cardinality(S) \in Nat
      /\ \A k \in 1 .. Cardinality(S) : s[k] \in S /\ Rank(s[k], S) = k
      /\ \A i \in S : Rank(i, S) \in 1 .. Cardinality(S) /\ s[Rank(i, S)] = i
  BY SortedRank, FS_CardinalityType
<1> HIDE DEF s
<1>2. DOMAIN s = 1 .. Cardinality(S)
  BY <1>1, LenProperties
<1>3. IsInjective(s)
  BY <1>1, <1>2 DEF IsInjective
<1>4. Range(s) = S
  BY <1>1, <1>2 DEF Range
<1> QED
  BY <1>1, <1>3, <1>4 DEF s

----------------------------------------------------------------------------
(* What a call of the store adds to the answer.                             *)

(* The sets of IDs are finite sets of numbers.                              *)
LEMMA FiniteIds ==
    /\ IsFiniteSet(Id) /\ Id \subseteq Nat \ {0} /\ Cardinality(Id) \in Nat
    /\ \A S \in SUBSET Id : /\ S \in SUBSET Nat /\ IsFiniteSet(S)
                            /\ Cardinality(S) \in Nat
                            /\ Cardinality(S) <= Cardinality(Id)
<1>1. IsFiniteSet(Id) /\ Id \subseteq Nat \ {0}
  BY ListingAssumption DEF ListingAssumption
<1>2. \A S \in SUBSET Id : /\ IsFiniteSet(S) /\ Cardinality(S) \in Nat
                           /\ Cardinality(S) <= Cardinality(Id)
  BY <1>1, FS_Subset, FS_CardinalityType
<1> QED
  BY <1>1, <1>2, FS_CardinalityType

(* So are the sets of IDs the model speaks about.                           *)
LEMMA SetsOfIds ==
    ASSUME TypeOK
    PROVE  /\ IsFiniteSet(Id) /\ Id \subseteq Nat \ {0} /\ Cardinality(Id) \in Nat
           /\ Current \subseteq OfCurrent /\ OfCurrent \subseteq Id
           /\ \A n \in Nat : OfTypesBefore(n) \subseteq Id
           /\ stayed \subseteq Id /\ DOMAIN type \subseteq Id
           /\ \A S \in SUBSET Id : /\ S \in SUBSET Nat /\ IsFiniteSet(S)
                                   /\ Cardinality(S) \in Nat
                                   /\ Cardinality(S) <= Cardinality(Id)
<1>1. /\ Current \subseteq OfCurrent /\ OfCurrent \subseteq DOMAIN type
      /\ \A n \in Nat : OfTypesBefore(n) \subseteq DOMAIN type
      /\ DOMAIN type \subseteq Id /\ stayed \subseteq DOMAIN type
  BY DEF TypeOK, Current, OfCurrent, OfTypesBefore
<1> QED
  BY <1>1, FiniteIds

(* Of a page without repetitions, all is kept or as much as the limit       *)
(* allows.                                                                  *)
LEMMA KeptOfPage ==
    ASSUME TypeOK, limit > 0 => Len(out) < limit,
           NEW S \in SUBSET Id, NEW batch \in Seq(S), IsInjective(batch),
           NEW kept \in Keep(batch)
    PROVE  /\ kept \in Seq(S) /\ IsInjective(kept)
           /\ Range(kept) \subseteq Range(batch) /\ Len(kept) <= Len(batch)
           /\ limit > 0 => Len(out) + Len(kept) <= limit
           /\ \/ Len(kept) = Len(batch) /\ Range(kept) = Range(batch)
              \/ limit > 0 /\ Len(out) + Len(kept) = limit
<1> DEFINE room == Min({Len(batch), limit - Len(out)})
<1>1. /\ Len(batch) \in Nat /\ limit \in Nat /\ Len(out) \in Nat
      /\ DOMAIN batch = 1 .. Len(batch)
  BY LenProperties DEF TypeOK
<1>2. limit # 0 => /\ room = IF Len(batch) <= limit - Len(out) THEN Len(batch)
                             ELSE limit - Len(out)
                   /\ room \in Nat /\ room <= Len(batch) /\ room <= limit - Len(out)
  BY <1>1, MinOfTwo
<1>3. CASE limit = 0
  BY <1>1, <1>3 DEF Keep
<1>4. CASE limit # 0 /\ backend # "redis"
  <2>1. kept = SubSeq(batch, 1, room)
    BY <1>4 DEF Keep
  <2>6. room \in Nat /\ room <= Len(batch)
    BY <1>2, <1>4
  <2> HIDE DEF room
  <2>7. \A c \in Nat :
          LET s == SubSeq(batch, c + 1, room)
          IN  /\ s \in Seq(S) /\ Len(s) = IF c < room THEN room - c ELSE 0
              /\ IsInjective(s) /\ Range(s) = {batch[k] : k \in c + 1 .. room}
    BY <2>6, Slice
  <2>2. LET s == SubSeq(batch, 1, room)
        IN  /\ s \in Seq(S) /\ Len(s) = IF 0 < room THEN room - 0 ELSE 0
            /\ IsInjective(s) /\ Range(s) = {batch[k] : k \in 1 .. room}
    <3>1. 0 \in Nat /\ 0 + 1 = 1
      OBVIOUS
    <3> QED
      BY <2>7, <3>1
  <2>3. /\ kept \in Seq(S) /\ Len(kept) = room /\ IsInjective(kept)
        /\ Range(kept) = {batch[k] : k \in 1 .. room}
    <3>1. (IF 0 < room THEN room - 0 ELSE 0) = room
      BY <2>6
    <3> QED
      BY <2>1, <2>2, <3>1
  <2>4. {batch[k] : k \in 1 .. room} \subseteq Range(batch)
    BY <1>1, <1>2, <1>4 DEF Range
  <2>5. room = Len(batch) => {batch[k] : k \in 1 .. room} = Range(batch)
    BY <1>1 DEF Range
  <2> QED
    BY <1>1, <1>2, <1>4, <2>3, <2>4, <2>5
<1>5. CASE limit # 0 /\ backend = "redis"
  <2>1. PICK T \in kSubset(room, Range(batch)) : kept = Sorted(T)
    BY <1>5 DEF Keep
  <2> HIDE DEF room
  <2>2. /\ IsFiniteSet(Range(batch)) /\ Range(batch) \subseteq S
        /\ Cardinality(Range(batch)) = Len(batch)
    BY RangeCardinality
  <2>3. T \in SUBSET Range(batch) /\ Cardinality(T) = room
    BY <2>1 DEF kSubset
  <2>4. /\ T \in SUBSET Nat /\ IsFiniteSet(T) /\ T \subseteq S
        /\ room = Len(batch) => T = Range(batch)
    <3>1. IsFiniteSet(T) /\ (Cardinality(T) = Cardinality(Range(batch)) => T = Range(batch))
      BY <2>2, <2>3, FS_Subset
    <3>2. \A i \in Id : i \in Nat
      BY SetsOfIds
    <3> QED
      BY <2>2, <2>3, <3>1, <3>2
  <2>5. /\ kept \in Seq(T) /\ Len(kept) = room
        /\ IsInjective(kept) /\ Range(kept) = T
    BY <2>1, <2>3, <2>4, SortedWhole
  <2>6. kept \in Seq(S)
    BY <2>4, <2>5, SeqMonotonic
  <2> QED
    BY <1>1, <1>2, <1>5, <2>3, <2>4, <2>5, <2>6
<1> QED
  BY <1>3, <1>4, <1>5

\* After a page the listing stops at its limit, goes on with the same type
\* from next, or goes on with the next type.
StopsAtLimit == /\ limit > 0 /\ Len(out') >= limit /\ pc' = "done"
                /\ UNCHANGED <<current, cursor>>
GoesOn(next) == /\ limit > 0 => Len(out') < limit
                /\ next # 0 /\ cursor' = next /\ pc' = "list" /\ UNCHANGED current
EndsType == /\ limit > 0 => Len(out') < limit
            /\ cursor' = 0 /\ current' = current + 1
            /\ pc' = IF current + 1 > Len(ask) THEN "done" ELSE "list"

(* Collect, in these three cases.                                           *)
LEMMA CollectKinds ==
    ASSUME TypeOK, current \in DOMAIN ask,
           NEW kept \in Seq(Id), NEW next \in Nat, Collect(kept, next)
    PROVE  /\ out' = out \o kept /\ out' \in Seq(Id)
           /\ Len(out') = Len(out) + Len(kept)
           /\ Range(out') = Range(out) \cup Range(kept)
           /\ Len(out) \in Nat /\ Len(kept) \in Nat
           /\ StopsAtLimit \/ GoesOn(next) \/ (next = 0 /\ EndsType)
<1>1. out' = out \o kept /\ out \in Seq(Id) /\ limit \in Nat /\ ask \in Seq(Spelling)
  BY DEF Collect, TypeOK
<1>2. /\ out' \in Seq(Id) /\ Len(out') = Len(out) + Len(kept)
      /\ Range(out') = Range(out) \cup Range(kept)
  BY <1>1, Concatenation
<1>3. /\ Len(out) \in Nat /\ Len(kept) \in Nat /\ Len(ask) \in Nat
      /\ current \in 1 .. Len(ask)
  BY <1>1, LenProperties
<1>4. StopsAtLimit \/ GoesOn(next) \/ (next = 0 /\ EndsType)
  <2>1. CASE limit > 0 /\ Len(out') >= limit
    BY <2>1 DEF Collect, StopsAtLimit
  <2>2. CASE ~(limit > 0 /\ Len(out') >= limit)
    <3>1. /\ cursor' = next
          /\ current' = IF next = 0 THEN current + 1 ELSE current
          /\ pc' = IF current' > Len(ask) THEN "done" ELSE "list"
      BY <2>2 DEF Collect
    <3>2. limit > 0 => Len(out') < limit
      BY <1>1, <1>2, <1>3, <2>2
    <3> QED
      BY <1>3, <3>1, <3>2 DEF GoesOn, EndsType
  <2> QED
    BY <2>1, <2>2
<1> QED
  BY <1>1, <1>2, <1>3, <1>4

\* What a page of a store with an offset for a cursor gives its caller, and
\* where the next one begins.
PageTaken == IF backend = "memory" THEN MemoryPage(Sorted(Current))
                                   ELSE SqlitePage(Sorted(Current))
Unlisted(n) == Between(Current, cursor, n)

(* A page holds what follows the cursor, without a gap, and the next one    *)
(* begins where it ends, unless nothing is left.                            *)
LEMMA PageIsFull ==
    ASSUME TypeOK
    PROVE  /\ PageTaken.batch \in Seq(Current) /\ IsInjective(PageTaken.batch)
           /\ PageTaken.next \in Nat
           /\ Range(PageTaken.batch) = Unlisted(cursor + Len(PageTaken.batch))
           /\ Len(PageTaken.batch) > 0 =>
                cursor + Len(PageTaken.batch) <= Cardinality(Current)
           /\ PageTaken.next # 0 => /\ PageTaken.next = cursor + Len(PageTaken.batch)
                                    /\ Len(PageTaken.batch) > 0
           /\ PageTaken.next = 0 =>
                Range(PageTaken.batch) = Unlisted(Cardinality(Current))
<1> DEFINE ids == Sorted(Current)
           N == Cardinality(Current)
           n == Min({cursor + PageSize, Len(ids)})
           page == From(ids)
<1>1. /\ Current \in SUBSET Nat /\ IsFiniteSet(Current) /\ N \in Nat
      /\ cursor \in Nat /\ PageSize \in Nat \ {0} /\ Len(ids) = N
      /\ \A i \in Current : Rank(i, Current) \in 1 .. N
  <2>1. Current \in SUBSET Id
    BY SetsOfIds
  <2>2. Current \in SUBSET Nat /\ IsFiniteSet(Current) /\ N \in Nat
    BY <2>1, SetsOfIds
  <2>3. Len(ids) = N /\ \A i \in Current : Rank(i, Current) \in 1 .. N
    BY <2>2, SortedRank
  <2> QED
    BY <2>2, <2>3, ListingAssumption DEF ListingAssumption, TypeOK
<1> HIDE DEF N
<1>2. n = (IF cursor + PageSize <= N THEN cursor + PageSize ELSE N)
  BY <1>1, MinOfTwo
<1>3. n \in Nat /\ n <= N
  BY <1>1, <1>2
<1>4. page = SubSeq(ids, cursor + 1, n)
  BY DEF From
<1> HIDE DEF n, page
<1>5. /\ page \in Seq(Current) /\ IsInjective(page)
      /\ Len(page) = (IF cursor < n THEN n - cursor ELSE 0)
      /\ Range(page) = Unlisted(n)
  <2>1. n <= Cardinality(Current)
    BY <1>3 DEF N
  <2>2. LET s == SubSeq(Sorted(Current), cursor + 1, n)
        IN  /\ s \in Seq(Current) /\ IsInjective(s)
            /\ Len(s) = (IF cursor < n THEN n - cursor ELSE 0)
            /\ Range(s) = Between(Current, cursor, n)
    <3> HIDE DEF ids
    <3> QED
      BY <1>1, <1>3, <2>1, SortedPiece
  <2> QED
    BY <1>4, <2>2 DEF Unlisted
<1>6. /\ Unlisted(n) = Unlisted(cursor + Len(page))
      /\ n = N \/ (cursor < n /\ n = cursor + PageSize)
      /\ cursor >= N => n = N
      /\ Len(page) \in Nat /\ (Len(page) > 0 => cursor + Len(page) = n)
  <2>1. CASE cursor < n
    <3>1. cursor + Len(page) = n
      BY <1>1, <1>3, <1>5, <2>1
    <3> QED
      BY <1>1, <1>2, <1>3, <1>5, <2>1, <3>1
  <2>2. CASE ~(cursor < n)
    <3>1. Len(page) = 0 /\ cursor + Len(page) = cursor
      BY <1>1, <1>5, <2>2
    <3>2. Unlisted(n) = {} /\ Unlisted(cursor) = {}
      <4>1. \A i \in Current : ~(cursor < Rank(i, Current) /\ Rank(i, Current) <= n)
        BY <1>1, <1>3, <2>2
      <4>2. \A i \in Current : ~(cursor < Rank(i, Current) /\ Rank(i, Current) <= cursor)
        BY <1>1
      <4> QED
        BY <4>1, <4>2 DEF Unlisted, Between
    <3>3. n = N \/ (cursor < n /\ n = cursor + PageSize)
      BY <1>1, <1>2, <1>3, <2>2
    <3>4. cursor >= N => n = N
      BY <1>1, <1>2
    <3> QED
      BY <1>1, <3>1, <3>2, <3>3, <3>4
  <2> QED
    BY <2>1, <2>2
<1>7. CASE backend # "memory"
  <2>1. /\ PageTaken.batch = page
        /\ PageTaken.next = IF Len(page) = PageSize THEN cursor + PageSize ELSE 0
    BY <1>7 DEF PageTaken, SqlitePage, page
  <2>2. PageTaken.next = 0 => n = N
    BY <1>1, <1>5, <1>6, <2>1
  <2> QED
    BY <1>1, <1>3, <1>5, <1>6, <2>1, <2>2 DEF N
<1>8. CASE backend = "memory" /\ ~(cursor >= N)
  <2>1. /\ PageTaken.batch = page
        /\ PageTaken.next = IF cursor + Len(page) < N THEN cursor + Len(page) ELSE 0
    BY <1>1, <1>8 DEF PageTaken, MemoryPage, NextCursor, page
  <2>2. PageTaken.next = 0 => n = N
    BY <1>1, <1>2, <1>3, <1>5, <1>6, <1>8, <2>1
  <2>3. Len(page) > 0
    BY <1>1, <1>2, <1>5, <1>6, <1>8
  <2> QED
    BY <1>1, <1>3, <1>5, <1>6, <2>1, <2>2, <2>3 DEF N
<1>9. CASE backend = "memory" /\ cursor >= N
  <2>1. PageTaken.batch = <<>> /\ PageTaken.next = 0
    BY <1>1, <1>9 DEF PageTaken, MemoryPage, NothingLeft
  <2>2. Len(page) = 0
    BY <1>1, <1>3, <1>5, <1>9
  <2>3. page = <<>>
    BY <1>5, <2>2, EmptySeq
  <2> QED
    BY <1>1, <1>3, <1>5, <1>6, <1>9, <2>1, <2>2, <2>3 DEF N
<1> QED
  BY <1>7, <1>8, <1>9

\* What is taken of the links of the current type with an offset.
Takes(kept) ==
    /\ IsInjective(kept) /\ Range(kept) \subseteq Unlisted(Cardinality(Current))
    /\ Len(kept) > 0 => cursor + Len(kept) <= Cardinality(Current)
    /\ out' = out \o kept /\ out' \in Seq(Id)
    /\ Len(out') = Len(out) + Len(kept)
    /\ Range(out') = Range(out) \cup Range(kept)
    /\ limit > 0 => Len(out') <= limit
    /\ \/ StopsAtLimit
       \/ /\ GoesOn(cursor + Len(kept)) /\ Len(kept) > 0
          /\ Range(kept) = Unlisted(cursor + Len(kept))
       \/ EndsType /\ Range(kept) = Unlisted(Cardinality(Current))

(* One page takes the next links of its type, in order; if it is neither    *)
(* the last nor cut short by the limit, the cursor is where it ends.        *)
LEMMA PageTakes ==
    ASSUME TypeOK, Progress, Page
    PROVE  /\ current \in DOMAIN ask
           /\ \E kept \in Seq(Current) : Takes(kept)
<1>1. /\ pc = "list" /\ current \in DOMAIN ask /\ limit \in Nat
      /\ limit > 0 => Len(out) < limit
      /\ cursor \in Nat
  BY DEF Page, TypeOK, Progress
<1>2. Current = {i \in listable : type[i] = ask[current]}
  BY <1>1 DEF Current, OfCurrent, TypeOK
<1>3. PICK kept \in Keep(PageTaken.batch) : Collect(kept, PageTaken.next)
  BY <1>2 DEF Page, Matching, PageTaken
<1> DEFINE b == PageTaken.batch
           x == PageTaken.next
           N == Cardinality(Current)
<1>4. /\ b \in Seq(Current) /\ IsInjective(b) /\ x \in Nat
      /\ Range(b) = Unlisted(cursor + Len(b))
      /\ Len(b) > 0 => cursor + Len(b) <= N
      /\ x # 0 => x = cursor + Len(b) /\ Len(b) > 0
      /\ x = 0 => Range(b) = Unlisted(N)
  BY PageIsFull
<1>5. Current \in SUBSET Id /\ N \in Nat
  BY SetsOfIds
<1> HIDE DEF b, x
<1>6. kept \in Keep(b) /\ Collect(kept, x)
  BY <1>3 DEF b, x
<1>7. /\ kept \in Seq(Current) /\ IsInjective(kept)
      /\ Range(kept) \subseteq Range(b) /\ Len(kept) <= Len(b)
      /\ limit > 0 => Len(out) + Len(kept) <= limit
      /\ \/ Len(kept) = Len(b) /\ Range(kept) = Range(b)
         \/ limit > 0 /\ Len(out) + Len(kept) = limit
  BY <1>1, <1>4, <1>5, <1>6, KeptOfPage
<1>8. kept \in Seq(Id)
  BY <1>5, <1>7, SeqMonotonic
<1>9. /\ out' = out \o kept /\ out' \in Seq(Id)
      /\ Len(out') = Len(out) + Len(kept)
      /\ Range(out') = Range(out) \cup Range(kept)
      /\ Len(out) \in Nat /\ Len(kept) \in Nat
      /\ StopsAtLimit \/ GoesOn(x) \/ (x = 0 /\ EndsType)
  BY <1>1, <1>4, <1>6, <1>8, CollectKinds
<1>10. Len(b) \in Nat
  BY <1>4, LenProperties
<1>11. Range(kept) \subseteq Unlisted(N)
  <2>1. \A i \in Unlisted(cursor + Len(b)) : Len(b) > 0 \/ i \notin Current
    <3>1. \A i \in Current : Rank(i, Current) \in Nat
      BY <1>5, SetsOfIds, RankGrows
    <3> QED
      BY <1>1, <1>10, <3>1 DEF Unlisted, Between
  <2>2. \A i \in Current : Rank(i, Current) <= N
    <3>1. \A i \in Current : Rank(i, Current) \in 1 .. Cardinality(Current)
      BY <1>5, SetsOfIds, RankGrows
    <3> QED
      BY <3>1
  <2>3. Unlisted(cursor + Len(b)) \subseteq Unlisted(N)
    BY <2>2 DEF Unlisted, Between
  <2> QED
    BY <1>4, <1>7, <2>3
<1>12. Len(kept) > 0 => cursor + Len(kept) <= N
  BY <1>1, <1>4, <1>5, <1>7, <1>9, <1>10
<1>13. CASE StopsAtLimit
  BY <1>1, <1>7, <1>9, <1>11, <1>12, <1>13 DEF Takes
<1>14. CASE ~StopsAtLimit
  <2>1. limit > 0 => Len(out') < limit
    BY <1>9, <1>14 DEF GoesOn, EndsType
  <2>2. Len(kept) = Len(b) /\ Range(kept) = Range(b)
    BY <1>1, <1>7, <1>9, <2>1
  <2>3. CASE GoesOn(x)
    <3>1. x # 0
      BY <2>3 DEF GoesOn
    <3>2. x = cursor + Len(kept) /\ Len(kept) > 0
      BY <1>4, <2>2, <3>1
    <3> QED
      BY <1>1, <1>4, <1>7, <1>9, <1>11, <1>12, <2>2, <2>3, <3>2 DEF Takes
  <2>4. CASE x = 0 /\ EndsType
    BY <1>1, <1>4, <1>7, <1>9, <1>11, <1>12, <2>2, <2>4 DEF Takes
  <2> QED
    BY <1>9, <1>14, <2>3, <2>4
<1>15. \E k \in Seq(Current) : Takes(k)
  BY <1>7, <1>13, <1>14
<1> QED
  BY <1>1, <1>15

----------------------------------------------------------------------------
(* The types of a request, and how many links there can be in its answer.   *)

(* A set with at most one new element has at most one element more.         *)
LEMMA OneMoreAtMost ==
    ASSUME NEW S, IsFiniteSet(S), NEW x, NEW T, T \subseteq S \cup {x}
    PROVE  IsFiniteSet(T) /\ Cardinality(T) <= Cardinality(S) + 1
<1>1. /\ IsFiniteSet(S \cup {x})
      /\ Cardinality(S \cup {x}) = Cardinality(S) \/
         Cardinality(S \cup {x}) = Cardinality(S) + 1
  BY FS_AddElement
<1>2. /\ IsFiniteSet(T) /\ Cardinality(T) <= Cardinality(S \cup {x})
      /\ Cardinality(S) \in Nat /\ Cardinality(T) \in Nat
  BY <1>1, FS_Subset, FS_CardinalityType
<1> QED
  BY <1>1, <1>2

\* The links of the types listed are those of the types before the current
\* one and of that, and there is none in common.
Apart == /\ OfTypesBefore(current + 1) = OfTypesBefore(current) \cup OfCurrent
         /\ OfTypesBefore(current) \cap OfCurrent = {}
         /\ Cardinality(OfTypesBefore(current + 1)) =
              Cardinality(OfTypesBefore(current)) + Cardinality(OfCurrent)

(* The types of a request differ, so their links do.                        *)
LEMMA TypesApart == TypeOK /\ Progress => Apart
<1> SUFFICES ASSUME TypeOK, Progress
             PROVE  Apart
  OBVIOUS
<1>1. /\ ask \in Seq(Spelling) /\ IsInjective(ask) /\ Len(ask) \in Nat
      /\ DOMAIN ask = 1 .. Len(ask) /\ current \in 1 .. Len(ask) + 1
  BY LenProperties DEF TypeOK, Progress
<1>2. OfTypesBefore(current + 1) = OfTypesBefore(current) \cup OfCurrent
  <2>1. \A k \in DOMAIN ask : k < current + 1 <=> k < current \/ k = current
    BY <1>1
  <2>2. \A i \in DOMAIN type :
          (\E k \in DOMAIN ask : k < current + 1 /\ type[i] = ask[k])
          <=> \/ \E k \in DOMAIN ask : k < current /\ type[i] = ask[k]
              \/ current \in DOMAIN ask /\ type[i] = ask[current]
    BY <2>1
  <2> QED
    BY <2>2, Zenon DEF OfTypesBefore, OfCurrent
<1>3. OfTypesBefore(current) \cap OfCurrent = {}
  <2>1. \A k \in DOMAIN ask : k < current => k # current
    BY <1>1
  <2> QED
    BY <1>1, <2>1 DEF OfTypesBefore, OfCurrent, IsInjective
<1>4. /\ IsFiniteSet(OfTypesBefore(current)) /\ IsFiniteSet(OfCurrent)
      /\ Cardinality(OfTypesBefore(current)) \in Nat /\ Cardinality(OfCurrent) \in Nat
  BY <1>1, SetsOfIds
<1>5. Cardinality({}) = 0
  BY FS_EmptySet
<1>6. Cardinality(OfTypesBefore(current) \cup OfCurrent) =
        Cardinality(OfTypesBefore(current)) + Cardinality(OfCurrent)
        - Cardinality(OfTypesBefore(current) \cap OfCurrent)
  BY <1>4, FS_Union
<1>7. Cardinality(OfTypesBefore(current) \cap OfCurrent) = 0
  BY <1>3, <1>5
<1>8. Cardinality(OfTypesBefore(current + 1)) =
        Cardinality(OfTypesBefore(current) \cup OfCurrent)
  BY <1>2
<1>9. Cardinality(OfTypesBefore(current + 1)) =
        Cardinality(OfTypesBefore(current)) + Cardinality(OfCurrent)
  BY <1>4, <1>6, <1>7, <1>8
<1> QED
  BY <1>2, <1>3, <1>9 DEF Apart

LEMMA TypesApartNext == (TypeOK /\ Progress)' => Apart'
BY TypesApart, PTL


(* What is not taken once more is one link of the answer at least.          *)
FewRepeats == Repeats \in Int /\ (Id # {} => Repeats <= Cardinality(Id) - 1)

LEMMA RepeatsFew ==
    TypeOK /\ Progress /\ OneEach /\ backend # "redis" => FewRepeats
<1> SUFFICES ASSUME TypeOK, Progress, OneEach, backend # "redis"
             PROVE  FewRepeats
  OBVIOUS
<1> DEFINE R == Range(out)
           B == OfTypesBefore(current)
<1>1. /\ Len(out) \in Nat /\ IsFiniteSet(R) /\ Cardinality(R) \in Nat
      /\ Cardinality(R) <= Len(out) /\ R \subseteq Id
      /\ current \in Nat
  <2>1. out \in Seq(Id) /\ current \in Nat
    <3>1. Len(ask) \in Nat
      BY LenProperties DEF TypeOK
    <3> QED
      BY <3>1 DEF TypeOK, Progress
  <2> QED
    BY <2>1, RangeCardinality, LenProperties
<1>2. /\ Cardinality(Current) \in Nat /\ Cardinality(OfCurrent) \in Nat
      /\ Cardinality(Current) <= Cardinality(OfCurrent)
      /\ Cardinality(B) \in Nat /\ Cardinality(Id) \in Nat
      /\ Cardinality(B) + Cardinality(OfCurrent) <= Cardinality(Id)
  <2>1. /\ Current \subseteq OfCurrent /\ OfCurrent \subseteq Id
        /\ B \subseteq Id /\ OfTypesBefore(current + 1) \subseteq Id
        /\ Cardinality(Id) \in Nat
    BY <1>1, SetsOfIds
  <2>2. /\ IsFiniteSet(OfCurrent)
        /\ Cardinality(Current) \in Nat /\ Cardinality(OfCurrent) \in Nat
        /\ Cardinality(B) \in Nat
        /\ Cardinality(OfTypesBefore(current + 1)) <= Cardinality(Id)
    BY <2>1, FiniteIds
  <2>3. Cardinality(Current) <= Cardinality(OfCurrent)
    BY <2>1, <2>2, FS_Subset
  <2> QED
    BY <2>1, <2>2, <2>3, TypesApart DEF Apart
<1>3. /\ IsFiniteSet(Ahead) /\ Cardinality(Ahead) \in Nat
      /\ Cardinality(Ahead) <= Cardinality(R)
  <2>1. Ahead \in SUBSET R
    BY DEF Ahead
  <2> QED
    BY <1>1, <2>1, FS_Subset, FS_CardinalityType
<1>4. Repeats \in Int
  BY <1>1, <1>3 DEF Repeats
<1>5. Id # {} => Cardinality(Id) >= 1
  BY <1>2, FiniteIds, FS_EmptySet
<1>6. Len(out) <= Cardinality(Id)
  <2>1. Cardinality(OfTypesBefore(current + 1)) <= Cardinality(Id)
    BY <1>2, TypesApart DEF Apart
  <2>2. Cardinality(OfTypesBefore(current + 1)) \in Nat
    BY <1>2, TypesApart DEF Apart
  <2> QED
    BY <1>1, <1>2, <2>1, <2>2 DEF OneEach
<1>7. CASE Ahead = {}
  <2>1. Cardinality(Ahead) = 0
    BY <1>7, FS_EmptySet
  <2>2. Len(out) > 0 => Cardinality(R) >= 1
    <3>1. Len(out) > 0 => out[1] \in R
      BY <1>1, LenProperties DEF Range, TypeOK
    <3>2. Len(out) > 0 => R # {}
      BY <3>1
    <3> QED
      BY <1>1, <3>2, FS_EmptySet
  <2> HIDE DEF R
  <2>3. Repeats = Len(out) - Cardinality(R)
    BY <1>1, <2>1 DEF Repeats, R
  <2> QED
    BY <1>1, <1>2, <1>4, <1>5, <1>6, <2>2, <2>3 DEF FewRepeats
<1>8. CASE Ahead # {}
  <2>1. /\ pc = "list" /\ cursor \in Nat
        /\ Len(out) <= cursor + Cardinality(B)
    BY <1>8 DEF Ahead, OneEach, TypeOK
  <2>2. cursor < Cardinality(OfCurrent)
    <3>1. PICK i \in Current \ Passed : TRUE
      BY <1>8 DEF Ahead
    <3>2. Rank(i, Current) \in 1 .. Cardinality(Current)
      <4>1. Current \in SUBSET Nat /\ IsFiniteSet(Current)
        BY SetsOfIds
      <4> QED
        BY <3>1, <4>1, RankGrows
    <3>3. ~(Rank(i, Current) <= cursor)
      BY <2>1, <3>1 DEF Passed
    <3> QED
      BY <1>2, <2>1, <3>2, <3>3
  <2> HIDE DEF R, B
  <2>3. Repeats <= Len(out)
    BY <1>1, <1>3 DEF Repeats, R
  <2> QED
    BY <1>1, <1>2, <1>4, <2>1, <2>2, <2>3 DEF FewRepeats
<1> QED
  BY <1>7, <1>8

LEMMA RepeatsFewNext ==
    (TypeOK /\ Progress /\ OneEach /\ backend # "redis")' => FewRepeats'
BY RepeatsFew, PTL

----------------------------------------------------------------------------
(* A link comes, created or saved once more.                                *)

(* The history counts until it is as large as a listing can need.           *)
LEMMA OneMoreCounts ==
    ASSUME Id # {}, NEW n \in Nat
    PROVE  /\ OneMore(n) \in Nat
           /\ pc = "idle" => OneMore(n) = 0
           /\ pc # "idle" => \/ OneMore(n) = n + 1
                             \/ OneMore(n) = Cardinality(Id) - 1
<1>1. Cardinality(Id) \in Nat /\ Cardinality(Id) # 0
  BY FiniteIds, FS_EmptySet
<1>2. Min({n + 1, Cardinality(Id) - 1}) =
        IF n + 1 <= Cardinality(Id) - 1 THEN n + 1 ELSE Cardinality(Id) - 1
  BY <1>1, MinOfTwo
<1> QED
  BY <1>1, <1>2 DEF OneMore

Arrives(i) == /\ i \in Id \ listable /\ Add(i)
              /\ type' \in [DOMAIN type \cup {i} -> Spelling]
              /\ \A j \in DOMAIN type : type'[j] = type[j]

(* Create and Return are arrivals.                                          *)
LEMMA Arrivals ==
    ASSUME TypeOK, NEW i \in Id, NEW s \in Spelling, Create(i, s) \/ Return(i)
    PROVE  Arrives(i)
<1>1. type \in [DOMAIN type -> Spelling] /\ listable \subseteq DOMAIN type
  BY DEF TypeOK
<1>2. CASE Create(i, s)
  BY <1>1, <1>2 DEF Create, Arrives
<1>3. CASE Return(i)
  <2>1. DOMAIN type \cup {i} = DOMAIN type /\ type' = type
    BY <1>3 DEF Return
  <2> QED
    BY <1>1, <1>3, <2>1 DEF Return, Arrives
<1> QED
  BY <1>2, <1>3

\* The sets a link belongs to, before and after it comes.
Grows(i) == /\ OfCurrent \subseteq OfCurrent'
            /\ OfTypesBefore(current) \subseteq OfTypesBefore(current)'
            /\ OfTypesBefore(current + 1) \subseteq OfTypesBefore(current + 1)'
            /\ i \notin Current
            /\ Current' = Current \/ Current' = Current \cup {i}
            /\ \A x \in DOMAIN type :
                 /\ x \in OfCurrent' <=> x \in OfCurrent
                 /\ x \in OfTypesBefore(current)' <=> x \in OfTypesBefore(current)

(* An arrival adds a link to the sets and moves no other between them.      *)
LEMMA ArrivalGrows ==
    ASSUME TypeOK, NEW i \in Id, Arrives(i)
    PROVE  Grows(i)
<1>1. /\ DOMAIN type' = DOMAIN type \cup {i} /\ listable' = listable \cup {i}
      /\ i \notin listable /\ \A j \in DOMAIN type : type'[j] = type[j]
      /\ current' = current /\ ask' = ask
      /\ listable \subseteq DOMAIN type
  BY DEF Arrives, Add, TypeOK, listing
<1>2. \A x \in DOMAIN type :
        /\ x \in OfCurrent' <=> x \in OfCurrent
        /\ x \in OfTypesBefore(current)' <=> x \in OfTypesBefore(current)
        /\ x \in OfTypesBefore(current + 1)' <=> x \in OfTypesBefore(current + 1)
  BY <1>1 DEF OfCurrent, OfTypesBefore
<1>3. OfCurrent \subseteq DOMAIN type
  BY DEF OfCurrent
<1>4. /\ OfTypesBefore(current) \subseteq DOMAIN type
      /\ OfTypesBefore(current + 1) \subseteq DOMAIN type
  BY DEF OfTypesBefore
<1>5. OfCurrent' \subseteq DOMAIN type \cup {i}
  BY <1>1 DEF OfCurrent
<1>6. i \notin Current /\ (Current' = Current \/ Current' = Current \cup {i})
  BY <1>1, <1>2, <1>3, <1>5 DEF Current
<1> QED
  BY <1>2, <1>3, <1>4, <1>6 DEF Grows

(* It disturbs neither the types nor what is in the answer.                 *)
LEMMA ArrivalTyped ==
    ASSUME TypeOK, Progress, OnlyListable, NEW i \in Id, Arrives(i)
    PROVE  TypeOK' /\ Progress' /\ OnlyListable'
<1>1. /\ DOMAIN type' = DOMAIN type \cup {i} /\ listable' = listable \cup {i}
      /\ type' \in [DOMAIN type' -> Spelling]
      /\ seen' = (IF pc = "idle" THEN {} ELSE seen \cup {i})
      /\ arrivals' = OneMore(arrivals)
      /\ UNCHANGED <<backend, pc, ask, current, limit, cursor, scanned, out>>
      /\ UNCHANGED <<stayed, departures>>
  BY DEF Arrives, Add, listing
<1>2. OneMore(arrivals) \in Nat /\ (pc = "idle" => OneMore(arrivals) = 0)
  BY OneMoreCounts DEF TypeOK
<1>3. TypeOK'
  BY <1>1, <1>2 DEF TypeOK
<1>4. OfTypesBefore(current + 1) \subseteq OfTypesBefore(current + 1)'
  BY ArrivalGrows DEF Grows
<1>5. Progress'
  BY <1>1, <1>2, <1>4 DEF Progress
<1>6. pc = "idle" => Range(out) = {}
  BY DEF Progress, Range
<1>7. OnlyListable'
  BY <1>1, <1>6 DEF OnlyListable
<1> QED
  BY <1>3, <1>5, <1>7

(* What follows the coming link moves back, out of what was passed.         *)
LEMMA ArrivalMisses ==
    ASSUME TypeOK, MissedBound, NEW i \in Id, Arrives(i)
    PROVE  MissedBound'
<1>1. /\ UNCHANGED <<backend, pc, ask, current, limit, cursor, scanned, out>>
      /\ UNCHANGED <<stayed, departures>> /\ listable' = listable \cup {i}
  BY DEF Arrives, Add, listing
<1>2. stayed \subseteq listable /\ listable \subseteq DOMAIN type /\ cursor \in Nat
  BY DEF TypeOK
<1>3. Grows(i)
  BY ArrivalGrows
<1>4. \A x \in stayed : x \in Passed' => x \in Passed
  <2> SUFFICES ASSUME NEW x \in stayed, x \in Passed'
               PROVE  x \in Passed
    OBVIOUS
  <2>1. CASE backend = "redis"
    BY <1>1, <1>2, <1>3, <2>1 DEF Passed, Scanned, Grows
  <2>2. CASE backend # "redis"
    <3>1. x \in Current' /\ Rank(x, Current') <= cursor /\ pc \in {"list", "fetch"}
      BY <1>1, <2>2 DEF Passed
    <3>2. x \in Current
      BY <1>2, <1>3, <3>1 DEF Current, Grows
    <3>3. Current \in SUBSET Nat /\ IsFiniteSet(Current) /\ i \in Nat \ Current
      BY <1>3, SetsOfIds DEF Grows
    <3>4. Rank(x, Current) <= Rank(x, Current \cup {i})
      BY <3>2, <3>3, OneComes, 0 \in Nat
    <3>5. Rank(x, Current) <= Rank(x, Current')
      <4>1. Rank(x, Current) \in Nat
        BY <3>2, <3>3, RankGrows
      <4> QED
        BY <1>3, <3>4, <4>1 DEF Grows
    <3>6. Rank(x, Current) \in Nat /\ Rank(x, Current') \in Nat
      <4>1. Current' \in SUBSET Nat /\ IsFiniteSet(Current')
        <5>1. Current' \in SUBSET Id
          BY <1>3, SetsOfIds DEF Grows
        <5> QED
          BY <5>1, FiniteIds
      <4> QED
        BY <3>1, <3>2, <3>3, <4>1, RankGrows
    <3> QED
      BY <1>2, <2>2, <3>1, <3>2, <3>5, <3>6 DEF Passed
  <2> QED
    BY <2>1, <2>2
<1>5. Missed' \in SUBSET Missed
  BY <1>1, <1>2, <1>3, <1>4 DEF Missed, Grows
<1>6. IsFiniteSet(Missed) /\ Cardinality(Missed) \in Nat
  <2>1. Missed \subseteq Id
    BY SetsOfIds DEF Missed
  <2> QED
    BY <2>1, FiniteIds
<1>7. Cardinality(Missed') <= Cardinality(Missed) /\ Cardinality(Missed') \in Nat
  BY <1>5, <1>6, FS_Subset, FS_CardinalityType
<1> QED
  BY <1>1, <1>6, <1>7 DEF MissedBound, TypeOK


(* And one link at most that is in the answer moves behind the cursor.      *)
LEMMA ArrivalRepeats ==
    ASSUME TypeOK, Progress, OnlyListable, RepeatsBound, NEW i \in Id, Arrives(i)
    PROVE  RepeatsBound'
<1> SUFFICES ASSUME backend # "redis"
             PROVE  OneEach' /\ Repeats' <= arrivals'
  BY DEF RepeatsBound, Arrives, Add
<1>1. /\ UNCHANGED <<backend, pc, ask, current, limit, cursor, scanned, out>>
      /\ arrivals' = OneMore(arrivals) /\ listable' = listable \cup {i}
  BY DEF Arrives, Add, listing
<1>2. Grows(i)
  BY ArrivalGrows
<1>3. TypeOK' /\ Progress'
  BY ArrivalTyped
<1>4. OneEach /\ Repeats <= arrivals
  BY DEF RepeatsBound
<1>5. OneEach'
  <2>1. /\ OfCurrent' \in SUBSET Id
        /\ OfTypesBefore(current)' \in SUBSET Id
        /\ OfTypesBefore(current + 1)' \in SUBSET Id
    BY <1>3 DEF TypeOK, OfCurrent, OfTypesBefore
  <2>2. /\ IsFiniteSet(OfCurrent') /\ IsFiniteSet(OfTypesBefore(current)')
        /\ IsFiniteSet(OfTypesBefore(current + 1)')
    BY <2>1, FiniteIds
  <2>3. /\ Cardinality(OfCurrent) <= Cardinality(OfCurrent')
        /\ Cardinality(OfTypesBefore(current)) <= Cardinality(OfTypesBefore(current)')
        /\ Cardinality(OfTypesBefore(current + 1))
             <= Cardinality(OfTypesBefore(current + 1)')
        /\ Cardinality(OfCurrent) \in Nat /\ Cardinality(OfCurrent') \in Nat
        /\ Cardinality(OfTypesBefore(current)) \in Nat
        /\ Cardinality(OfTypesBefore(current)') \in Nat
        /\ Cardinality(OfTypesBefore(current + 1)) \in Nat
        /\ Cardinality(OfTypesBefore(current + 1)') \in Nat
    <3>1. /\ OfCurrent \in SUBSET OfCurrent'
          /\ OfTypesBefore(current) \in SUBSET OfTypesBefore(current)'
          /\ OfTypesBefore(current + 1) \in SUBSET OfTypesBefore(current + 1)'
      BY <1>2 DEF Grows
    <3> QED
      BY <2>2, <3>1, FS_Subset, FS_CardinalityType
  <2>4. Len(out) \in Nat /\ cursor \in Nat
    BY LenProperties DEF TypeOK
  <2>5. Len(out') <= Cardinality(OfTypesBefore(current + 1)')
    BY <1>1, <1>4, <2>3, <2>4 DEF OneEach
  <2>6. pc' = "list" => /\ cursor' <= Cardinality(OfCurrent')
                        /\ Len(out') <= cursor' + Cardinality(OfTypesBefore(current)')
    BY <1>1, <1>4, <2>3, <2>4 DEF OneEach
  <2> QED
    BY <2>5, <2>6 DEF OneEach
<1>6. \E x : Ahead' \subseteq Ahead \cup {x}
  <2>1. CASE pc # "list"
    BY <1>1, <2>1 DEF Ahead
  <2>2. CASE pc = "list" /\ Current' = Current
    BY <1>1, <2>2 DEF Ahead, Passed
  <2>3. CASE pc = "list" /\ Current' = Current \cup {i}
    <3>1. Current \in SUBSET Nat /\ IsFiniteSet(Current) /\ i \in Nat \ Current
      BY <1>2, SetsOfIds DEF Grows
    <3>2. cursor \in Nat
      BY DEF TypeOK
    <3>3. PICK x : \A j \in Current \cup {i} : Rank(j, Current \cup {i}) > cursor =>
                     j = x \/ (j \in Current /\ Rank(j, Current) > cursor)
      BY <3>1, <3>2, OneComes
    <3>4. /\ \A j \in Current : Rank(j, Current) \in Nat
          /\ \A j \in Current' : Rank(j, Current') \in Nat
      <4>1. Current' \in SUBSET Nat /\ IsFiniteSet(Current')
        <5>1. Current' \in SUBSET Id
          BY <2>3, SetsOfIds
        <5> QED
          BY <5>1, FiniteIds
      <4> QED
        BY <3>1, <4>1, RankGrows
    <3>5. \A j \in Current' : Rank(j, Current') > cursor =>
                     j = x \/ (j \in Current /\ Rank(j, Current) > cursor)
      BY <2>3, <3>3
    <3>6. \A j \in Current' \ Passed' :
            j \in Range(out) => j \in Ahead \/ j = x
      <4> SUFFICES ASSUME NEW j \in Current' \ Passed', j \in Range(out), j # x
                   PROVE  j \in Ahead
        OBVIOUS
      <4>1. ~(Rank(j, Current') <= cursor)
        BY <1>1, <2>3 DEF Passed
      <4>2. j \in Current /\ Rank(j, Current) > cursor
        BY <3>2, <3>4, <3>5, <4>1
      <4> QED
        BY <2>3, <3>2, <3>4, <4>2 DEF Ahead, Passed
    <3> QED
      BY <1>1, <3>6 DEF Ahead
  <2> QED
    BY <1>2, <2>1, <2>2, <2>3 DEF Grows
<1>7. /\ IsFiniteSet(Ahead) /\ Cardinality(Ahead) \in Nat
      /\ Cardinality(Ahead') \in Nat
      /\ Cardinality(Ahead') <= Cardinality(Ahead) + 1
  <2>1. Ahead \in SUBSET Id
    BY SetsOfIds DEF Ahead
  <2>2. IsFiniteSet(Ahead) /\ Cardinality(Ahead) \in Nat
    BY <2>1, FiniteIds
  <2>3. IsFiniteSet(Ahead') /\ Cardinality(Ahead') <= Cardinality(Ahead) + 1
    BY <1>6, <2>2, OneMoreAtMost
  <2> QED
    BY <2>2, <2>3, FS_CardinalityType
<1>8. Repeats' <= Repeats + 1 /\ Repeats \in Int /\ arrivals \in Nat
  <2>1. /\ Len(out) \in Nat /\ Cardinality(Range(out)) \in Nat /\ arrivals \in Nat
    BY RangeCardinality, LenProperties DEF TypeOK
  <2> QED
    BY <1>1, <1>7, <2>1 DEF Repeats
<1>9. Repeats' \in Int /\ Repeats' <= Cardinality(Id) - 1
  BY <1>1, <1>3, <1>5, RepeatsFewNext DEF FewRepeats
<1>10. CASE pc = "idle"
  <2>1. Len(out) = 0 /\ Range(out) = {}
    BY <1>10 DEF Progress, Range
  <2>2. Ahead' = {}
    BY <1>1, <1>10 DEF Ahead
  <2>3. Repeats' = 0
    BY <1>1, <2>1, <2>2, FS_EmptySet DEF Repeats
  <2> QED
    BY <1>1, <1>5, <1>8, <1>10, <2>3, OneMoreCounts
<1>11. CASE pc # "idle"
  BY <1>1, <1>4, <1>5, <1>8, <1>9, <1>11, OneMoreCounts
<1> QED
  BY <1>10, <1>11

----------------------------------------------------------------------------
(* A link goes, deleted or expired.                                         *)

\* The sets it belongs to, before and after it goes.
Shrinks(i) == /\ UNCHANGED <<backend, type, pc, ask, current, limit, cursor,
                             scanned, out, seen, arrivals>>
              /\ i \in Id /\ i \in listable /\ listable' = listable \ {i}
              /\ stayed' = stayed \ {i} /\ departures' = OneMore(departures)
              /\ OfCurrent' = OfCurrent
              /\ OfTypesBefore(current)' = OfTypesBefore(current)
              /\ OfTypesBefore(current + 1)' = OfTypesBefore(current + 1)
              /\ Current' = Current \ {i}

(* Disappear takes it from the links to be listed, and from no other set.   *)
LEMMA DepartureShrinks ==
    ASSUME TypeOK, NEW i \in Id, Disappear(i)
    PROVE  Shrinks(i)
<1>1. /\ UNCHANGED <<backend, type, pc, ask, current, limit, cursor,
                     scanned, out, seen, arrivals>>
      /\ i \in listable /\ listable' = listable \ {i}
      /\ stayed' = stayed \ {i} /\ departures' = OneMore(departures)
  BY DEF Disappear, listing
<1>2. /\ OfCurrent' = OfCurrent
      /\ OfTypesBefore(current)' = OfTypesBefore(current)
      /\ OfTypesBefore(current + 1)' = OfTypesBefore(current + 1)
  BY <1>1 DEF OfCurrent, OfTypesBefore
<1>3. Current' = Current \ {i}
  BY <1>1, <1>2 DEF Current
<1> QED
  BY <1>1, <1>2, <1>3 DEF Shrinks

(* It disturbs neither the types nor what is in the answer.                 *)
LEMMA DepartureTyped ==
    ASSUME TypeOK, Progress, OnlyListable, NEW i \in Id, Shrinks(i)
    PROVE  TypeOK' /\ Progress' /\ OnlyListable'
<1>1. /\ UNCHANGED <<backend, type, pc, ask, current, limit, cursor,
                     scanned, out, seen, arrivals>>
      /\ listable' = listable \ {i} /\ stayed' = stayed \ {i}
      /\ departures' = OneMore(departures)
      /\ OfTypesBefore(current + 1)' = OfTypesBefore(current + 1)
  BY DEF Shrinks
<1>2. OneMore(departures) \in Nat /\ (pc = "idle" => OneMore(departures) = 0)
  BY OneMoreCounts DEF TypeOK
<1>3. TypeOK'
  BY <1>1, <1>2 DEF TypeOK
<1>4. Progress'
  BY <1>1, <1>2 DEF Progress
<1>5. OnlyListable'
  BY <1>1 DEF OnlyListable
<1> QED
  BY <1>3, <1>4, <1>5

(* What follows the link that goes moves up, one link past the cursor.      *)
LEMMA DepartureMisses ==
    ASSUME TypeOK, Progress, MissedBound, NEW i \in Id, Shrinks(i)
    PROVE  MissedBound'
<1>1. /\ UNCHANGED <<backend, type, pc, ask, current, limit, cursor,
                     scanned, out, seen, arrivals>>
      /\ listable' = listable \ {i} /\ stayed' = stayed \ {i} /\ i \in listable
      /\ departures' = OneMore(departures) /\ OfCurrent' = OfCurrent
      /\ OfTypesBefore(current)' = OfTypesBefore(current)
      /\ Current' = Current \ {i}
  BY DEF Shrinks
<1>2. departures \in Nat /\ departures' \in Nat /\ stayed' # Id /\ cursor \in Nat
  BY <1>1, OneMoreCounts DEF TypeOK
<1>3. /\ Missed \in SUBSET Id /\ Missed' \in SUBSET Id
      /\ IsFiniteSet(Missed) /\ Cardinality(Missed) \in Nat
      /\ IsFiniteSet(Missed') /\ Cardinality(Missed') \in Nat
      /\ Cardinality(Missed') <= Cardinality(Id) - 1
  <2>1. /\ Missed \in SUBSET Id /\ Missed' \in SUBSET Id
        /\ Missed' \in SUBSET (Id \ {i})
    BY <1>1, SetsOfIds DEF Missed
  <2>2. /\ IsFiniteSet(Id \ {i}) /\ Cardinality(Id \ {i}) = Cardinality(Id) - 1
    BY FiniteIds, FS_RemoveElement
  <2>3. Cardinality(Missed') <= Cardinality(Id) - 1
    BY <2>1, <2>2, FS_Subset
  <2> QED
    BY <2>1, <2>3, FiniteIds
<1>4. CASE backend = "redis"
  <2>1. Passed' = Passed
    BY <1>1, <1>4 DEF Passed, Scanned
  <2>2. Missed' \in SUBSET Missed
    BY <1>1, <2>1 DEF Missed
  <2>3. Cardinality(Missed') <= Cardinality(Missed)
    BY <1>3, <2>2, FS_Subset
  <2>4. Cardinality(Missed) <= 0
    BY <1>4 DEF MissedBound
  <2> QED
    BY <1>1, <1>2, <1>3, <1>4, <2>3, <2>4 DEF MissedBound
<1>5. CASE backend # "redis" /\ pc = "idle"
  <2>1. Missed' = {}
    BY <1>1, <1>5 DEF Missed, Progress
  <2>2. Cardinality(Missed') = 0
    BY <2>1, FS_EmptySet
  <2> QED
    BY <1>1, <1>2, <1>5, <2>2 DEF MissedBound
<1>6. CASE backend # "redis" /\ pc # "idle"
  <2>1. \E x : \A j \in Passed' : j \in Passed \/ j = x
    <3>1. CASE pc \notin {"list", "fetch"}
      BY <1>1, <3>1 DEF Passed
    <3>2. CASE pc \in {"list", "fetch"} /\ i \notin Current
      <4>1. Current' = Current
        BY <1>1, <3>2
      <4> QED
        BY <1>1, <1>6, <3>2, <4>1 DEF Passed
    <3>3. CASE pc \in {"list", "fetch"} /\ i \in Current
      <4>1. Current \in SUBSET Nat /\ IsFiniteSet(Current)
        BY SetsOfIds
      <4>2. PICK x : \A j \in Current \ {i} :
              Rank(j, Current \ {i}) <= cursor => Rank(j, Current) <= cursor \/ j = x
        BY <1>2, <3>3, <4>1, OneGoes
      <4>3. \A j \in Passed' : j \in Passed \/ j = x
        BY <1>1, <1>6, <3>3, <4>2 DEF Passed
      <4> QED
        BY <4>3
    <3> QED
      BY <3>1, <3>2, <3>3
  <2>2. \E x : Missed' \subseteq Missed \cup {x}
    <3>1. PICK x : \A j \in Passed' : j \in Passed \/ j = x
      BY <2>1
    <3>2. Missed' \subseteq Missed \cup {x}
      BY <1>1, <3>1 DEF Missed
    <3> QED
      BY <3>2
  <2>3. Cardinality(Missed') <= Cardinality(Missed) + 1
    BY <1>3, <2>2, OneMoreAtMost
  <2>4. Cardinality(Missed) <= departures
    BY <1>6 DEF MissedBound
  <2>5. departures' = departures + 1 \/ departures' = Cardinality(Id) - 1
    BY <1>1, <1>2, <1>6, OneMoreCounts
  <2>6. Cardinality(Missed') <= departures'
    BY <1>2, <1>3, <2>3, <2>4, <2>5
  <2> QED
    BY <1>1, <1>2, <1>6, <2>6 DEF MissedBound
<1> QED
  BY <1>4, <1>5, <1>6

(* What is behind the cursor after it was there before.                     *)
LEMMA DepartureRepeats ==
    ASSUME TypeOK, Progress, RepeatsBound, NEW i \in Id, Shrinks(i)
    PROVE  RepeatsBound'
<1> SUFFICES ASSUME backend # "redis"
             PROVE  OneEach' /\ Repeats' <= arrivals'
  BY DEF RepeatsBound, Shrinks
<1>1. /\ UNCHANGED <<backend, type, pc, ask, current, limit, cursor,
                     scanned, out, seen, arrivals>>
      /\ OfCurrent' = OfCurrent /\ Current' = Current \ {i}
      /\ OfTypesBefore(current)' = OfTypesBefore(current)
      /\ OfTypesBefore(current + 1)' = OfTypesBefore(current + 1)
  BY DEF Shrinks
<1>2. OneEach /\ Repeats <= arrivals /\ cursor \in Nat /\ arrivals \in Nat
  BY DEF RepeatsBound, TypeOK
<1>3. OneEach'
  BY <1>1, <1>2 DEF OneEach
<1>4. Ahead' \in SUBSET Ahead
  <2>1. \A j \in Current \ {i} : /\ Rank(j, Current \ {i}) <= Rank(j, Current)
                                 /\ Rank(j, Current) \in Nat
                                 /\ Rank(j, Current \ {i}) \in Nat
    <3>1. /\ Current \in SUBSET Nat /\ IsFiniteSet(Current)
          /\ Current \ {i} \in SUBSET Nat /\ IsFiniteSet(Current \ {i})
      <4>1. Current \in SUBSET Id /\ Current \ {i} \in SUBSET Id
        BY SetsOfIds
      <4> QED
        BY <4>1, FiniteIds
    <3>2. \A j \in Current \ {i} : /\ Rank(j, Current) \in Nat
                                   /\ Rank(j, Current \ {i}) \in Nat
      BY <3>1, RankGrows
    <3>3. CASE i \in Current
      BY <1>2, <3>1, <3>2, <3>3, OneGoes
    <3>4. CASE i \notin Current
      <4>1. Current \ {i} = Current
        BY <3>4
      <4> QED
        BY <3>2, <4>1
    <3> QED
      BY <3>3, <3>4
  <2>2. \A j \in Current' : j \in Passed => j \in Passed'
    BY <1>1, <1>2, <2>1 DEF Passed
  <2> QED
    BY <1>1, <2>2 DEF Ahead
<1>5. /\ Cardinality(Ahead') <= Cardinality(Ahead)
      /\ Cardinality(Ahead) \in Nat /\ Cardinality(Ahead') \in Nat
  <2>1. Ahead \in SUBSET Id
    BY SetsOfIds DEF Ahead
  <2>2. IsFiniteSet(Ahead) /\ Cardinality(Ahead) \in Nat
    BY <2>1, FiniteIds
  <2> QED
    BY <1>4, <2>2, FS_Subset, FS_CardinalityType
<1>6. Repeats' <= Repeats /\ Repeats' \in Int /\ Repeats \in Int
  <2>1. /\ Len(out) \in Nat /\ Cardinality(Range(out)) \in Nat
    BY RangeCardinality, LenProperties DEF TypeOK
  <2> QED
    BY <1>1, <1>5, <2>1 DEF Repeats
<1> QED
  BY <1>1, <1>2, <1>3, <1>6

----------------------------------------------------------------------------
(* A request arrives, or is over.                                           *)

(* At the start nothing is passed: ranks and IDs begin with one.            *)
LEMMA NothingPassed ==
    TypeOK /\ cursor = 0 /\ pc # "fetch" => Passed = {}
<1> SUFFICES ASSUME TypeOK, cursor = 0, pc # "fetch"
             PROVE  Passed = {}
  OBVIOUS
<1>1. \A i \in OfCurrent : ~(i <= 0)
  BY SetsOfIds
<1>2. \A i \in Current : ~(Rank(i, Current) <= 0)
  <2>1. \A i \in Current : Rank(i, Current) \in 1 .. Cardinality(Current)
    BY SetsOfIds, RankGrows
  <2>2. Cardinality(Current) \in Nat
    BY SetsOfIds
  <2> QED
    BY <2>1, <2>2
<1> QED
  BY <1>1, <1>2 DEF Passed, Scanned

LEMMA NothingPassedNext == (TypeOK /\ cursor = 0 /\ pc # "fetch")' => (Passed = {})'
BY NothingPassed, PTL

(* A request starts with nothing passed and nothing taken.                  *)
LEMMA StartKeeps ==
    ASSUME IInv, NEW types \in Seq(Spelling), IsInjective(types),
           NEW max \in Nat, Start(types, max)
    PROVE  IInv'
<1>1. /\ pc = "idle" /\ types # <<>> /\ pc' = "list" /\ ask' = types
      /\ limit' = max /\ stayed' = listable /\ seen' = listable
      /\ UNCHANGED <<backend, type, listable, current, cursor, scanned, out,
                     arrivals, departures>>
  BY DEF Start, links
<1>2. /\ TypeOK /\ cursor = 0 /\ out = <<>> /\ ask = <<>> /\ scanned = {}
      /\ arrivals = 0 /\ departures = 0 /\ current \in 1 .. 0 + 1
  BY <1>1 DEF IInv, Progress
<1>3. current = 1
  BY <1>2
<1>4. Len(types) \in Nat /\ DOMAIN types = 1 .. Len(types) /\ Len(types) > 0
  BY <1>1, LenProperties, EmptySeq
<1>5. Len(out) = 0 /\ Range(out) = {}
  BY <1>2 DEF Range
<1>6. TypeOK'
  BY <1>1, <1>2, <1>3, <1>4, <1>5 DEF TypeOK
<1>7. Progress'
  BY <1>1, <1>2, <1>3, <1>4, <1>5 DEF Progress
<1>8. OnlyListable'
  BY <1>1, <1>5 DEF OnlyListable
<1>9. Passed' = {}
  BY <1>1, <1>2, <1>6, NothingPassedNext
<1>10. OfTypesBefore(current)' = {}
  BY <1>1, <1>3, <1>4 DEF OfTypesBefore
<1>11. MissedBound'
  <2>1. Missed' = {}
    BY <1>9, <1>10 DEF Missed
  <2> QED
    BY <1>1, <1>2, <2>1, FS_EmptySet DEF MissedBound
<1>12. RepeatsBound'
  <2>1. Ahead' = {}
    BY <1>1, <1>5 DEF Ahead
  <2>2. Repeats' = 0
    BY <1>1, <1>5, <2>1, FS_EmptySet DEF Repeats
  <2>3. /\ Cardinality(OfCurrent') \in Nat
        /\ Cardinality(OfTypesBefore(current)') \in Nat
        /\ Cardinality(OfTypesBefore(current + 1)') \in Nat
    <3>1. /\ OfCurrent' \in SUBSET Id /\ OfTypesBefore(current)' \in SUBSET Id
          /\ OfTypesBefore(current + 1)' \in SUBSET Id
      BY <1>6 DEF TypeOK, OfCurrent, OfTypesBefore
    <3> QED
      BY <3>1, FiniteIds
  <2>4. OneEach'
    BY <1>1, <1>2, <1>5, <2>3 DEF OneEach
  <2> QED
    BY <1>1, <1>2, <2>2, <2>4 DEF RepeatsBound
<1> QED
  BY <1>6, <1>7, <1>8, <1>11, <1>12 DEF IInv

(* Each of the three requests starts with types that differ.                *)
LEMMA RequestKeeps ==
    ASSUME IInv,
           \/ \E s \in Spelling : handleLinkList(s)
           \/ handleLinkListAll
           \/ \E n \in AskedLimit : listLinks(n)
    PROVE  IInv'
<1>1. /\ TypeSeq \in Seq(Spelling) /\ IsInjective(TypeSeq)
      /\ AskedLimit \subseteq Nat /\ DefaultLimit \in Nat /\ ListCap \in Nat
  BY ListingAssumption DEF ListingAssumption
<1>2. \A s \in Spelling : <<s>> \in Seq(Spelling) /\ IsInjective(<<s>>)
  BY DEF IsInjective
<1>3. ASSUME NEW n \in Nat, ListAll(n)
      PROVE  IInv'
  <2> DEFINE max == IF n = 0 \/ n > ListCap THEN ListCap ELSE n
  <2>1. max \in Nat /\ Start(TypeSeq, max)
    BY <1>1, <1>3 DEF ListAll
  <2> QED
    BY <1>1, <2>1, StartKeeps
<1>4. ASSUME NEW s \in Spelling, NEW max \in Nat, Start(<<s>>, max)
      PROVE  IInv'
  BY <1>2, <1>4, StartKeeps
<1>5. CASE \E s \in Spelling : handleLinkList(s)
  BY <1>4, <1>5 DEF handleLinkList
<1>6. CASE handleLinkListAll
  BY <1>3, <1>6 DEF handleLinkListAll
<1>7. CASE \E n \in AskedLimit : listLinks(n)
  <2>1. PICK n \in AskedLimit : listLinks(n)
    BY <1>7
  <2> DEFINE max == IF n = 0 THEN DefaultLimit ELSE n
  <2>2. max \in Nat
    BY <1>1
  <2>3. (\E s \in Spelling : Start(<<s>>, max)) \/ ListAll(max)
    BY <2>1 DEF listLinks
  <2> HIDE DEF max
  <2> QED
    BY <1>3, <1>4, <2>2, <2>3
<1> QED
  BY <1>5, <1>6, <1>7

(* After the answer nothing of the request is left.                         *)
LEMMA AnswerKeeps ==
    ASSUME IInv, Answer
    PROVE  IInv'
<1>1. /\ pc' = "idle" /\ ask' = <<>> /\ current' = 1
      /\ limit' = 0 /\ cursor' = 0 /\ scanned' = {} /\ out' = <<>>
      /\ stayed' = {} /\ seen' = {} /\ arrivals' = 0 /\ departures' = 0
      /\ UNCHANGED <<backend, type, listable>>
  BY DEF Answer, links
<1>2. Len(out') = 0 /\ Range(out') = {}
  BY <1>1 DEF Range
<1>3. TypeOK'
  BY <1>1, <1>2 DEF IInv, TypeOK
<1>4. Progress'
  BY <1>1, <1>2 DEF Progress, IsInjective
<1>5. OnlyListable'
  BY <1>2 DEF OnlyListable
<1>6. MissedBound'
  <2>1. Missed' = {}
    BY <1>1 DEF Missed
  <2> QED
    BY <1>1, <2>1, FS_EmptySet DEF MissedBound
<1>7. RepeatsBound'
  <2>1. Ahead' = {}
    BY <1>1 DEF Ahead
  <2>2. Repeats' = 0
    BY <1>2, <2>1, FS_EmptySet DEF Repeats
  <2>3. OfTypesBefore(current + 1)' = {}
    BY <1>1 DEF OfTypesBefore
  <2>4. OneEach'
    BY <1>1, <1>2, <2>3, FS_EmptySet DEF OneEach
  <2> QED
    BY <1>1, <2>2, <2>4 DEF RepeatsBound
<1> QED
  BY <1>3, <1>4, <1>5, <1>6, <1>7 DEF IInv

(* A step that changes no variable keeps the invariant.                     *)
LEMMA StutterKeeps ==
    ASSUME IInv, UNCHANGED vars
    PROVE  IInv'
<1>1. UNCHANGED <<backend, type, listable, pc, ask, current, limit, cursor,
                  scanned, out, stayed, seen, arrivals, departures>>
  BY DEF vars, links, listing, history
<1>2. TypeOK' /\ Progress' /\ OnlyListable'
  BY <1>1 DEF IInv, TypeOK, Progress, OnlyListable, OfTypesBefore
<1>3. /\ OfCurrent' = OfCurrent /\ Current' = Current
      /\ OfTypesBefore(current)' = OfTypesBefore(current)
      /\ OfTypesBefore(current + 1)' = OfTypesBefore(current + 1)
  BY <1>1 DEF OfCurrent, Current, OfTypesBefore
<1>4. Passed' = Passed
  BY <1>1, <1>3 DEF Passed, Scanned
<1>5. Missed' = Missed /\ Ahead' = Ahead
  BY <1>1, <1>3, <1>4 DEF Missed, Ahead
<1>6. MissedBound' /\ RepeatsBound'
  BY <1>1, <1>3, <1>5 DEF IInv, MissedBound, RepeatsBound, OneEach, Repeats
<1> QED
  BY <1>2, <1>6 DEF IInv

----------------------------------------------------------------------------
(* What a page changes, in all three stores.                                *)

(* After a page the caller is on one of the types asked for, or done, and   *)
(* the answer holds links of the types up to there.                         *)
LEMMA CollectTyped ==
    ASSUME TypeOK, Progress, OnlyListable, pc \in {"list", "fetch"},
           UNCHANGED <<backend, links, ask, limit, history>>, scanned' = {},
           out' \in Seq(Id), Range(out') \subseteq Range(out) \cup Current,
           limit > 0 => Len(out') <= limit, NEW next \in Nat,
           StopsAtLimit \/ GoesOn(next) \/ EndsType
    PROVE  /\ TypeOK' /\ Progress' /\ OnlyListable'
           /\ OfTypesBefore(current + 1) \subseteq OfTypesBefore(current + 1)'
           /\ current' = current =>
                /\ OfCurrent' = OfCurrent /\ Current' = Current
                /\ OfTypesBefore(current)' = OfTypesBefore(current)
                /\ OfTypesBefore(current + 1)' = OfTypesBefore(current + 1)
           /\ current' = current + 1 =>
                OfTypesBefore(current)' = OfTypesBefore(current + 1)
<1>1. /\ UNCHANGED <<backend, type, listable, ask, limit, stayed, seen, arrivals,
                     departures>>
      /\ current \in DOMAIN ask /\ pc # "idle"
      /\ ask \in Seq(Spelling) /\ Len(ask) \in Nat /\ DOMAIN ask = 1 .. Len(ask)
  BY LenProperties DEF links, history, TypeOK, Progress
<1>2. /\ cursor' \in Nat /\ current' \in {current, current + 1}
      /\ pc' \in {"list", "done"}
      /\ pc' = "list" => current' \in DOMAIN ask /\ (limit > 0 => Len(out') < limit)
  <2>1. CASE StopsAtLimit
    BY <2>1 DEF StopsAtLimit, TypeOK
  <2>2. CASE GoesOn(next)
    BY <1>1, <2>2 DEF GoesOn
  <2>3. CASE EndsType
    BY <1>1, <2>3 DEF EndsType
  <2> QED
    BY <2>1, <2>2, <2>3
<1>3. TypeOK'
  BY <1>1, <1>2 DEF TypeOK
<1>4. /\ OfTypesBefore(current + 1) \subseteq OfTypesBefore(current + 1)'
      /\ current' = current + 1 =>
                OfTypesBefore(current)' = OfTypesBefore(current + 1)
  <2>1. \A k \in DOMAIN ask : k < current + 1 => k < current' + 1
    BY <1>1, <1>2
  <2> QED
    BY <1>1, <2>1 DEF OfTypesBefore
<1>5. Range(out') \subseteq OfTypesBefore(current + 1)
  BY <1>1, TypesApart DEF Apart, Current, Progress
<1>6. Progress'
  <2>1. current' \in 1 .. Len(ask) + 1
    BY <1>1, <1>2
  <2>2. Range(out') \subseteq OfTypesBefore(current + 1)'
    BY <1>4, <1>5
  <2> QED
    BY <1>1, <1>2, <2>1, <2>2 DEF Progress
<1>7. OnlyListable'
  BY <1>1 DEF OnlyListable, Progress, Current
<1>8. current' = current =>
                /\ OfCurrent' = OfCurrent /\ Current' = Current
                /\ OfTypesBefore(current)' = OfTypesBefore(current)
                /\ OfTypesBefore(current + 1)' = OfTypesBefore(current + 1)
  BY <1>1 DEF OfCurrent, Current, OfTypesBefore
<1> QED
  BY <1>3, <1>4, <1>6, <1>7, <1>8

----------------------------------------------------------------------------
(* A page of a store with an offset for a cursor.                           *)

(* It is such a page.                                                       *)
LEMMA PageTyped ==
    ASSUME IInv, Page, NEW kept \in Seq(Current), Takes(kept)
    PROVE  /\ TypeOK' /\ Progress' /\ OnlyListable'
           /\ OfTypesBefore(current + 1) \subseteq OfTypesBefore(current + 1)'
           /\ current' = current =>
                /\ OfCurrent' = OfCurrent /\ Current' = Current
                /\ OfTypesBefore(current)' = OfTypesBefore(current)
                /\ OfTypesBefore(current + 1)' = OfTypesBefore(current + 1)
           /\ current' = current + 1 =>
                OfTypesBefore(current)' = OfTypesBefore(current + 1)
<1>1. /\ TypeOK /\ Progress /\ OnlyListable /\ pc \in {"list", "fetch"}
      /\ UNCHANGED <<backend, links, ask, limit, history>> /\ scanned' = {}
  BY DEF IInv, Page, Progress
<1>2. /\ Range(kept) \subseteq Current
      /\ cursor + Len(kept) \in Nat
  BY <1>1, RangeCardinality, LenProperties DEF TypeOK
<1>3. /\ out' \in Seq(Id) /\ Range(out') \subseteq Range(out) \cup Current
      /\ limit > 0 => Len(out') <= limit
      /\ StopsAtLimit \/ GoesOn(cursor + Len(kept)) \/ EndsType
  BY <1>2 DEF Takes
<1> QED
  BY <1>1, <1>2, <1>3, CollectTyped

(* A page leaves no gap, and the last one of a type leaves nothing.         *)
LEMMA PageMisses ==
    ASSUME IInv, Page, NEW kept \in Seq(Current), Takes(kept)
    PROVE  MissedBound'
<1>1. /\ UNCHANGED <<backend, type, listable, ask, limit, stayed, seen, arrivals,
                     departures>>
      /\ pc = "list" /\ backend # "redis" /\ scanned = {} /\ scanned' = {}
      /\ cursor \in Nat /\ Len(kept) \in Nat
      /\ stayed \subseteq listable
      /\ Range(out') = Range(out) \cup Range(kept)
  BY LenProperties DEF IInv, Page, Progress, TypeOK, links, history, Takes
<1>2. /\ \A i \in Current : Rank(i, Current) \in Nat
                            /\ Rank(i, Current) <= Cardinality(Current)
      /\ Cardinality(Current) \in Nat
  <2>1. Current \in SUBSET Nat /\ IsFiniteSet(Current) /\ Cardinality(Current) \in Nat
    BY SetsOfIds DEF IInv
  <2>2. \A i \in Current : Rank(i, Current) \in 1 .. Cardinality(Current)
    BY <2>1, RankGrows
  <2> QED
    BY <2>1, <2>2
<1>3. \A i \in stayed : i \in Missed' => i \in Missed
  <2> SUFFICES ASSUME NEW i \in stayed, i \in Missed', i \notin Range(out)
               PROVE  i \in OfTypesBefore(current) \cup Passed
    BY <1>1 DEF Missed
  <2>1. i \notin Range(kept) /\ i \in OfTypesBefore(current)' \cup Passed'
    BY <1>1 DEF Missed
  <2>2. CASE StopsAtLimit
    <3>1. Passed' = {} /\ current' = current
      BY <2>2 DEF StopsAtLimit, Passed
    <3> QED
      BY <2>1, <3>1, PageTyped
  <2>3. CASE GoesOn(cursor + Len(kept)) /\ Range(kept) = Unlisted(cursor + Len(kept))
    <3>1. current' = current /\ cursor' = cursor + Len(kept) /\ pc' = "list"
      BY <2>3 DEF GoesOn
    <3>2. i \in OfTypesBefore(current) \/
            (i \in Current /\ Rank(i, Current) <= cursor + Len(kept))
      BY <1>1, <2>1, <3>1, PageTyped DEF Passed
    <3>3. i \in Current => ~(cursor < Rank(i, Current)
                             /\ Rank(i, Current) <= cursor + Len(kept))
      BY <2>1, <2>3 DEF Unlisted, Between
    <3>4. i \in Current /\ Rank(i, Current) <= cursor => i \in Passed
      BY <1>1 DEF Passed
    <3> QED
      BY <1>1, <1>2, <3>2, <3>3, <3>4
  <2>4. CASE EndsType /\ Range(kept) = Unlisted(Cardinality(Current))
    <3>1. cursor' = 0 /\ current' = current + 1 /\ pc' # "fetch"
      BY <2>4 DEF EndsType
    <3>2. Passed' = {}
      BY <3>1, PageTyped, NothingPassedNext
    <3>3. i \in OfTypesBefore(current) \/ i \in Current
      BY <1>1, <2>1, <3>1, <3>2, PageTyped, TypesApart DEF IInv, Apart, Current
    <3>4. i \in Current => ~(cursor < Rank(i, Current))
      BY <1>2, <2>1, <2>4 DEF Unlisted, Between
    <3>5. i \in Current => i \in Passed
      BY <1>1, <1>2, <3>4 DEF Passed
    <3> QED
      BY <3>3, <3>5
  <2> QED
    BY <2>2, <2>3, <2>4 DEF Takes
<1>4. Missed' \in SUBSET Missed
  BY <1>1, <1>3 DEF Missed
<1>5. IsFiniteSet(Missed) /\ Cardinality(Missed) \in Nat
  <2>1. Missed \in SUBSET Id
    BY SetsOfIds DEF Missed, IInv
  <2> QED
    BY <2>1, FiniteIds
<1>6. Cardinality(Missed') <= Cardinality(Missed) /\ Cardinality(Missed') \in Nat
  BY <1>4, <1>5, FS_Subset, FS_CardinalityType
<1> QED
  BY <1>1, <1>5, <1>6 DEF IInv, MissedBound, TypeOK


(* No page takes more links than the type has, counted from the cursor.     *)
LEMMA PageOneEach ==
    ASSUME IInv, Page, NEW kept \in Seq(Current), Takes(kept)
    PROVE  OneEach'
<1>1. /\ pc = "list" /\ OneEach /\ TypeOK /\ Progress
      /\ cursor \in Nat /\ Len(kept) \in Nat /\ Len(out) \in Nat
      /\ Len(out') = Len(out) + Len(kept)
      /\ Len(kept) > 0 => cursor + Len(kept) <= Cardinality(Current)
  BY LenProperties DEF IInv, RepeatsBound, Page, TypeOK, Takes
<1>2. /\ Cardinality(Current) \in Nat /\ Cardinality(OfCurrent) \in Nat
      /\ Cardinality(Current) <= Cardinality(OfCurrent)
  <2>1. Current \in SUBSET OfCurrent /\ OfCurrent \in SUBSET Id
    BY <1>1, SetsOfIds
  <2>2. IsFiniteSet(OfCurrent) /\ Cardinality(OfCurrent) \in Nat
    BY <2>1, FiniteIds
  <2> QED
    BY <2>1, <2>2, FS_Subset, FS_CardinalityType
<1>3. /\ TypeOK'
      /\ OfTypesBefore(current)' \in SUBSET Id
      /\ OfTypesBefore(current + 1)' \in SUBSET Id
      /\ OfTypesBefore(current) \in SUBSET Id
      /\ OfTypesBefore(current + 1) \in SUBSET OfTypesBefore(current + 1)'
      /\ OfCurrent' \in SUBSET Id
  BY PageTyped DEF TypeOK, OfTypesBefore, OfCurrent, IInv
<1>4. /\ Cardinality(OfTypesBefore(current)) \in Nat
      /\ Cardinality(OfTypesBefore(current)') \in Nat
      /\ IsFiniteSet(OfTypesBefore(current + 1)')
      /\ Cardinality(OfTypesBefore(current + 1)') \in Nat
      /\ Cardinality(OfCurrent') \in Nat
  BY <1>3, FiniteIds
<1>5. /\ Cardinality(OfTypesBefore(current + 1)) \in Nat
      /\ Cardinality(OfTypesBefore(current + 1))
           <= Cardinality(OfTypesBefore(current + 1)')
  BY <1>3, <1>4, FS_Subset, FS_CardinalityType
<1>6. Cardinality(OfTypesBefore(current + 1)) =
        Cardinality(OfTypesBefore(current)) + Cardinality(OfCurrent)
  BY <1>1, TypesApart DEF Apart
<1>7. /\ Len(out) <= Cardinality(OfTypesBefore(current + 1))
      /\ cursor <= Cardinality(OfCurrent)
      /\ Len(out) <= cursor + Cardinality(OfTypesBefore(current))
  BY <1>1 DEF OneEach
<1>8. Len(out') <= Cardinality(OfTypesBefore(current + 1))
  <2>1. CASE Len(kept) = 0
    BY <1>1, <1>7, <2>1
  <2>2. CASE Len(kept) > 0
    BY <1>1, <1>2, <1>4, <1>5, <1>6, <1>7, <2>2
  <2> QED
    BY <1>1, <2>1, <2>2
<1>9. Len(out') <= Cardinality(OfTypesBefore(current + 1)') /\ Len(out') \in Nat
  BY <1>1, <1>4, <1>5, <1>8
<1>10. pc' = "list" => /\ cursor' <= Cardinality(OfCurrent')
                       /\ Len(out') <= cursor' + Cardinality(OfTypesBefore(current)')
  <2>1. CASE StopsAtLimit
    BY <2>1 DEF StopsAtLimit
  <2>2. CASE GoesOn(cursor + Len(kept)) /\ Len(kept) > 0
    <3>1. current' = current /\ cursor' = cursor + Len(kept)
      BY <2>2 DEF GoesOn
    <3>2. /\ OfCurrent' = OfCurrent
          /\ OfTypesBefore(current)' = OfTypesBefore(current)
      BY <3>1, PageTyped
    <3>3. cursor + Len(kept) <= Cardinality(OfCurrent)
      BY <1>1, <1>2, <2>2
    <3>4. Len(out') <= cursor + Len(kept) + Cardinality(OfTypesBefore(current))
      BY <1>1, <1>4, <1>7
    <3> QED
      BY <3>1, <3>2, <3>3, <3>4
  <2>3. CASE EndsType
    <3>1. cursor' = 0 /\ current' = current + 1
      BY <2>3 DEF EndsType
    <3>2. OfTypesBefore(current)' = OfTypesBefore(current + 1)
      BY <3>1, PageTyped
    <3>3. Cardinality(OfTypesBefore(current)') =
            Cardinality(OfTypesBefore(current + 1))
      BY <3>2
    <3> QED
      BY <1>4, <1>5, <1>8, <1>9, <3>1, <3>3
  <2> QED
    BY <2>1, <2>2, <2>3 DEF Takes
<1> QED
  BY <1>9, <1>10 DEF OneEach

(* A link taken once more was one of those ahead.                           *)
LEMMA PageRepeats ==
    ASSUME IInv, Page, NEW kept \in Seq(Current), Takes(kept)
    PROVE  RepeatsBound'
<1> DEFINE R == Range(out)
           K == Range(kept)
<1>1. /\ pc = "list" /\ backend # "redis" /\ TypeOK /\ Progress
      /\ backend' = backend /\ arrivals' = arrivals /\ Repeats <= arrivals
      /\ cursor \in Nat /\ Len(out') = Len(out) + Len(kept)
      /\ Range(out') = R \cup K /\ IsInjective(kept)
      /\ K \subseteq Unlisted(Cardinality(Current))
      /\ out \in Seq(Id)
  BY DEF IInv, RepeatsBound, Page, TypeOK, Takes, history
<1>2. /\ Len(out) \in Nat /\ IsFiniteSet(R) /\ Cardinality(R) \in Nat
      /\ Len(kept) \in Nat /\ IsFiniteSet(K) /\ Cardinality(K) = Len(kept)
      /\ K \subseteq Current
  <2>1. Len(out) \in Nat /\ IsFiniteSet(R) /\ Cardinality(R) \in Nat
    BY <1>1, RangeCardinality, LenProperties
  <2>2. /\ IsFiniteSet(K) /\ Cardinality(K) = Len(kept)
        /\ K \subseteq Current /\ Len(kept) \in Nat
    BY <1>1, RangeCardinality, LenProperties
  <2> QED
    BY <2>1, <2>2
<1>3. \A i \in Current : Rank(i, Current) \in Nat
  <2>1. Current \in SUBSET Nat /\ IsFiniteSet(Current)
    BY <1>1, SetsOfIds
  <2> QED
    BY <2>1, RankGrows
<1>4. R \cap K \subseteq Ahead
  <2>1. \A i \in K : i \in Current /\ cursor < Rank(i, Current)
    BY <1>1 DEF Unlisted, Between
  <2>2. \A i \in K : i \notin Passed
    BY <1>1, <1>3, <2>1 DEF Passed
  <2> QED
    BY <1>1, <2>1, <2>2 DEF Ahead
<1>5. Ahead' \subseteq Ahead /\ Ahead' \cap K = {}
  <2>1. CASE StopsAtLimit
    BY <2>1 DEF StopsAtLimit, Ahead
  <2>2. CASE GoesOn(cursor + Len(kept)) /\ K = Unlisted(cursor + Len(kept))
    <3>1. /\ current' = current /\ cursor' = cursor + Len(kept) /\ pc' = "list"
          /\ Current' = Current
      BY <2>2, PageTyped DEF GoesOn
    <3>2. \A i \in Ahead' : /\ i \in Current /\ i \in R \cup K
                            /\ ~(Rank(i, Current) <= cursor + Len(kept))
      BY <1>1, <3>1 DEF Ahead, Passed
    <3>3. \A i \in K : Rank(i, Current) <= cursor + Len(kept)
      BY <2>2 DEF Unlisted, Between
    <3>4. \A i \in Ahead' : i \in R /\ i \notin K
      BY <3>2, <3>3
    <3>5. \A i \in Ahead' : ~(Rank(i, Current) <= cursor)
      BY <1>1, <1>2, <1>3, <3>2
    <3>6. \A i \in Ahead' : i \notin Passed
      BY <1>1, <3>5 DEF Passed
    <3> QED
      BY <1>1, <3>2, <3>4, <3>6 DEF Ahead
  <2>3. CASE EndsType
    <3>1. current' = current + 1
      BY <2>3 DEF EndsType
    <3>2. /\ OfTypesBefore(current)' = OfTypesBefore(current + 1)
          /\ OfTypesBefore(current)' \cap OfCurrent' = {}
      BY <3>1, PageTyped, TypesApartNext DEF Apart
    <3>3. R \cup K \subseteq OfTypesBefore(current + 1)
      BY <1>1, <1>2, TypesApart DEF Apart, Current, Progress
    <3>4. Current' \cap (R \cup K) = {}
      BY <3>2, <3>3 DEF Current
    <3>5. Ahead' \subseteq Current' \cap (R \cup K)
      BY <1>1 DEF Ahead
    <3> QED
      BY <3>4, <3>5
  <2> QED
    BY <2>1, <2>2, <2>3 DEF Takes
<1>6. /\ IsFiniteSet(Ahead) /\ Cardinality(Ahead) \in Nat
      /\ IsFiniteSet(Ahead') /\ Cardinality(Ahead') \in Nat
      /\ IsFiniteSet(R \cap K) /\ Cardinality(R \cap K) \in Nat
  <2>1. Ahead \in SUBSET Id /\ Ahead' \in SUBSET Id /\ R \cap K \in SUBSET Id
    BY <1>1, <1>4, <1>5, SetsOfIds DEF Ahead
  <2> QED
    BY <2>1, FiniteIds
<1> HIDE DEF R, K
<1>7. Cardinality(R \cap K) + Cardinality(Ahead') <= Cardinality(Ahead)
  <2> DEFINE A == R \cap K
  <2>1. A \cap Ahead' = {} /\ A \cup Ahead' \in SUBSET Ahead
    BY <1>4, <1>5
  <2>2. Cardinality(A \cap Ahead') = 0
    BY <2>1, FS_EmptySet
  <2>3. IsFiniteSet(A) /\ Cardinality(A) \in Nat
    BY <1>6
  <2> HIDE DEF A
  <2>4. Cardinality(A \cup Ahead') =
          Cardinality(A) + Cardinality(Ahead') - Cardinality(A \cap Ahead')
    BY <1>6, <2>3, FS_Union
  <2>5. Cardinality(A \cup Ahead') <= Cardinality(Ahead)
    BY <1>6, <2>1, FS_Subset
  <2>6. Cardinality(A) + Cardinality(Ahead') <= Cardinality(Ahead)
    BY <1>6, <2>2, <2>3, <2>4, <2>5
  <2> QED
    BY <2>6 DEF A
<1>8. Cardinality(R \cup K) = Cardinality(R) + Len(kept) - Cardinality(R \cap K)
  BY <1>2, FS_Union
<1>9. /\ Repeats' = Len(out) + Len(kept) - Cardinality(R \cup K) + Cardinality(Ahead')
      /\ Repeats = Len(out) - Cardinality(R) + Cardinality(Ahead)
  <2>1. Range(out') = R \cup K /\ Range(out) = R
    BY <1>1 DEF R
  <2>2. /\ Repeats' = Len(out') - Cardinality(Range(out')) + Cardinality(Ahead')
        /\ Repeats = Len(out) - Cardinality(Range(out)) + Cardinality(Ahead)
    BY DEF Repeats
  <2>3. Len(out') = Len(out) + Len(kept)
    BY <1>1
  <2>4. /\ Cardinality(Range(out')) = Cardinality(R \cup K)
        /\ Cardinality(Range(out)) = Cardinality(R)
    BY <2>1
  <2>5. Cardinality(R \cup K) \in Nat
    BY <1>2, FS_Union, FS_CardinalityType
  <2> QED
    BY <1>2, <1>6, <2>2, <2>3, <2>4, <2>5
<1>10. Repeats' <= Repeats /\ Repeats' \in Int /\ Repeats \in Int
  <2> DEFINE a == Len(out)
             b == Len(kept)
             r == Cardinality(R)
             m == Cardinality(R \cap K)
             f == Cardinality(Ahead')
             g == Cardinality(Ahead)
  <2>1. /\ a \in Nat /\ b \in Nat /\ r \in Nat /\ m \in Nat
        /\ f \in Nat /\ g \in Nat /\ m + f <= g
    BY <1>2, <1>6, <1>7
  <2>2. Repeats' = a + b - (r + b - m) + f /\ Repeats = a - r + g
    BY <1>8, <1>9
  <2> HIDE DEF a, b, r, m, f, g
  <2> QED
    BY <2>1, <2>2
<1>11. arrivals \in Nat /\ arrivals' = arrivals
  BY <1>1 DEF TypeOK
<1> QED
  BY <1>1, <1>10, <1>11, PageOneEach DEF RepeatsBound

(* A page keeps the invariant.                                              *)
LEMMA PageKeeps ==
    ASSUME IInv, Page
    PROVE  IInv'
<1>1. PICK kept \in Seq(Current) : Takes(kept)
  BY PageTakes DEF IInv
<1> QED
  BY <1>1, PageTyped, PageMisses, PageRepeats DEF IInv

----------------------------------------------------------------------------
(* The two round trips of Redis.                                            *)

(* The last key of the key space exists: it has the highest rank.           *)
LEMMA MaxOfIds ==
    ASSUME Id # {}
    PROVE  Max(Id) \in Id /\ \A i \in Id : Max(Id) >= i
<1>1. /\ Id \in SUBSET Nat /\ IsFiniteSet(Id) /\ Cardinality(Id) \in Nat
      /\ Cardinality(Id) # 0
  BY FiniteIds, FS_EmptySet
<1> DEFINE N == Cardinality(Id)
           top == Sorted(Id)[N]
<1>2. /\ \A n \in 1 .. N : Sorted(Id)[n] \in Id /\ Rank(Sorted(Id)[n], Id) = n
      /\ \A i \in Id : Rank(i, Id) \in 1 .. N
  BY <1>1, SortedRank
<1>3. N \in 1 .. N
  BY <1>1
<1>4. top \in Id /\ Rank(top, Id) = N
  BY <1>2, <1>3
<1> HIDE DEF N, top
<1>5. \A i \in Id : top >= i
  <2> SUFFICES ASSUME NEW i \in Id, top < i
               PROVE  FALSE
    <3>1. \A i \in Id : i \in Nat /\ top \in Nat
      BY <1>1, <1>4
    <3> QED
      BY <3>1
  <2>1. Rank(top, Id) < Rank(i, Id)
    BY <1>1, <1>4, RankGrows
  <2> QED
    BY <1>2, <1>4, <2>1, <1>1 DEF N
<1>6. \E x \in Id : \A y \in Id : x >= y
  BY <1>4, <1>5
<1> QED
  BY <1>6 DEF Max

(* A SCAN takes note of every key it passes.                                *)
LEMMA SCANKeeps ==
    ASSUME IInv, SCAN
    PROVE  IInv'
<1>1. /\ pc = "list" /\ backend = "redis" /\ pc' = "fetch"
      /\ UNCHANGED <<backend, type, listable, ask, current, limit, out, stayed,
                     seen, arrivals, departures>>
      /\ TypeOK /\ Progress /\ OnlyListable /\ MissedBound /\ scanned = {}
      /\ cursor \in Nat /\ current \in DOMAIN ask
      /\ stayed \subseteq listable /\ listable \subseteq DOMAIN type
      /\ DOMAIN type \subseteq Id
  BY DEF SCAN, IInv, Progress, TypeOK, links, history
<1>2. PICK to \in {i \in Id : i > cursor}, again \in SUBSET (1 .. cursor) :
        /\ scanned' = {i \in DOMAIN type : i \in again \/ i \in cursor + 1 .. to}
        /\ cursor' = IF to = Max(Id) THEN 0 ELSE to
  BY DEF SCAN
<1>3. /\ to \in Id /\ to > cursor /\ \A i \in Id : i \in Nat
      /\ scanned' \subseteq DOMAIN type /\ cursor' \in Nat
  BY <1>2, FiniteIds
<1>4. TypeOK'
  BY <1>1, <1>3 DEF TypeOK
<1>5. OfTypesBefore(current + 1)' = OfTypesBefore(current + 1)
  BY <1>1 DEF OfTypesBefore
<1>6. Progress'
  BY <1>1, <1>5 DEF Progress
<1>7. OnlyListable'
  BY <1>1 DEF OnlyListable
<1>8. /\ OfTypesBefore(current)' = OfTypesBefore(current)
      /\ OfCurrent' = OfCurrent /\ OfCurrent \subseteq Id
  BY <1>1, SetsOfIds DEF OfTypesBefore, OfCurrent
<1>9. \A i \in OfCurrent : i \in Passed' => i \in Passed \/ i \in scanned'
  <2> SUFFICES ASSUME NEW i \in OfCurrent, i \in Passed', i \notin Passed
               PROVE  i \in scanned'
    OBVIOUS
  <2>1. i \in Nat /\ i \in Id /\ i \in DOMAIN type /\ i > cursor
    <3>1. i \in Id /\ i \in DOMAIN type
      BY <1>8 DEF OfCurrent
    <3>2. ~(i <= cursor)
      BY <1>1 DEF Passed, Scanned
    <3> QED
      BY <1>1, <1>3, <3>1, <3>2
  <2>2. i <= to
    <3>1. CASE to = Max(Id)
      BY <1>3, <2>1, <3>1, MaxOfIds
    <3>2. CASE to # Max(Id)
      <4>1. cursor' = to /\ to # 0
        BY <1>1, <1>2, <1>3, <3>2
      <4> QED
        BY <1>1, <1>8, <4>1 DEF Passed, Scanned
    <3> QED
      BY <3>1, <3>2
  <2>3. i \in cursor + 1 .. to
    BY <1>1, <1>3, <2>1, <2>2
  <2> QED
    BY <1>2, <2>1, <2>3
<1>10. Missed = {}
  <2>1. Missed \in SUBSET Id
    BY <1>1, SetsOfIds DEF Missed
  <2>2. IsFiniteSet(Missed) /\ Cardinality(Missed) \in Nat
    BY <2>1, FiniteIds
  <2>3. Cardinality(Missed) <= 0
    BY <1>1 DEF MissedBound
  <2> QED
    BY <2>2, <2>3, FS_EmptySet
<1>11. Passed' \subseteq OfCurrent
  BY <1>1, <1>8 DEF Passed, Scanned
<1>12. Missed' \subseteq Missed
  BY <1>1, <1>8, <1>9, <1>11 DEF Missed
<1>13. Missed' = {}
  BY <1>10, <1>12
<1>14. MissedBound'
  BY <1>1, <1>13, FS_EmptySet DEF MissedBound
<1>15. RepeatsBound'
  BY <1>1 DEF RepeatsBound
<1> QED
  BY <1>4, <1>6, <1>7, <1>14, <1>15 DEF IInv

(* The payloads of all of them that are of the type are taken, unless the   *)
(* listing ends with this page.                                             *)
LEMMA GetPayloadsKeeps ==
    ASSUME IInv, GetPayloads
    PROVE  IInv'
<1> DEFINE hits == scanned \cap Current
<1>1. /\ pc = "fetch" /\ pc \in {"list", "fetch"} /\ pc # "idle"
      /\ backend = "redis" /\ scanned' = {}
      /\ UNCHANGED <<backend, links, ask, limit, history>>
      /\ UNCHANGED <<type, listable, ask, limit, stayed, departures>>
      /\ TypeOK /\ Progress /\ OnlyListable /\ MissedBound
      /\ cursor \in Nat /\ current \in DOMAIN ask
      /\ limit > 0 => Len(out) < limit
      /\ stayed \subseteq listable
  BY DEF GetPayloads, IInv, Progress, TypeOK, links, history
<1>2. hits = {i \in scanned \cap listable : type[i] = ask[current]}
  BY <1>1 DEF Current, OfCurrent, TypeOK
<1>3. PICK kept \in Keep(Sorted(hits)) : Collect(kept, cursor)
  BY <1>2 DEF GetPayloads
<1>4. hits \in SUBSET Id /\ hits \subseteq Current
  BY <1>1, SetsOfIds
<1> HIDE DEF hits
<1>5. hits \in SUBSET Nat /\ IsFiniteSet(hits)
  BY <1>4, FiniteIds
<1>6. /\ Sorted(hits) \in Seq(hits) /\ IsInjective(Sorted(hits))
      /\ Range(Sorted(hits)) = hits
  BY <1>5, SortedWhole
<1>7. /\ kept \in Seq(hits) /\ Range(kept) \subseteq hits
      /\ limit > 0 => Len(out) + Len(kept) <= limit
      /\ Range(kept) = hits \/ (limit > 0 /\ Len(out) + Len(kept) = limit)
  BY <1>1, <1>3, <1>4, <1>6, KeptOfPage
<1>8. kept \in Seq(Id)
  BY <1>4, <1>7, SeqMonotonic
<1>9. /\ out' \in Seq(Id) /\ Len(out') = Len(out) + Len(kept)
      /\ Range(out') = Range(out) \cup Range(kept)
      /\ Len(out) \in Nat /\ Len(kept) \in Nat
      /\ StopsAtLimit \/ GoesOn(cursor) \/ (cursor = 0 /\ EndsType)
  BY <1>1, <1>3, <1>8, CollectKinds
<1>10. limit \in Nat /\ (limit > 0 => Len(out') <= limit)
  BY <1>1, <1>7, <1>9 DEF TypeOK
<1>11. Range(out') \subseteq Range(out) \cup Current
  BY <1>4, <1>7, <1>9
<1>12. /\ TypeOK' /\ Progress' /\ OnlyListable'
       /\ current' = current =>
                /\ OfCurrent' = OfCurrent /\ Current' = Current
                /\ OfTypesBefore(current)' = OfTypesBefore(current)
       /\ current' = current + 1 =>
                OfTypesBefore(current)' = OfTypesBefore(current + 1)
  BY <1>1, <1>9, <1>10, <1>11, CollectTyped
<1>13. Missed = {}
  <2>1. Missed \in SUBSET Id
    BY <1>1, SetsOfIds DEF Missed
  <2>2. IsFiniteSet(Missed) /\ Cardinality(Missed) \in Nat
    BY <2>1, FiniteIds
  <2>3. Cardinality(Missed) <= 0
    BY <1>1 DEF MissedBound
  <2> QED
    BY <2>2, <2>3, FS_EmptySet
<1>14. \A i \in stayed : i \in OfTypesBefore(current) => i \in Range(out')
  BY <1>9, <1>13 DEF Missed
<1>15. ~StopsAtLimit => \A i \in stayed : i \in Passed => i \in Range(out')
  <2> SUFFICES ASSUME ~StopsAtLimit, NEW i \in stayed, i \in Passed,
                      i \notin Range(out)
               PROVE  i \in Range(out')
    BY <1>9
  <2>1. i \in scanned
    BY <1>13 DEF Missed
  <2>2. i \in OfCurrent
    BY <1>1 DEF Passed, Scanned
  <2>3. i \in hits
    BY <1>1, <2>1, <2>2 DEF hits, Current
  <2>4. limit > 0 => Len(out') < limit
    BY <1>9 DEF GoesOn, EndsType
  <2>5. Range(kept) = hits
    BY <1>7, <1>9, <1>10, <2>4
  <2> QED
    BY <1>9, <2>3, <2>5
<1>16. Missed' = {}
  <2> SUFFICES ASSUME NEW i \in stayed, i \in (OfTypesBefore(current) \cup Passed)'
               PROVE  i \in Range(out')
    BY <1>1 DEF Missed
  <2>1. CASE StopsAtLimit
    <3>1. Passed' = {} /\ current' = current
      BY <2>1 DEF StopsAtLimit, Passed
    <3> QED
      BY <1>12, <1>14, <3>1
  <2>2. CASE ~StopsAtLimit /\ GoesOn(cursor)
    <3>1. cursor' = cursor /\ current' = current /\ cursor # 0 /\ pc' = "list"
      BY <2>2 DEF GoesOn
    <3>2. Passed' = Passed
      BY <1>1, <1>12, <3>1 DEF Passed, Scanned
    <3> QED
      BY <1>12, <1>14, <1>15, <2>2, <3>1, <3>2
  <2>3. CASE ~StopsAtLimit /\ cursor = 0 /\ EndsType
    <3>1. cursor' = 0 /\ current' = current + 1 /\ pc' # "fetch"
      BY <2>3 DEF EndsType
    <3>2. Passed' = {}
      BY <1>12, <3>1, NothingPassedNext
    <3>3. Passed = OfCurrent
      BY <1>1, <2>3 DEF Passed, Scanned
    <3>4. i \in OfTypesBefore(current) \cup OfCurrent
      BY <1>1, <1>12, <3>1, <3>2, TypesApart DEF Apart
    <3> QED
      BY <1>14, <1>15, <2>3, <3>3, <3>4
  <2> QED
    BY <1>9, <2>1, <2>2, <2>3
<1>17. MissedBound'
  BY <1>1, <1>16, FS_EmptySet DEF MissedBound
<1>18. RepeatsBound'
  BY <1>1 DEF RepeatsBound
<1> QED
  BY <1>12, <1>17, <1>18 DEF IInv

----------------------------------------------------------------------------
(* The invariant, and what follows from it.                                 *)

(* It holds at the start ...                                                *)
LEMMA InitIInv == Init => IInv
<1> SUFFICES ASSUME Init
             PROVE  IInv
  OBVIOUS
<1>1. /\ backend \in Backend /\ type = [i \in {} |-> ""] /\ listable = {}
      /\ pc = "idle" /\ ask = <<>> /\ current = 1
      /\ limit = 0 /\ cursor = 0 /\ scanned = {} /\ out = <<>>
      /\ stayed = {} /\ seen = {} /\ arrivals = 0 /\ departures = 0
  BY DEF Init
<1>2. DOMAIN type = {} /\ type \in [DOMAIN type -> Spelling]
  BY <1>1
<1>3. Len(out) = 0 /\ Range(out) = {}
  BY <1>1 DEF Range
<1>4. TypeOK
  BY <1>1, <1>2, <1>3 DEF TypeOK
<1>5. Progress /\ OnlyListable
  BY <1>1, <1>3 DEF Progress, OnlyListable, IsInjective
<1>6. MissedBound
  <2>1. Missed = {}
    BY <1>1 DEF Missed
  <2> QED
    BY <1>1, <2>1, FS_EmptySet DEF MissedBound
<1>7. RepeatsBound
  <2>1. Ahead = {} /\ OfTypesBefore(current + 1) = {}
    BY <1>1, <1>2 DEF Ahead, OfTypesBefore
  <2>2. Cardinality(Ahead) = 0 /\ Cardinality(OfTypesBefore(current + 1)) = 0
    BY <2>1, FS_EmptySet
  <2>3. OneEach
    BY <1>1, <1>3, <2>2 DEF OneEach
  <2>4. Repeats = 0
    BY <1>3, <2>2, FS_EmptySet DEF Repeats
  <2> QED
    BY <1>1, <2>3, <2>4 DEF RepeatsBound
<1> QED
  BY <1>4, <1>5, <1>6, <1>7 DEF IInv

(* ... and every step keeps it: one case per action.                        *)
LEMMA StepIInv == IInv /\ [Next]_vars => IInv'
<1> SUFFICES ASSUME IInv, [Next]_vars
             PROVE  IInv'
  OBVIOUS
<1>1. ASSUME NEW i \in Id, NEW s \in Spelling, Create(i, s)
      PROVE  IInv'
  <2>1. Arrives(i)
    BY <1>1, Arrivals DEF IInv
  <2> QED
    BY <2>1, ArrivalTyped, ArrivalMisses, ArrivalRepeats DEF IInv
<1>2. ASSUME NEW i \in Id, Return(i)
      PROVE  IInv'
  <2>1. Arrives(i)
    <3>1. type[i] \in Spelling
      BY <1>2 DEF IInv, TypeOK, Return
    <3> QED
      BY <1>2, <3>1, Arrivals DEF IInv
  <2> QED
    BY <2>1, ArrivalTyped, ArrivalMisses, ArrivalRepeats DEF IInv
<1>3. ASSUME NEW i \in Id, Disappear(i)
      PROVE  IInv'
  <2>1. Shrinks(i)
    BY <1>3, DepartureShrinks DEF IInv
  <2> QED
    BY <2>1, DepartureTyped, DepartureMisses, DepartureRepeats DEF IInv
<1>4. CASE \/ \E s \in Spelling : handleLinkList(s)
           \/ handleLinkListAll
           \/ \E n \in AskedLimit : listLinks(n)
  BY <1>4, RequestKeeps
<1>5. CASE Page
  BY <1>5, PageKeeps
<1>6. CASE SCAN
  BY <1>6, SCANKeeps
<1>7. CASE GetPayloads
  BY <1>7, GetPayloadsKeeps
<1>8. CASE Answer
  BY <1>8, AnswerKeeps
<1>9. CASE UNCHANGED vars
  BY <1>9, StutterKeeps
<1> QED
  BY <1>1, <1>2, <1>3, <1>4, <1>5, <1>6, <1>7, <1>8, <1>9 DEF Next

(* The pages and what is missed, repeated and ahead keep to their bounds in *)
(* every reachable state, whatever comes and goes between two pages.        *)
THEOREM Inductive == Spec => []IInv
BY InitIInv, StepIInv, PTL DEF Spec

(* Type correctness, with the limit of ListCap (link.go) and list_links     *)
(* (mcpserver/server.go): no listing holds more links than it.              *)
THEOREM TypeCorrect == Spec => []TypeOK
<1>1. IInv => TypeOK
  BY DEF IInv
<1> QED
  BY <1>1, Inductive, PTL

(* A link in an answer of listLinksByType or List was in the store, not     *)
(* deleted and not expired, at some moment of the request.                  *)
THEOREM AnswersWereThere == Spec => []OnlyListable
<1>1. IInv => OnlyListable
  BY DEF IInv
<1> QED
  BY <1>1, Inductive, PTL

(* A completed listing has all links of its types that were there all along *)
(* but as many as were deleted or expired meanwhile, and in Redis all: the  *)
(* offsets of MemoryStore.List and SqliteStore.List skip one link for each. *)
THEOREM SkipsAtMostDepartures == Spec => []NoneSkipped
<1>1. IInv => NoneSkipped
  <2> SUFFICES ASSUME IInv
               PROVE  NoneSkipped
    OBVIOUS
  <2> DEFINE skipped == {i \in stayed : Completed(type[i]) /\ i \notin Range(out)}
  <2>1. stayed \subseteq DOMAIN type /\ departures \in Nat
    BY DEF IInv, TypeOK
  <2>2. skipped \in SUBSET Missed
    BY <2>1 DEF Completed, Missed, OfTypesBefore
  <2>3. IsFiniteSet(Missed) /\ Cardinality(Missed) \in Nat
    <3>1. Missed \in SUBSET Id
      BY SetsOfIds DEF Missed, IInv
    <3> QED
      BY <3>1, FiniteIds
  <2> HIDE DEF skipped
  <2>4. /\ Cardinality(skipped) <= Cardinality(Missed)
        /\ Cardinality(skipped) \in Nat
    BY <2>2, <2>3, FS_Subset, FS_CardinalityType
  <2>5. Cardinality(Missed) <= IF backend = "redis" THEN 0 ELSE departures
    BY DEF IInv, MissedBound
  <2>6. Cardinality(skipped) <= IF backend = "redis" THEN 0 ELSE departures
    BY <2>1, <2>3, <2>4, <2>5
  <2> QED
    BY <2>6 DEF NoneSkipped, skipped
<1> QED
  BY <1>1, Inductive, PTL

(* An answer has at most as many repetitions as links came meanwhile, in    *)
(* memory and in SQLite: the offset moves back by one for each of them.     *)
THEOREM RepeatsAtMostArrivals == Spec => []NoneTwice
<1>1. IInv => NoneTwice
  <2> SUFFICES ASSUME IInv, backend # "redis"
               PROVE  Len(out) - Cardinality(Range(out)) <= arrivals
    BY DEF NoneTwice
  <2>1. /\ Len(out) \in Nat /\ Cardinality(Range(out)) \in Nat /\ arrivals \in Nat
    BY RangeCardinality, LenProperties DEF IInv, TypeOK
  <2>2. Cardinality(Ahead) \in Nat
    <3>1. Ahead \in SUBSET Id
      BY SetsOfIds DEF Ahead, IInv
    <3> QED
      BY <3>1, FiniteIds
  <2> QED
    BY <2>1, <2>2 DEF IInv, RepeatsBound, Repeats
<1> QED
  BY <1>1, Inductive, PTL

(* A page moves the listing on, so it never leaves everything as it was     *)
(* (which PagesMoveOn would not notice).                                    *)
LEMMA PageMoves ==
    ASSUME IInv, Page
    PROVE  MovesOn
<1>1. PICK kept \in Seq(Current) : Takes(kept)
  BY PageTakes DEF IInv
<1>2. cursor \in Nat /\ Len(kept) \in Nat
  BY <1>1, LenProperties DEF IInv, TypeOK
<1>3. /\ Cardinality(Current) \in Nat /\ Cardinality(listable) \in Nat
      /\ Cardinality(Current) <= Cardinality(listable)
  <2>1. Current \in SUBSET listable /\ listable \in SUBSET Id
    BY DEF IInv, TypeOK, Current
  <2>2. IsFiniteSet(listable)
    BY <2>1, FiniteIds
  <2> QED
    BY <2>1, <2>2, FS_Subset, FS_CardinalityType
<1>4. CASE StopsAtLimit
  BY <1>4 DEF StopsAtLimit, MovesOn
<1>5. CASE GoesOn(cursor + Len(kept)) /\ Len(kept) > 0
  <2>1. cursor + Len(kept) <= Cardinality(listable)
    BY <1>1, <1>2, <1>3, <1>5 DEF Takes
  <2> QED
    BY <1>2, <1>5, <2>1 DEF GoesOn, MovesOn
<1>6. CASE EndsType
  BY <1>6 DEF EndsType, MovesOn
<1> QED
  BY <1>1, <1>4, <1>5, <1>6 DEF Takes

(* Every page of MemoryStore.List or SqliteStore.List gets listLinksByType  *)
(* on, whatever comes and goes: no request asks for the same page for ever, *)
(* at any size of a page and with any number of links.                      *)
THEOREM PagesGetOn == Spec => PagesMoveOn
<1>1. IInv /\ [Next]_vars => [Page => MovesOn]_vars
  BY PageMoves
<1> QED
  BY <1>1, Inductive, PTL DEF Spec, PagesMoveOn

=============================================================================
