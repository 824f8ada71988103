--------------------------- MODULE SequenceLemmas ---------------------------
(***************************************************************************)
(* What the sequence operators the models are built from return: used by   *)
(* the proofs about the components.                                        *)
(***************************************************************************)
EXTENDS Orders, Integers, SequencesExt, TLAPS, SequenceTheorems, FiniteSetTheorems,
        FunctionTheorems, WellFoundedInduction

\* A non-empty set of naturals has a least element.
LEMMA MinInSet ==
    ASSUME NEW I \in SUBSET Nat, I # {}
    PROVE  Min(I) \in I /\ \A i \in I : Min(I) <= i
  <1> DEFINE Less == {p \in Nat \X Nat : p[1] < p[2]}
  <1>1. IsWellFoundedOn(Less, Nat)
    <2>1. OpToRel(<, Nat) = Less
      BY Zenon DEF OpToRel
    <2> QED
      BY <2>1, NatLessThanWellFounded, Zenon
  <1> HIDE DEF Less
  <1>2. PICK x \in I : \A y \in I : <<y, x>> \notin Less
    BY <1>1, WFMin, Zenon
  <1>3. ASSUME NEW y \in I PROVE x <= y
    <2>1. x \in Nat /\ y \in Nat /\ <<y, x>> \notin Less
      BY <1>2
    <2>2. y < x => <<y, x>> \in Less
      BY <2>1 DEF Less
    <2> QED
      BY <2>1, <2>2
  <1> QED
    BY <1>3 DEF Min

\* What the parts of a push are: the stack without its top, and the children.
LEMMA FrontProperties ==
    ASSUME NEW S, NEW s \in Seq(S), s # <<>>
    PROVE  /\ Front(s) \in Seq(S)
           /\ Len(Front(s)) = Len(s) - 1
           /\ \A i \in 1..(Len(s) - 1) : Front(s)[i] = s[i]
           /\ Last(s) = s[Len(s)]
           /\ Last(s) \in S
           /\ Len(s) >= 1
  <1>1. PICK n \in Nat : n = Len(s) - 1 /\ Len(s) >= 1
    BY EmptySeq
  <1>2. SubSeq(s, 1, n) \in Seq(S)
    BY <1>1
  <1>3. Len(SubSeq(s, 1, n)) = n
    BY <1>1
  <1>4. \A i \in 1..n : SubSeq(s, 1, n)[i] = s[i]
    BY <1>1
  <1>5. Last(s) = s[Len(s)] /\ Last(s) \in S
    BY <1>1, ElementOfSeq DEF Last
  <1> QED
    BY <1>1, <1>2, <1>3, <1>4, <1>5 DEF Front

\* Reverse: same length, mirrored positions.
LEMMA ReverseProperties ==
    ASSUME NEW S, NEW s \in Seq(S)
    PROVE  /\ Reverse(s) \in Seq(S)
           /\ Len(Reverse(s)) = Len(s)
           /\ \A i \in 1..Len(s) : Reverse(s)[i] = s[Len(s) - i + 1]
  <1>1. Reverse(s) = [i \in 1..Len(s) |-> s[(Len(s) - i) + 1]]
    BY DEF Reverse
  <1>2. \A i \in 1..Len(s) : (Len(s) - i) + 1 \in 1..Len(s)
    BY LenProperties
  <1>3. \A i \in 1..Len(s) : s[(Len(s) - i) + 1] \in S
    BY <1>2, ElementOfSeq
  <1>4. Reverse(s) \in Seq(S)
    BY <1>1, <1>3, LenProperties, IsASeq
  <1> QED
    BY <1>1, <1>4, LenProperties

\* A sequence of one element.
LEMMA SingletonSeq ==
    ASSUME NEW S, NEW e \in S
    PROVE  /\ <<e>> \in Seq(S)
           /\ ToSet(<<e>>) = {e}
           /\ IsInjective(<<e>>)
  <1>1. <<e>> \in Seq(S)
    OBVIOUS
  <1>2. DOMAIN <<e>> = {1} /\ <<e>>[1] = e
    OBVIOUS
  <1> QED
    BY <1>1, <1>2 DEF ToSet, IsInjective

-----------------------------------------------------------------------------
\* The elements of a sequence, and whether they are distinct, under the
\* operations that the walk uses.
LEMMA FrontSet ==
    ASSUME NEW S, NEW s \in Seq(S), s # <<>>, IsInjective(s)
    PROVE  /\ ToSet(Front(s)) = ToSet(s) \ {Last(s)}
           /\ IsInjective(Front(s))
  <1>1. PICK n \in Nat : n = Len(s) - 1 /\ n + 1 = Len(s)
    BY EmptySeq
  <1>2. DOMAIN s = 1..(n + 1) /\ DOMAIN Front(s) = 1..n
    BY <1>1, FrontProperties, LenProperties
  <1>3. \A i \in 1..n : Front(s)[i] = s[i] /\ s[i] # s[n + 1]
    BY <1>1, <1>2, FrontProperties DEF IsInjective
  <1>4. Last(s) = s[n + 1]
    BY <1>1, FrontProperties
  <1>5. \A i \in 1..(n + 1) : i \in 1..n \/ i = n + 1
    BY <1>1
  <1>6. ToSet(Front(s)) = ToSet(s) \ {Last(s)}
    BY <1>2, <1>3, <1>4, <1>5 DEF ToSet
  <1>7. IsInjective(Front(s))
    BY <1>1, <1>2, <1>3 DEF IsInjective
  <1> QED
    BY <1>6, <1>7

\* Reverse has the same elements.
LEMMA ReverseSet ==
    ASSUME NEW S, NEW s \in Seq(S)
    PROVE  /\ ToSet(Reverse(s)) = ToSet(s)
           /\ IsInjective(s) => IsInjective(Reverse(s))
  <1>1. PICK n \in Nat : n = Len(s)
    BY LenProperties
  <1>2. DOMAIN s = 1..n /\ DOMAIN Reverse(s) = 1..n
    BY <1>1, ReverseProperties, LenProperties
  <1>3. \A i \in 1..n : n - i + 1 \in 1..n /\ Reverse(s)[i] = s[n - i + 1]
    BY <1>1, ReverseProperties
  <1>4. \A i \in 1..n : s[i] = Reverse(s)[n - i + 1]
    BY <1>1, <1>3
  <1>5. ToSet(Reverse(s)) = ToSet(s)
    BY <1>2, <1>3, <1>4 DEF ToSet
  <1>6. ASSUME IsInjective(s) PROVE IsInjective(Reverse(s))
    <2>1. \A i, j \in 1..n : n - i + 1 = n - j + 1 => i = j
      BY <1>1
    <2> QED
      BY <1>2, <1>3, <1>6, <2>1 DEF IsInjective
  <1> QED
    BY <1>5, <1>6

\* A concatenation has the elements of both.
LEMMA ConcatSet ==
    ASSUME NEW S, NEW s \in Seq(S), NEW t \in Seq(S)
    PROVE  /\ ToSet(s \o t) = ToSet(s) \cup ToSet(t)
           /\ IsInjective(s) /\ IsInjective(t) /\ ToSet(s) \cap ToSet(t) = {}
                 => IsInjective(s \o t)
  <1>1. PICK m \in Nat, n \in Nat : m = Len(s) /\ n = Len(t)
    BY LenProperties
  <1>2. DOMAIN s = 1..m /\ DOMAIN t = 1..n /\ DOMAIN (s \o t) = 1..(m + n)
    BY <1>1, LenProperties, ConcatProperties
  <1>3. \A i \in 1..m : (s \o t)[i] = s[i] /\ i \in 1..(m + n)
    BY <1>1
  <1>4. \A i \in 1..n : (s \o t)[m + i] = t[i] /\ m + i \in 1..(m + n)
    BY <1>1
  <1>5. \A i \in 1..(m + n) : i \in 1..m \/ \E j \in 1..n : i = m + j
    <2> SUFFICES ASSUME NEW i \in 1..(m + n), i \notin 1..m
                 PROVE  \E j \in 1..n : i = m + j
      OBVIOUS
    <2>1. i - m \in 1..n /\ i = m + (i - m)
      BY <1>1
    <2> QED
      BY <2>1
  <1>6. ToSet(s \o t) = ToSet(s) \cup ToSet(t)
    <2>1. ASSUME NEW x \in ToSet(s \o t) PROVE x \in ToSet(s) \cup ToSet(t)
      <3>1. PICK i \in 1..(m + n) : x = (s \o t)[i]
        BY <1>2 DEF ToSet
      <3>2. CASE i \in 1..m
        BY <1>2, <1>3, <3>1, <3>2 DEF ToSet
      <3>3. CASE \E j \in 1..n : i = m + j
        BY <1>2, <1>4, <3>1, <3>3 DEF ToSet
      <3> QED
        BY <1>5, <3>2, <3>3
    <2>2. ToSet(s) \subseteq ToSet(s \o t)
      BY <1>2, <1>3 DEF ToSet
    <2>3. ToSet(t) \subseteq ToSet(s \o t)
      BY <1>2, <1>4 DEF ToSet
    <2> QED
      BY <2>1, <2>2, <2>3
  <1>7. ASSUME IsInjective(s), IsInjective(t), ToSet(s) \cap ToSet(t) = {}
        PROVE  IsInjective(s \o t)
    <2>1. \A i \in 1..m, j \in 1..n : s[i] # t[j]
      BY <1>2, <1>7 DEF ToSet
    <2>2. \A i, j \in 1..m : s[i] = s[j] => i = j
      BY <1>2, <1>7 DEF IsInjective
    <2>3. \A i, j \in 1..n : t[i] = t[j] => i = j
      BY <1>2, <1>7 DEF IsInjective
    <2> SUFFICES ASSUME NEW i \in 1..(m + n), NEW j \in 1..(m + n), (s \o t)[i] = (s \o t)[j]
                 PROVE  i = j
      BY <1>2 DEF IsInjective
    <2>4. CASE i \in 1..m /\ j \in 1..m
      BY <1>3, <2>2, <2>4
    <2>5. CASE i \in 1..m /\ \E l \in 1..n : j = m + l
      <3>1. PICK l \in 1..n : j = m + l
        BY <2>5
      <3>2. (s \o t)[i] = s[i] /\ (s \o t)[j] = t[l]
        BY <1>3, <1>4, <2>5, <3>1, Zenon
      <3> QED
        BY <2>1, <2>5, <3>2, Zenon
    <2>6. CASE j \in 1..m /\ \E l \in 1..n : i = m + l
      <3>1. PICK l \in 1..n : i = m + l
        BY <2>6
      <3>2. (s \o t)[j] = s[j] /\ (s \o t)[i] = t[l]
        BY <1>3, <1>4, <2>6, <3>1, Zenon
      <3> QED
        BY <2>1, <2>6, <3>2, Zenon
    <2>7. CASE (\E k \in 1..n : i = m + k) /\ \E l \in 1..n : j = m + l
      BY <1>4, <2>3, <2>7
    <2> QED
      BY <1>5, <2>4, <2>5, <2>6, <2>7
  <1> QED
    BY <1>6, <1>7

\* Append adds one element.
LEMMA AppendSet ==
    ASSUME NEW S, NEW s \in Seq(S), NEW e \in S
    PROVE  /\ ToSet(Append(s, e)) = ToSet(s) \cup {e}
           /\ IsInjective(s) /\ e \notin ToSet(s) => IsInjective(Append(s, e))
  <1>1. PICK n \in Nat : n = Len(s)
    BY LenProperties
  <1>2. DOMAIN s = 1..n /\ DOMAIN Append(s, e) = 1..(n + 1)
    BY <1>1, LenProperties, AppendProperties
  <1>3. \A i \in 1..n : Append(s, e)[i] = s[i]
    BY <1>1, AppendProperties
  <1>4. Append(s, e)[n + 1] = e
    BY <1>1, AppendProperties
  <1>5. \A i \in 1..(n + 1) : i \in 1..n \/ i = n + 1
    BY <1>1
  <1>6. \A i \in 1..n : i \in 1..(n + 1)
    BY <1>1
  <1>7. n + 1 \in 1..(n + 1)
    BY <1>1
  <1>8. ToSet(Append(s, e)) = ToSet(s) \cup {e}
    BY <1>2, <1>3, <1>4, <1>5, <1>6, <1>7, Zenon DEF ToSet
  <1>9. ASSUME IsInjective(s), e \notin ToSet(s) PROVE IsInjective(Append(s, e))
    <2>1. \A i \in 1..n : s[i] # e
      BY <1>2, <1>9 DEF ToSet
    <2> QED
      BY <1>2, <1>3, <1>4, <1>5, <1>9, <2>1, Zenon DEF IsInjective
  <1> QED
    BY <1>8, <1>9
-----------------------------------------------------------------------------
(***************************************************************************)
(* Orders: what Arranged and Selected return.                              *)
(***************************************************************************)

\* R is a total order of D.
TotalOrder(D, R) ==
    /\ \A x \in D : <<x, x>> \in R
    /\ \A x, y \in D : <<x, y>> \in R \/ <<y, x>> \in R
    /\ \A x, y \in D : <<x, y>> \in R /\ <<y, x>> \in R => x = y
    /\ \A x, y, z \in D : <<x, y>> \in R /\ <<y, z>> \in R => <<x, z>> \in R

\* A later element of the order has more elements up to it.
LEMMA LaterHasMore ==
    ASSUME NEW D, NEW R, IsFiniteSet(D), TotalOrder(D, R),
           NEW x \in D, NEW y \in D, <<x, y>> \in R, x # y
    PROVE  Place(D, R, x) < Place(D, R, y)
  <1> DEFINE X == UpTo(D, R, x)
             Y == UpTo(D, R, y)
  <1>1. X \in SUBSET Y /\ Y \in SUBSET D
    BY DEF TotalOrder, UpTo
  <1>2. y \in Y /\ y \notin X
    BY DEF TotalOrder, UpTo
  <1> HIDE DEF X, Y
  <1>3. IsFiniteSet(Y)
    BY <1>1, FS_Subset
  <1>4. IsFiniteSet(X) /\ Cardinality(X) <= Cardinality(Y) /\ Cardinality(X) # Cardinality(Y)
    BY <1>1, <1>2, <1>3, FS_Subset
  <1>5. Cardinality(X) \in Nat /\ Cardinality(Y) \in Nat
    BY <1>3, <1>4, FS_CardinalityType
  <1> QED
    BY <1>4, <1>5 DEF Place, X, Y

\* The places of the elements of D are the numbers up to its size, each once.
LEMMA PlacesOfAll ==
    ASSUME NEW D, NEW R, IsFiniteSet(D), TotalOrder(D, R)
    PROVE  /\ Cardinality(D) \in Nat
           /\ \A x \in D : Place(D, R, x) \in 1..Cardinality(D)
           /\ \A x, y \in D : Place(D, R, x) = Place(D, R, y) => x = y
           /\ \A k \in 1..Cardinality(D) : \E x \in D : Place(D, R, x) = k
  <1>1. PICK n \in Nat : n = Cardinality(D)
    BY FS_CardinalityType
  <1>2. ASSUME NEW x \in D PROVE Place(D, R, x) \in 1..n
    <2>1. UpTo(D, R, x) \in SUBSET D /\ x \in UpTo(D, R, x)
      BY DEF UpTo, TotalOrder
    <2>2. IsFiniteSet(UpTo(D, R, x)) /\ Cardinality(UpTo(D, R, x)) <= n
      BY <1>1, <2>1, FS_Subset
    <2>3. Cardinality(UpTo(D, R, x)) \in Nat /\ Cardinality(UpTo(D, R, x)) # 0
      BY <2>1, <2>2, FS_CardinalityType, FS_EmptySet
    <2> QED
      BY <1>1, <2>2, <2>3 DEF Place
  <1>3. ASSUME NEW x \in D, NEW y \in D, Place(D, R, x) = Place(D, R, y) PROVE x = y
    <2> SUFFICES ASSUME x # y PROVE FALSE
      OBVIOUS
    <2>1. <<x, y>> \in R \/ <<y, x>> \in R
      BY DEF TotalOrder
    <2>2. Place(D, R, x) < Place(D, R, y) \/ Place(D, R, y) < Place(D, R, x)
      BY <2>1, LaterHasMore
    <2> QED
      BY <1>1, <1>2, <1>3, <2>2
  <1> DEFINE P == [x \in D |-> Place(D, R, x)]
  <1>4. P \in [D -> 1..n] /\ \A x, y \in D : P[x] = P[y] => x = y
    BY <1>2, <1>3
  <1>5. \A x \in D : P[x] = Place(D, R, x)
    OBVIOUS
  <1> HIDE DEF P
  <1>6. P \in Injection(D, 1..n)
    BY <1>4, Fun_IsInj
  <1>7. IsFiniteSet(1..n) /\ Cardinality(1..n) = n
    BY <1>1, FS_Interval
  <1>8. P \in Surjection(D, 1..n)
    BY <1>1, <1>6, <1>7, FS_Injection
  <1>9. \A k \in 1..n : \E x \in D : P[x] = k
    BY <1>8, Fun_SurjectionProperties, Zenon
  <1>10. \A k \in 1..n : \E x \in D : Place(D, R, x) = k
    BY <1>5, <1>9
  <1> QED
    BY <1>1, <1>2, <1>3, <1>10

\* Arranged has each element of D once, in the order R.
LEMMA ArrangedOnce ==
    ASSUME NEW D, NEW R, IsFiniteSet(D), TotalOrder(D, R)
    PROVE  /\ Cardinality(D) \in Nat
           /\ Arranged(D, R) \in [1..Cardinality(D) -> D]
           /\ \A x \in D : /\ Place(D, R, x) \in 1..Cardinality(D)
                           /\ Arranged(D, R)[Place(D, R, x)] = x
           /\ \A k, l \in 1..Cardinality(D) : k < l =>
                 /\ <<Arranged(D, R)[k], Arranged(D, R)[l]>> \in R
                 /\ Arranged(D, R)[k] # Arranged(D, R)[l]
  <1>1. PICK n \in Nat : n = Cardinality(D)
    BY FS_CardinalityType
  <1> DEFINE A == Arranged(D, R)
  <1>2. A = [k \in 1..n |-> CHOOSE x \in D : Place(D, R, x) = k]
    BY <1>1 DEF Arranged
  <1> HIDE DEF A
  <1>3. \A k \in 1..n : A[k] \in D /\ Place(D, R, A[k]) = k
    <2> TAKE k \in 1..n
    <2>1. \E x \in D : Place(D, R, x) = k
      BY <1>1, PlacesOfAll
    <2> QED
      BY <1>2, <2>1
  <1>4. A \in [1..n -> D]
    BY <1>2, <1>3
  <1>5. \A x \in D : Place(D, R, x) \in 1..n /\ A[Place(D, R, x)] = x
    BY <1>1, <1>3, PlacesOfAll
  <1>6. ASSUME NEW k \in 1..n, NEW l \in 1..n, k < l
        PROVE  <<A[k], A[l]>> \in R /\ A[k] # A[l]
    <2>1. A[k] \in D /\ A[l] \in D /\ A[k] # A[l]
      BY <1>3, <1>6
    <2>2. ASSUME <<A[l], A[k]>> \in R PROVE FALSE
      <3>1. Place(D, R, A[l]) < Place(D, R, A[k])
        BY <2>1, <2>2, LaterHasMore
      <3> QED
        BY <1>3, <1>6, <3>1
    <2> QED
      BY <2>1, <2>2 DEF TotalOrder
  <1> QED
    BY <1>1, <1>4, <1>5, <1>6 DEF A

\* Only one sequence has each element of D once and in the order R.
LEMMA ArrangedUnique ==
    ASSUME NEW D, NEW R, TotalOrder(D, R), NEW n \in Nat, NEW f \in [1..n -> D],
           \A x \in D : \E k \in 1..n : f[k] = x,
           \A k, l \in 1..n : k < l => <<f[k], f[l]>> \in R /\ f[k] # f[l]
    PROVE  IsFiniteSet(D) /\ Cardinality(D) = n /\ f = Arranged(D, R)
  <1>1. ASSUME NEW k \in 1..n, NEW l \in 1..n, f[k] = f[l] PROVE k = l
    <2>1. k < l \/ l < k \/ k = l
      OBVIOUS
    <2> QED
      BY <1>1, <2>1
  <1>2. f \in Bijection(1..n, D)
    BY <1>1, Fun_IsBij
  <1>3. ExistsBijection(1..n, D)
    BY <1>2 DEF ExistsBijection
  <1>4. IsFiniteSet(D) /\ Cardinality(D) = n
    BY <1>3, FS_NatBijection, FS_CountingElements
  <1>5. ASSUME NEW k \in 1..n PROVE Place(D, R, f[k]) = k
    <2> DEFINE U == UpTo(D, R, f[k])
               g == [j \in 1..k |-> f[j]]
    <2>1. \A j \in 1..k : f[j] \in U
      <3> TAKE j \in 1..k
      <3>1. j \in 1..n /\ (j < k \/ j = k)
        OBVIOUS
      <3> QED
        BY <3>1 DEF UpTo, TotalOrder
    <2>2. \A x \in U : \E j \in 1..k : f[j] = x
      <3> TAKE x \in U
      <3>1. x \in D /\ <<x, f[k]>> \in R
        BY DEF UpTo
      <3>2. PICK j \in 1..n : f[j] = x
        BY <3>1
      <3>3. ASSUME k < j PROVE FALSE
        <4>1. <<f[k], f[j]>> \in R /\ f[k] # f[j]
          BY <3>3
        <4> QED
          BY <3>1, <3>2, <4>1 DEF TotalOrder
      <3> QED
        BY <3>2, <3>3
    <2> HIDE DEF U
    <2>3. g \in [1..k -> U] /\ \A i, j \in 1..k : g[i] = g[j] => i = j
      <3>1. \A j \in 1..k : j \in 1..n
        OBVIOUS
      <3> QED
        BY <1>1, <2>1, <3>1
    <2>4. \A x \in U : \E j \in 1..k : g[j] = x
      BY <2>2
    <2> HIDE DEF g
    <2>5. g \in Bijection(1..k, U)
      BY <2>3, <2>4, Fun_IsBij
    <2>6. Cardinality(U) = k
      <3>1. ExistsBijection(1..k, U)
        BY <2>5 DEF ExistsBijection
      <3> QED
        BY <3>1, FS_CountingElements
    <2> QED
      BY <2>6 DEF Place, U
  <1>6. \A k \in 1..n : Arranged(D, R)[k] = f[k]
    BY <1>4, <1>5, ArrangedOnce
  <1> QED
    BY <1>4, <1>6, ArrangedOnce

\* at lists the places of the elements of s that are in S, in their order.
Picks(s, S, m, at) ==
    /\ at \in [1..m -> PlacesIn(s, S)]
    /\ \A i \in PlacesIn(s, S) : \E k \in 1..m : at[k] = i
    /\ \A k, l \in 1..m : k < l => at[k] < at[l]

\* Places in a sequence are finitely many numbers, and those are in a total order.
LEMMA PlacesOrdered ==
    ASSUME NEW T, NEW s \in Seq(T), NEW S
    PROVE  /\ PlacesIn(s, S) \in SUBSET (1..Len(s))
           /\ PlacesIn(s, S) \subseteq Nat
           /\ IsFiniteSet(PlacesIn(s, S))
           /\ TotalOrder(PlacesIn(s, S), NotAbove(PlacesIn(s, S)))
           /\ \A x, y \in PlacesIn(s, S) : <<x, y>> \in NotAbove(PlacesIn(s, S)) <=> x <= y
  <1>1. PICK n \in Nat : n = Len(s) /\ DOMAIN s = 1..n
    BY LenProperties
  <1> DEFINE P == PlacesIn(s, S)
  <1>2. P \in SUBSET (1..n)
    BY <1>1 DEF PlacesIn
  <1> HIDE DEF P
  <1>3. IsFiniteSet(P)
    <2>1. IsFiniteSet(1..n)
      BY <1>1, FS_Interval
    <2> QED
      BY <1>2, <2>1, FS_Subset
  <1>4. \A x, y \in P : <<x, y>> \in NotAbove(P) <=> x <= y
    BY DEF NotAbove
  <1>5. \A x \in P : x \in Nat
    BY <1>1, <1>2
  <1>6. TotalOrder(P, NotAbove(P))
    BY <1>4, <1>5 DEF TotalOrder
  <1> QED
    BY <1>1, <1>2, <1>3, <1>4, <1>5, <1>6 DEF P

\* Selected has the elements at those places ...
LEMMA SelectedPicks ==
    ASSUME NEW T, NEW s \in Seq(T), NEW S
    PROVE  \E m \in Nat : \E at : /\ Picks(s, S, m, at)
                                  /\ Selected(s, S) = [k \in 1..m |-> s[at[k]]]
  <1> DEFINE P == PlacesIn(s, S)
             m == Cardinality(P)
             at == Ascending(P)
  <1>1. /\ P \subseteq Nat /\ IsFiniteSet(P) /\ TotalOrder(P, NotAbove(P))
        /\ \A x, y \in P : <<x, y>> \in NotAbove(P) <=> x <= y
    BY PlacesOrdered
  <1> HIDE DEF P
  <1>2. /\ m \in Nat /\ at \in [1..m -> P]
        /\ \A x \in P : Place(P, NotAbove(P), x) \in 1..m /\ at[Place(P, NotAbove(P), x)] = x
        /\ \A k, l \in 1..m : k < l => <<at[k], at[l]>> \in NotAbove(P) /\ at[k] # at[l]
    BY <1>1, ArrangedOnce, Zenon DEF Ascending
  <1> HIDE DEF m, at
  <1>3. \A k, l \in 1..m : k < l => at[k] < at[l]
    <2> SUFFICES ASSUME NEW k \in 1..m, NEW l \in 1..m, k < l PROVE at[k] < at[l]
      OBVIOUS
    <2>1. <<at[k], at[l]>> \in NotAbove(P) /\ at[k] # at[l] /\ at[k] \in P /\ at[l] \in P
      BY <1>2
    <2>2. at[k] \in Nat /\ at[l] \in Nat /\ at[k] <= at[l]
      BY <1>1, <2>1
    <2> QED
      BY <2>1, <2>2
  <1>4. Picks(s, S, m, at)
    BY <1>2, <1>3 DEF Picks, P
  <1>5. Selected(s, S) = [k \in DOMAIN at |-> s[at[k]]]
    BY DEF Selected, at, P
  <1>6. Selected(s, S) = [k \in 1..m |-> s[at[k]]]
    BY <1>2, <1>5
  <1> QED
    BY <1>2, <1>4, <1>6

\* ... and is the only sequence that does.
LEMMA SelectedUnique ==
    ASSUME NEW T, NEW s \in Seq(T), NEW S, NEW m \in Nat, NEW at, Picks(s, S, m, at)
    PROVE  Selected(s, S) = [k \in 1..m |-> s[at[k]]]
  <1> DEFINE P == PlacesIn(s, S)
  <1>1. /\ P \subseteq Nat /\ TotalOrder(P, NotAbove(P))
        /\ \A x, y \in P : <<x, y>> \in NotAbove(P) <=> x <= y
    BY PlacesOrdered
  <1>2. /\ at \in [1..m -> P]
        /\ \A i \in P : \E k \in 1..m : at[k] = i
        /\ \A k, l \in 1..m : k < l => at[k] < at[l]
    BY DEF Picks
  <1> HIDE DEF P
  <1>3. \A k, l \in 1..m : k < l => <<at[k], at[l]>> \in NotAbove(P) /\ at[k] # at[l]
    <2> SUFFICES ASSUME NEW k \in 1..m, NEW l \in 1..m, k < l
                 PROVE  <<at[k], at[l]>> \in NotAbove(P) /\ at[k] # at[l]
      OBVIOUS
    <2>1. at[k] \in P /\ at[l] \in P /\ at[k] < at[l]
      BY <1>2
    <2>2. at[k] \in Nat /\ at[l] \in Nat
      BY <1>1, <2>1
    <2> QED
      BY <1>1, <2>1, <2>2
  <1>4. at = Ascending(P)
    <2>1. m \in Nat
      OBVIOUS
    <2> DEFINE R == NotAbove(P)
    <2>2. TotalOrder(P, R) /\ \A k, l \in 1..m : k < l => <<at[k], at[l]>> \in R /\ at[k] # at[l]
      BY <1>1, <1>3
    <2> HIDE DEF R
    <2>3. at = Arranged(P, R)
      BY <1>2, <2>1, <2>2, ArrangedUnique
    <2> QED
      BY <2>3 DEF Ascending, R
  <1>5. Selected(s, S) = [k \in DOMAIN at |-> s[at[k]]]
    BY <1>4 DEF Selected, P
  <1> QED
    BY <1>2, <1>5

\* A selection is a sequence of elements of s that are in S, and has them all.
LEMMA SelectedType ==
    ASSUME NEW T, NEW s \in Seq(T), NEW S
    PROVE  /\ Selected(s, S) \in Seq(T)
           /\ ToSet(Selected(s, S)) = ToSet(s) \cap S
           /\ IsInjective(s) => IsInjective(Selected(s, S))
  <1>0. PICK m \in Nat : \E at : /\ Picks(s, S, m, at)
                                 /\ Selected(s, S) = [k \in 1..m |-> s[at[k]]]
    BY SelectedPicks
  <1>1. PICK at : /\ Picks(s, S, m, at)
                  /\ Selected(s, S) = [k \in 1..m |-> s[at[k]]]
    BY <1>0
  <1>2. /\ at \in [1..m -> PlacesIn(s, S)]
        /\ \A i \in PlacesIn(s, S) : \E k \in 1..m : at[k] = i
        /\ \A k, l \in 1..m : k < l => at[k] < at[l]
    BY <1>1 DEF Picks
  <1>3. /\ PlacesIn(s, S) \subseteq 1..Len(s) /\ DOMAIN s = 1..Len(s)
        /\ \A i \in DOMAIN s : i \in PlacesIn(s, S) <=> s[i] \in S
    BY PlacesOrdered, LenProperties DEF PlacesIn
  <1>4. \A k \in 1..m : at[k] \in DOMAIN s /\ s[at[k]] \in T /\ s[at[k]] \in S
    BY <1>2, <1>3, ElementOfSeq
  <1>5. Selected(s, S) \in Seq(T)
    BY <1>1, <1>4, IsASeq
  <1>6. ToSet(Selected(s, S)) = ToSet(s) \cap S
    <2>1. ToSet(Selected(s, S)) = {s[at[k]] : k \in 1..m}
      BY <1>1 DEF ToSet
    <2>2. ASSUME NEW x \in ToSet(s) \cap S PROVE \E k \in 1..m : s[at[k]] = x
      <3>1. PICK i \in DOMAIN s : s[i] = x
        BY DEF ToSet
      <3>2. i \in PlacesIn(s, S)
        BY <1>3, <3>1
      <3> QED
        BY <1>2, <3>1, <3>2
    <2>3. \A k \in 1..m : s[at[k]] \in ToSet(s) \cap S
      BY <1>4 DEF ToSet
    <2> QED
      BY <2>1, <2>2, <2>3
  <1>7. ASSUME IsInjective(s) PROVE IsInjective(Selected(s, S))
    <2>1. \A i, j \in DOMAIN s : s[i] = s[j] => i = j
      BY <1>7 DEF IsInjective
    <2>2. ASSUME NEW k \in 1..m, NEW l \in 1..m, s[at[k]] = s[at[l]] PROVE k = l
      <3>1. at[k] = at[l]
        BY <1>4, <2>1, <2>2
      <3>2. at[k] \in Nat /\ at[l] \in Nat
        BY <1>3, <1>4, LenProperties
      <3>3. k < l \/ l < k \/ k = l
        OBVIOUS
      <3> QED
        BY <1>2, <3>1, <3>2, <3>3
    <2> QED
      BY <1>1, <2>2 DEF IsInjective
  <1> QED
    BY <1>5, <1>6, <1>7

\* Appending a sequence of which nothing is selected leaves a selection as it
\* was.
LEMMA SelectedOfNone ==
    ASSUME NEW T, NEW s \in Seq(T), NEW t \in Seq(T), NEW S, ToSet(t) \cap S = {}
    PROVE  Selected(s \o t, S) = Selected(s, S)
  <1>0. PICK m \in Nat : \E at : /\ Picks(s, S, m, at)
                                 /\ Selected(s, S) = [k \in 1..m |-> s[at[k]]]
    BY SelectedPicks
  <1>1. PICK at : /\ Picks(s, S, m, at)
                  /\ Selected(s, S) = [k \in 1..m |-> s[at[k]]]
    BY <1>0
  <1>2. PICK l \in Nat, h \in Nat : l = Len(s) /\ h = Len(t)
    BY LenProperties
  <1>3. /\ s \o t \in Seq(T) /\ DOMAIN (s \o t) = 1..(l + h) /\ DOMAIN s = 1..l /\ DOMAIN t = 1..h
        /\ \A i \in 1..l : (s \o t)[i] = s[i]
        /\ \A i \in 1..h : (s \o t)[l + i] = t[i]
    BY <1>2, LenProperties, ConcatProperties
  <1>4. PlacesIn(s \o t, S) = PlacesIn(s, S)
    <2>1. ASSUME NEW i \in 1..(l + h), i \notin 1..l PROVE (s \o t)[i] \notin S
      <3>1. i - l \in 1..h /\ i = l + (i - l)
        BY <2>1
      <3>2. (s \o t)[i] = t[i - l]
        BY <1>3, <3>1, Zenon
      <3> QED
        BY <1>3, <3>1, <3>2 DEF ToSet
    <2>2. \A i \in 1..l : i \in 1..(l + h)
      OBVIOUS
    <2> QED
      BY <1>3, <2>1, <2>2 DEF PlacesIn
  <1>5. Picks(s \o t, S, m, at)
    BY <1>1, <1>4 DEF Picks
  <1>6. Selected(s \o t, S) = [k \in 1..m |-> (s \o t)[at[k]]]
    <2> DEFINE w == s \o t
    <2>1. w \in Seq(T) /\ Picks(w, S, m, at) /\ m \in Nat
      BY <1>3, <1>5
    <2> HIDE DEF w
    <2>2. Selected(w, S) = [k \in 1..m |-> w[at[k]]]
      BY <2>1, SelectedUnique
    <2> QED
      BY <2>2 DEF w
  <1>7. \A k \in 1..m : (s \o t)[at[k]] = s[at[k]]
    <2>1. \A k \in 1..m : at[k] \in 1..l
      BY <1>1, <1>3 DEF Picks, PlacesIn
    <2> QED
      BY <1>3, <2>1
  <1> QED
    BY <1>1, <1>6, <1>7

\* A selection from s \o t that takes nothing of s and everything of t is t.
LEMMA SelectedOfAll ==
    ASSUME NEW T, NEW s \in Seq(T), NEW t \in Seq(T), NEW S,
           ToSet(s) \cap S = {}, ToSet(t) \subseteq S
    PROVE  Selected(s \o t, S) = t
  <1>2. PICK l \in Nat, h \in Nat : l = Len(s) /\ h = Len(t)
    BY LenProperties
  <1>3. /\ s \o t \in Seq(T) /\ DOMAIN (s \o t) = 1..(l + h) /\ DOMAIN s = 1..l /\ DOMAIN t = 1..h
        /\ \A i \in 1..l : (s \o t)[i] = s[i]
        /\ \A i \in 1..h : (s \o t)[l + i] = t[i]
    BY <1>2, LenProperties, ConcatProperties
  <1> DEFINE at == [k \in 1..h |-> l + k]
             P == PlacesIn(s \o t, S)
  <1>4. \A i \in 1..l : (s \o t)[i] \notin S
    BY <1>3 DEF ToSet
  <1>5. ASSUME NEW k \in 1..h PROVE l + k \in 1..(l + h) /\ (s \o t)[l + k] \in S
    <2>1. (s \o t)[l + k] = t[k] /\ t[k] \in S
      BY <1>3 DEF ToSet
    <2> QED
      BY <2>1
  <1>6. \A k \in 1..h : l + k \in P
    BY <1>3, <1>5 DEF PlacesIn
  <1>7. ASSUME NEW i \in P PROVE \E k \in 1..h : l + k = i
    <2>1. i \in 1..(l + h) /\ i \notin 1..l
      BY <1>3, <1>4 DEF PlacesIn
    <2>2. i - l \in 1..h /\ l + (i - l) = i
      BY <2>1
    <2> QED
      BY <2>2
  <1>8. Picks(s \o t, S, h, at)
    <2> HIDE DEF P
    <2>1. at \in [1..h -> P] /\ \A k \in 1..h : at[k] = l + k
      BY <1>6
    <2> HIDE DEF at
    <2>2. \A i \in P : \E k \in 1..h : at[k] = i
      BY <1>7, <2>1
    <2>3. \A i, j \in 1..h : i < j => at[i] < at[j]
      BY <2>1
    <2> QED
      BY <2>1, <2>2, <2>3 DEF Picks, P
  <1>9. Selected(s \o t, S) = [k \in 1..h |-> (s \o t)[at[k]]]
    <2> DEFINE w == s \o t
    <2>1. w \in Seq(T) /\ Picks(w, S, h, at) /\ h \in Nat
      BY <1>3, <1>8
    <2> HIDE DEF w, at
    <2>2. Selected(w, S) = [k \in 1..h |-> w[at[k]]]
      BY <2>1, SelectedUnique
    <2> QED
      BY <2>2 DEF w
  <1>10. [k \in 1..h |-> (s \o t)[at[k]]] = [k \in 1..h |-> t[k]]
    BY <1>3
  <1>11. t = [k \in 1..h |-> t[k]]
    BY <1>3, LenProperties
  <1> QED
    BY <1>9, <1>10, <1>11

\* A selection of everything, and one of nothing.
LEMMA SelectedItself ==
    ASSUME NEW T, NEW s \in Seq(T), NEW S
    PROVE  /\ ToSet(s) \subseteq S => Selected(s, S) = s
           /\ ToSet(s) \cap S = {} => Selected(s, S) = <<>>
  <1>1. PICK e \in Seq(T) : e = <<>>
    <2>1. <<>> \in Seq(T)
      OBVIOUS
    <2> QED
      BY <2>1, Zenon
  <1>2. ToSet(e) = {}
    BY <1>1 DEF ToSet
  <1>3. e \o s = s /\ s \o e = s
    BY <1>1, ConcatEmptySeq
  <1>4. ASSUME ToSet(s) \subseteq S PROVE Selected(s, S) = s
    <2>1. ToSet(e) \cap S = {}
      BY <1>2
    <2>2. Selected(e \o s, S) = s
      BY <1>4, <2>1, SelectedOfAll
    <2> QED
      BY <1>3, <2>2
  <1>5. ASSUME ToSet(s) \cap S = {} PROVE Selected(s, S) = <<>>
    <2>1. ToSet(e) \subseteq S
      BY <1>2
    <2>2. Selected(s \o e, S) = e
      BY <1>5, <2>1, SelectedOfAll
    <2> QED
      BY <1>1, <1>3, <2>2
  <1> QED
    BY <1>4, <1>5

\* A set is as large as one its elements are paired with.
LEMMA SameSize ==
    ASSUME NEW S, NEW T, IsFiniteSet(S), NEW g \in [S -> T],
           \A x, y \in S : g[x] = g[y] => x = y,
           \A y \in T : \E x \in S : g[x] = y
    PROVE  IsFiniteSet(T) /\ Cardinality(T) = Cardinality(S)
  <1>1. g \in Bijection(S, T)
    BY Fun_IsBij
  <1>2. ExistsBijection(S, T)
    BY <1>1 DEF ExistsBijection
  <1> QED
    BY <1>2, FS_Bijection

\* How many elements of a selection are in V.
LEMMA SelectedCount ==
    ASSUME NEW T, NEW s \in Seq(T), NEW S, NEW V
    PROVE  Cardinality(PlacesIn(Selected(s, S), V)) = Cardinality(PlacesIn(s, S \cap V))
  <1>0. PICK m \in Nat : \E at : /\ Picks(s, S, m, at)
                                 /\ Selected(s, S) = [k \in 1..m |-> s[at[k]]]
    BY SelectedPicks
  <1>1. PICK at : /\ Picks(s, S, m, at)
                  /\ Selected(s, S) = [k \in 1..m |-> s[at[k]]]
    BY <1>0
  <1>2. /\ at \in [1..m -> PlacesIn(s, S)]
        /\ \A i \in PlacesIn(s, S) : \E k \in 1..m : at[k] = i
        /\ \A k, l \in 1..m : k < l => at[k] < at[l]
    BY <1>1 DEF Picks
  <1>3. PlacesIn(s, S) \subseteq Nat
    BY PlacesOrdered
  <1>4. \A i : i \in PlacesIn(s, S) <=> i \in DOMAIN s /\ s[i] \in S
    BY DEF PlacesIn
  <1>5. \A k, l \in 1..m : at[k] = at[l] => k = l
    <2> TAKE k, l \in 1..m
    <2>1. at[k] \in Nat /\ at[l] \in Nat
      BY <1>2, <1>3
    <2>2. k < l \/ l < k \/ k = l
      OBVIOUS
    <2> QED
      BY <1>2, <2>1, <2>2
  <1> DEFINE A == PlacesIn(Selected(s, S), V)
             B == PlacesIn(s, S \cap V)
             g == [k \in A |-> at[k]]
  <1>6. \A k : k \in A <=> k \in 1..m /\ s[at[k]] \in V
    BY <1>1 DEF PlacesIn
  <1>7. \A i : i \in B <=> i \in PlacesIn(s, S) /\ s[i] \in V
    BY DEF PlacesIn
  <1>8. IsFiniteSet(A)
    <2>1. A \in SUBSET (1..m)
      BY <1>6
    <2>2. IsFiniteSet(1..m)
      BY FS_Interval
    <2> QED
      BY <2>1, <2>2, FS_Subset
  <1> HIDE DEF A, B
  <1>9. g \in [A -> B]
    BY <1>2, <1>6, <1>7
  <1>10. \A k, l \in A : g[k] = g[l] => k = l
    BY <1>5, <1>6
  <1>11. \A i \in B : \E k \in A : g[k] = i
    <2> TAKE i \in B
    <2>1. PICK k \in 1..m : at[k] = i
      BY <1>2, <1>7
    <2>2. k \in A
      BY <1>6, <1>7, <2>1
    <2> QED
      BY <2>1, <2>2
  <1> HIDE DEF g
  <1>12. Cardinality(B) = Cardinality(A)
    BY <1>8, <1>9, <1>10, <1>11, SameSize
  <1> QED
    BY <1>12 DEF A, B

\* A selection from a selection.
LEMMA SelectedTwice ==
    ASSUME NEW T, NEW s \in Seq(T), NEW L, NEW S
    PROVE  Selected(Selected(s, L), S) = Selected(s, L \cap S)
  <1> DEFINE t == Selected(s, L)
  <1>0. PICK m \in Nat : \E at : Picks(s, L, m, at) /\ t = [k \in 1..m |-> s[at[k]]]
    BY SelectedPicks
  <1>1. PICK at : Picks(s, L, m, at) /\ t = [k \in 1..m |-> s[at[k]]]
    BY <1>0
  <1>2. t \in Seq(T)
    BY SelectedType
  <1> HIDE DEF t
  <1>3a. PICK n \in Nat : \E b : Picks(t, S, n, b) /\ Selected(t, S) = [k \in 1..n |-> t[b[k]]]
    BY <1>2, SelectedPicks
  <1>3. PICK b : Picks(t, S, n, b) /\ Selected(t, S) = [k \in 1..n |-> t[b[k]]]
    BY <1>3a
  <1>4. /\ at \in [1..m -> PlacesIn(s, L)]
        /\ \A i \in PlacesIn(s, L) : \E k \in 1..m : at[k] = i
        /\ \A k, l \in 1..m : k < l => at[k] < at[l]
    BY <1>1 DEF Picks
  <1>5. /\ b \in [1..n -> PlacesIn(t, S)]
        /\ \A i \in PlacesIn(t, S) : \E k \in 1..n : b[k] = i
        /\ \A k, l \in 1..n : k < l => b[k] < b[l]
    BY <1>3 DEF Picks
  <1>6. \A i : i \in PlacesIn(t, S) <=> i \in 1..m /\ s[at[i]] \in S
    BY <1>1 DEF PlacesIn
  <1>7. \A i : i \in PlacesIn(s, L \cap S) <=> i \in PlacesIn(s, L) /\ s[i] \in S
    BY DEF PlacesIn
  <1> DEFINE c == [k \in 1..n |-> at[b[k]]]
             P == PlacesIn(s, L \cap S)
  <1>8. c \in [1..n -> P]
    BY <1>4, <1>5, <1>6, <1>7
  <1>9. \A k \in 1..n : c[k] = at[b[k]] /\ b[k] \in 1..m
    BY <1>5, <1>6
  <1> HIDE DEF c
  <1>10. \A i \in P : \E k \in 1..n : c[k] = i
    <2> TAKE i \in P
    <2>1. PICK j \in 1..m : at[j] = i
      BY <1>4, <1>7
    <2>2. j \in PlacesIn(t, S)
      BY <1>6, <1>7, <2>1
    <2>3. PICK k \in 1..n : b[k] = j
      BY <1>5, <2>2
    <2> QED
      BY <1>9, <2>1, <2>3
  <1>11. \A k, l \in 1..n : k < l => c[k] < c[l]
    BY <1>4, <1>5, <1>9
  <1>12. Picks(s, L \cap S, n, c)
    BY <1>8, <1>10, <1>11 DEF Picks, P
  <1>13. Selected(s, L \cap S) = [k \in 1..n |-> s[c[k]]]
    <2> DEFINE V == L \cap S
    <2>1. n \in Nat /\ Picks(s, V, n, c)
      BY <1>12
    <2> HIDE DEF V
    <2>2. Selected(s, V) = [k \in 1..n |-> s[c[k]]]
      BY <2>1, SelectedUnique
    <2> QED
      BY <2>2 DEF V
  <1>14. \A k \in 1..n : t[b[k]] = s[c[k]]
    BY <1>1, <1>9
  <1> QED
    BY <1>3, <1>13, <1>14 DEF t

-----------------------------------------------------------------------------
(***************************************************************************)
(* What sorting and concatenating return.                                  *)
(***************************************************************************)
\* The first place at which two tuples differ.
LEMMA FirstDifference ==
    ASSUME NEW m \in Nat, NEW s \in [1..m -> Nat], NEW t \in [1..m -> Nat], s # t
    PROVE  \E i \in 1..m : s[i] # t[i] /\ \A j \in 1..(i - 1) : s[j] = t[j]
  <1> DEFINE I == {i \in 1..m : s[i] # t[i]}
  <1>1. I \in SUBSET Nat /\ I # {}
    OBVIOUS
  <1> HIDE DEF I
  <1>2. Min(I) \in I /\ \A i \in I : Min(I) <= i
    BY <1>1, MinInSet
  <1>3. PICK i \in 1..m : i \in I /\ \A j \in I : i <= j
    BY <1>2 DEF I
  <1>4. \A j \in 1..(i - 1) : j \in 1..m /\ ~(i <= j)
    OBVIOUS
  <1> QED
    BY <1>3, <1>4 DEF I

\* Python's comparison of tuples of numbers is a total order.
LEMMA PrecedesIsOrder ==
    ASSUME NEW m \in Nat, NEW s \in [1..m -> Nat], NEW t \in [1..m -> Nat], NEW u \in [1..m -> Nat]
    PROVE  /\ ~Precedes(s, s)
           /\ Precedes(s, t) => ~Precedes(t, s)
           /\ Precedes(s, t) \/ Precedes(t, s) \/ s = t
           /\ Precedes(s, t) /\ Precedes(t, u) => Precedes(s, u)
           /\ Precedes(s, u) => Precedes(s, t) \/ Precedes(t, u)
  <1>1. ASSUME NEW x \in [1..m -> Nat], NEW y \in [1..m -> Nat]
        PROVE  Precedes(x, y) <=> \E i \in 1..m : x[i] < y[i] /\ \A j \in 1..(i - 1) : x[j] = y[j]
    BY DEF Precedes
  <1>2. ASSUME NEW x \in [1..m -> Nat], NEW y \in [1..m -> Nat]
        PROVE  Precedes(x, y) \/ Precedes(y, x) \/ x = y
    <2> SUFFICES ASSUME x # y PROVE Precedes(x, y) \/ Precedes(y, x)
      OBVIOUS
    <2>1. PICK i \in 1..m : x[i] # y[i] /\ \A j \in 1..(i - 1) : x[j] = y[j]
      BY FirstDifference
    <2>2. x[i] < y[i] \/ y[i] < x[i]
      BY <2>1
    <2> QED
      BY <1>1, <2>1, <2>2
  <1>3. ASSUME NEW x \in [1..m -> Nat], NEW y \in [1..m -> Nat], Precedes(x, y), Precedes(y, x)
        PROVE  FALSE
    <2>1. PICK i \in 1..m : x[i] < y[i] /\ \A j \in 1..(i - 1) : x[j] = y[j]
      BY <1>1, <1>3
    <2>2. PICK k \in 1..m : y[k] < x[k] /\ \A j \in 1..(k - 1) : y[j] = x[j]
      BY <1>1, <1>3
    <2>3. \A l \in 1..m : x[l] \in Nat /\ y[l] \in Nat
      OBVIOUS
    <2>4. i \in 1..(k - 1) \/ k \in 1..(i - 1) \/ i = k
      OBVIOUS
    <2>5. CASE i \in 1..(k - 1)
      <3>1. x[i] < y[i] /\ y[i] = x[i]
        BY <2>1, <2>2, <2>5
      <3> QED
        BY <2>3, <3>1
    <2>6. CASE k \in 1..(i - 1)
      <3>1. y[k] < x[k] /\ x[k] = y[k]
        BY <2>1, <2>2, <2>6
      <3> QED
        BY <2>3, <3>1
    <2>7. CASE i = k
      <3>1. x[i] < y[i] /\ y[i] < x[i]
        BY <2>1, <2>2, <2>7
      <3> QED
        BY <2>3, <3>1
    <2> QED
      BY <2>4, <2>5, <2>6, <2>7
  <1>4. ASSUME NEW x \in [1..m -> Nat], NEW y \in [1..m -> Nat], NEW z \in [1..m -> Nat],
               Precedes(x, y), Precedes(y, z)
        PROVE  Precedes(x, z)
    <2>1. PICK i \in 1..m : x[i] < y[i] /\ \A j \in 1..(i - 1) : x[j] = y[j]
      BY <1>1, <1>4
    <2>2. PICK k \in 1..m : y[k] < z[k] /\ \A j \in 1..(k - 1) : y[j] = z[j]
      BY <1>1, <1>4
    <2>3. \A l \in 1..m : x[l] \in Nat /\ y[l] \in Nat /\ z[l] \in Nat
      OBVIOUS
    <2>4. CASE i < k
      <3>1. i \in 1..(k - 1) /\ \A j \in 1..(i - 1) : j \in 1..(k - 1)
        BY <2>4
      <3>2. x[i] < z[i] /\ \A j \in 1..(i - 1) : x[j] = z[j]
        BY <2>1, <2>2, <2>3, <3>1
      <3> QED
        BY <1>1, <3>2
    <2>5. CASE k <= i
      <3>1. (k = i \/ k \in 1..(i - 1)) /\ \A j \in 1..(k - 1) : j \in 1..(i - 1)
        BY <2>5
      <3>2. \A j \in 1..(k - 1) : x[j] = z[j]
        BY <2>1, <2>2, <3>1
      <3>3. x[k] <= y[k] /\ y[k] < z[k]
        <4>1. CASE k = i
          BY <2>1, <2>2, <2>3, <4>1
        <4>2. CASE k \in 1..(i - 1)
          <5>1. x[k] = y[k] /\ y[k] < z[k]
            BY <2>1, <2>2, <4>2
          <5> QED
            BY <2>3, <5>1
        <4> QED
          BY <3>1, <4>1, <4>2
      <3>4. x[k] < z[k]
        BY <2>3, <3>3
      <3> QED
        BY <1>1, <3>2, <3>4
    <2> QED
      BY <2>4, <2>5
  <1> QED
    BY <1>2, <1>3, <1>4

\* Elements with equal keys are told apart by their places, so that the order of
\* list.sort is total.
LEMMA NotAfterIsOrder ==
    ASSUME NEW n \in Nat, NEW m \in Nat, NEW keys \in [1..n -> [1..m -> Nat]]
    PROVE  TotalOrder(1..n, NotAfter(keys))
  <1> DEFINE Before(i, j) == Precedes(keys[i], keys[j])
  <1>1. \A i, j \in 1..n : <<i, j>> \in NotAfter(keys) <=> Before(i, j) \/ (~Before(j, i) /\ i <= j)
    BY DEF NotAfter
  <1>2. \A i, j, k \in 1..n :
           /\ ~Before(i, i)
           /\ Before(i, j) => ~Before(j, i)
           /\ Before(i, k) => Before(i, j) \/ Before(j, k)
    <2> DEFINE Key == [1..m -> Nat]
    <2>1. \A s, t, u \in Key : /\ ~Precedes(s, s)
                               /\ Precedes(s, t) => ~Precedes(t, s)
                               /\ Precedes(s, u) => Precedes(s, t) \/ Precedes(t, u)
      BY PrecedesIsOrder
    <2>2. \A i \in 1..n : keys[i] \in Key
      OBVIOUS
    <2> HIDE DEF Key
    <2> QED
      BY <2>1, <2>2
  <1> HIDE DEF Before
  <1>3. \A i, j \in 1..n : <<i, j>> \in NotAfter(keys) \/ <<j, i>> \in NotAfter(keys)
    <2> TAKE i, j \in 1..n
    <2>1. i <= j \/ j <= i
      OBVIOUS
    <2> QED
      BY <1>1, <2>1
  <1>4. /\ \A i \in 1..n : <<i, i>> \in NotAfter(keys)
        /\ \A i, j \in 1..n : <<i, j>> \in NotAfter(keys) /\ <<j, i>> \in NotAfter(keys) => i = j
    BY <1>1, <1>2
  <1>5. \A i, j, k \in 1..n :
           <<i, j>> \in NotAfter(keys) /\ <<j, k>> \in NotAfter(keys) => <<i, k>> \in NotAfter(keys)
    <2> TAKE i, j, k \in 1..n
    <2>1. i <= j /\ j <= k => i <= k
      OBVIOUS
    <2> QED
      BY <1>1, <1>2, <2>1, Zenon
  <1> QED
    BY <1>3, <1>4, <1>5 DEF TotalOrder

\* g pairs the elements of S with those of T.
Pairing(g, S, T) ==
    /\ g \in [S -> T]
    /\ \A x, y \in S : g[x] = g[y] => x = y
    /\ \A y \in T : \E x \in S : g[x] = y

\* What an arrangement is: each element at one place.
LEMMA ArrangedPairing ==
    ASSUME NEW D, NEW R, IsFiniteSet(D), TotalOrder(D, R)
    PROVE  /\ Cardinality(D) \in Nat
           /\ Pairing(Arranged(D, R), 1..Cardinality(D), D)
           /\ \A k, l \in 1..Cardinality(D) :
                 k < l => <<Arranged(D, R)[k], Arranged(D, R)[l]>> \in R
  <1> DEFINE A == Arranged(D, R)
  <1>0. PICK n \in Nat : n = Cardinality(D)
    BY ArrangedOnce
  <1>1. /\ A \in [1..n -> D]
        /\ \A x \in D : Place(D, R, x) \in 1..n /\ A[Place(D, R, x)] = x
        /\ \A k, l \in 1..n : k < l => <<A[k], A[l]>> \in R /\ A[k] # A[l]
    BY <1>0, ArrangedOnce
  <1> HIDE DEF A
  <1>2. \A k, l \in 1..n : A[k] = A[l] => k = l
    <2> TAKE k, l \in 1..n
    <2>1. k < l \/ l < k \/ k = l
      OBVIOUS
    <2> QED
      BY <1>1, <2>1
  <1>3. \A x \in D : \E k \in 1..n : A[k] = x
    BY <1>1
  <1> QED
    BY <1>0, <1>1, <1>2, <1>3 DEF A, Pairing

\* A sorted list is the list before, with its places paired with new ones, in
\* the order of the keys.
LEMMA SortedByProperties ==
    ASSUME NEW T, NEW s \in Seq(T), NEW m \in Nat, NEW keys \in [DOMAIN s -> [1..m -> Nat]]
    PROVE  /\ SortedBy(s, keys) \in Seq(T)
           /\ Len(SortedBy(s, keys)) = Len(s)
           /\ \E from : /\ Pairing(from, DOMAIN s, DOMAIN s)
                        /\ \A k \in DOMAIN s : SortedBy(s, keys)[k] = s[from[k]]
                        /\ \A k, l \in DOMAIN s : k < l => ~Precedes(keys[from[l]], keys[from[k]])
  <1>1. PICK n \in Nat : n = Len(s) /\ DOMAIN s = 1..n
    BY LenProperties
  <1> DEFINE R == NotAfter(keys)
             from == Arranged(DOMAIN s, R)
  <1>2. IsFiniteSet(1..n) /\ Cardinality(1..n) = n /\ TotalOrder(1..n, R)
    <2>1. keys \in [1..n -> [1..m -> Nat]]
      BY <1>1
    <2>2. TotalOrder(1..n, NotAfter(keys))
      BY <2>1, NotAfterIsOrder, Zenon
    <2>3. IsFiniteSet(1..n) /\ Cardinality(1..n) = n
      BY FS_Interval
    <2> QED
      BY <2>2, <2>3
  <1> HIDE DEF R
  <1>3. /\ Pairing(from, 1..n, 1..n)
        /\ \A k, l \in 1..n : k < l => <<from[k], from[l]>> \in R
    <2> DEFINE D == 1..n
    <2>1. IsFiniteSet(D) /\ Cardinality(D) = n /\ TotalOrder(D, R) /\ DOMAIN s = D
      BY <1>1, <1>2
    <2> HIDE DEF D
    <2>2. /\ Pairing(from, 1..n, D)
          /\ \A k, l \in 1..n : k < l => <<from[k], from[l]>> \in R
      BY <2>1, ArrangedPairing
    <2> QED
      BY <2>2 DEF D
  <1>4. SortedBy(s, keys) = [k \in 1..n |-> s[from[k]]]
    BY <1>1 DEF SortedBy, R
  <1> HIDE DEF from
  <1>5. \A k \in 1..n : from[k] \in 1..n /\ s[from[k]] \in T
    BY <1>1, <1>3, ElementOfSeq DEF Pairing
  <1>6. SortedBy(s, keys) \in Seq(T) /\ Len(SortedBy(s, keys)) = n
    <2>1. SortedBy(s, keys) \in Seq(T)
      BY <1>4, <1>5, IsASeq
    <2> QED
      BY <1>4, <2>1, LenProperties
  <1>7. \A k, l \in 1..n : k < l => ~Precedes(keys[from[l]], keys[from[k]])
    <2> SUFFICES ASSUME NEW k \in 1..n, NEW l \in 1..n, k < l
                 PROVE  ~Precedes(keys[from[l]], keys[from[k]])
      OBVIOUS
    <2>1. \/ Precedes(keys[from[k]], keys[from[l]])
          \/ ~Precedes(keys[from[l]], keys[from[k]])
      BY <1>3 DEF R, NotAfter
    <2>2. keys[from[k]] \in [1..m -> Nat] /\ keys[from[l]] \in [1..m -> Nat]
      BY <1>1, <1>5
    <2>3. PICK x, y \in [1..m -> Nat] : x = keys[from[k]] /\ y = keys[from[l]]
      BY <2>2
    <2>4. Precedes(x, y) => ~Precedes(y, x)
      BY PrecedesIsOrder
    <2> QED
      BY <2>1, <2>3, <2>4
  <1>8. \A k \in 1..n : SortedBy(s, keys)[k] = s[from[k]]
    BY <1>4
  <1> QED
    BY <1>1, <1>3, <1>6, <1>7, <1>8

\* Sorting neither loses nor adds an element.
LEMMA SortedByCount ==
    ASSUME NEW T, NEW s \in Seq(T), NEW m \in Nat, NEW keys \in [DOMAIN s -> [1..m -> Nat]], NEW V
    PROVE  /\ Cardinality(PlacesIn(SortedBy(s, keys), V)) = Cardinality(PlacesIn(s, V))
           /\ ToSet(SortedBy(s, keys)) = ToSet(s)
  <1> DEFINE out == SortedBy(s, keys)
             A == PlacesIn(out, V)
             B == PlacesIn(s, V)
  <1>1. PICK n \in Nat : n = Len(s) /\ DOMAIN s = 1..n
    BY LenProperties
  <1>0. /\ out \in Seq(T) /\ Len(out) = Len(s)
        /\ \E from : Pairing(from, DOMAIN s, DOMAIN s) /\ \A k \in DOMAIN s : out[k] = s[from[k]]
    <2>1. /\ SortedBy(s, keys) \in Seq(T)
          /\ Len(SortedBy(s, keys)) = Len(s)
          /\ \E from : /\ Pairing(from, DOMAIN s, DOMAIN s)
                       /\ \A k \in DOMAIN s : SortedBy(s, keys)[k] = s[from[k]]
                       /\ \A k, l \in DOMAIN s : k < l => ~Precedes(keys[from[l]], keys[from[k]])
      BY SortedByProperties
    <2> QED
      BY <2>1, Zenon
  <1> HIDE DEF out
  <1>2. out \in Seq(T) /\ DOMAIN out = 1..n
    BY <1>0, <1>1, LenProperties
  <1>3. PICK from : Pairing(from, 1..n, 1..n) /\ \A k \in 1..n : out[k] = s[from[k]]
    BY <1>0, <1>1, Zenon
  <1> DEFINE g == [k \in A |-> from[k]]
  <1>4. \A k : k \in A <=> k \in 1..n /\ s[from[k]] \in V
    BY <1>2, <1>3 DEF PlacesIn
  <1>5. \A i : i \in B <=> i \in 1..n /\ s[i] \in V
    BY <1>1 DEF PlacesIn
  <1>6. IsFiniteSet(A)
    BY <1>2, PlacesOrdered
  <1> HIDE DEF A, B
  <1>7. g \in [A -> B] /\ \A k, l \in A : g[k] = g[l] => k = l
    BY <1>3, <1>4, <1>5 DEF Pairing
  <1>8. \A i \in B : \E k \in A : g[k] = i
    <2> TAKE i \in B
    <2>1. PICK k \in 1..n : from[k] = i
      BY <1>3, <1>5 DEF Pairing
    <2>2. k \in A
      BY <1>4, <1>5, <2>1
    <2> QED
      BY <2>1, <2>2
  <1> HIDE DEF g
  <1>9. Cardinality(B) = Cardinality(A)
    BY <1>6, <1>7, <1>8, SameSize
  <1>10. ToSet(out) = ToSet(s)
    <2>1. \A k \in 1..n : \E i \in 1..n : out[k] = s[i]
      BY <1>3 DEF Pairing
    <2>2. ASSUME NEW i \in 1..n PROVE \E k \in 1..n : out[k] = s[i]
      <3>1. PICK k \in 1..n : from[k] = i
        BY <1>3 DEF Pairing
      <3> QED
        BY <1>3, <3>1
    <2>3. ToSet(out) = {out[k] : k \in 1..n} /\ ToSet(s) = {s[k] : k \in 1..n}
      BY <1>1, <1>2 DEF ToSet
    <2> QED
      BY <2>1, <2>2, <2>3
  <1> QED
    BY <1>9, <1>10 DEF A, B, out

\* The places in sequences are finitely many. Those before the i-th sequence are
\* those before the one before it, and those in that.
LEMMA CellsCounted ==
    ASSUME NEW T, NEW n \in Nat, NEW ss \in [1..n -> Seq(T)]
    PROVE  /\ \A i \in 1..(n + 1) : Ahead(ss, i) \in Nat
           /\ Ahead(ss, 1) = 0 /\ Ahead(ss, n + 1) = Cardinality(Cells(ss))
           /\ \A i \in 1..n : Ahead(ss, i + 1) = Ahead(ss, i) + Len(ss[i])
           /\ \A i, j \in 1..(n + 1) : i <= j => Ahead(ss, i) <= Ahead(ss, j)
  <1> DEFINE D == Cells(ss)
             Line(i) == {<<i, j>> : j \in DOMAIN ss[i]}
             Upto(i) == {c \in D : c[1] < i}
  <1>1. DOMAIN ss = 1..n
    OBVIOUS
  <1>2. \A c : c \in D <=> \E i \in 1..n : \E j \in DOMAIN ss[i] : c = <<i, j>>
    BY <1>1 DEF Cells
  <1>3. \A i \in 1..n : \E h \in Nat : DOMAIN ss[i] = 1..h /\ Len(ss[i]) = h
    BY LenProperties
  <1>4. ASSUME NEW i \in 1..n PROVE IsFiniteSet(Line(i)) /\ Cardinality(Line(i)) = Len(ss[i])
    <2>1. PICK h \in Nat : DOMAIN ss[i] = 1..h /\ Len(ss[i]) = h
      BY <1>3
    <2> DEFINE g == [j \in 1..h |-> <<i, j>>]
    <2>2. g \in Bijection(1..h, Line(i))
      <3>1. /\ g \in [1..h -> Line(i)] /\ \A c \in Line(i) : \E j \in 1..h : g[j] = c
            /\ \A j, l \in 1..h : g[j] = g[l] => j = l
        BY <2>1
      <3> QED
        BY <3>1, Fun_IsBij
    <2> HIDE DEF g
    <2>3. ExistsBijection(1..h, Line(i))
      BY <2>2 DEF ExistsBijection
    <2> QED
      BY <2>1, <2>3, FS_NatBijection, FS_CountingElements
  <1>5. IsFiniteSet(D)
    <2> DEFINE Lines == {Line(i) : i \in 1..n}
    <2>1. IsFiniteSet(Lines)
      <3> DEFINE g == [i \in 1..n |-> Line(i)]
      <3>1. g \in [1..n -> Lines] /\ \A c \in Lines : \E i \in 1..n : g[i] = c
        OBVIOUS
      <3> HIDE DEF g
      <3>2. g \in Surjection(1..n, Lines)
        BY <3>1, Fun_IsSurj
      <3>3. IsFiniteSet(1..n)
        BY FS_Interval
      <3> HIDE DEF Lines
      <3> QED
        BY <3>2, <3>3, FS_Surjection
    <2>2. D = UNION Lines
      BY <1>1 DEF Cells
    <2>3. \A S \in Lines : IsFiniteSet(S)
      BY <1>4
    <2> HIDE DEF Lines, D
    <2> QED
      BY <2>1, <2>2, <2>3, FS_UNION
  <1> HIDE DEF D
  <1>6. \A i : IsFiniteSet(Upto(i)) /\ Cardinality(Upto(i)) \in Nat
    <2> TAKE i
    <2>1. Upto(i) \in SUBSET D
      OBVIOUS
    <2> QED
      BY <1>5, <2>1, FS_Subset, FS_CardinalityType
  <1>7. \A i : Ahead(ss, i) = Cardinality(Upto(i))
    BY DEF Ahead, D
  <1>8. Upto(1) = {}
    BY <1>2
  <1>9. Upto(n + 1) = D
    BY <1>2
  <1>10. ASSUME NEW i \in 1..n
         PROVE  Cardinality(Upto(i + 1)) = Cardinality(Upto(i)) + Len(ss[i])
    <2>1. Upto(i + 1) = Upto(i) \cup Line(i)
      <3>1. ASSUME NEW c, c \in Upto(i + 1) PROVE c \in Upto(i) \cup Line(i)
        <4>1. PICK j \in 1..n : \E l \in DOMAIN ss[j] : c = <<j, l>>
          BY <1>2, <3>1
        <4>2. PICK l \in DOMAIN ss[j] : c = <<j, l>>
          BY <4>1
        <4>3. j < i \/ j = i
          BY <3>1, <4>2
        <4> QED
          BY <3>1, <4>2, <4>3
      <3>2. ASSUME NEW c, c \in Upto(i) PROVE c \in Upto(i + 1)
        <4>1. PICK j \in 1..n : \E l \in DOMAIN ss[j] : c = <<j, l>>
          BY <1>2, <3>2
        <4> QED
          BY <3>2, <4>1
      <3>3. ASSUME NEW c, c \in Line(i) PROVE c \in Upto(i + 1)
        BY <1>2, <3>3
      <3> HIDE DEF Upto, Line
      <3> QED
        BY <3>1, <3>2, <3>3
    <2>2. Upto(i) \cap Line(i) = {}
      OBVIOUS
    <2> HIDE DEF Upto, Line
    <2>3. /\ IsFiniteSet(Upto(i)) /\ Cardinality(Upto(i)) \in Nat
          /\ IsFiniteSet(Line(i)) /\ Cardinality(Line(i)) = Len(ss[i]) /\ Len(ss[i]) \in Nat
      BY <1>4, <1>6, LenProperties
    <2>4. Cardinality(Upto(i) \cap Line(i)) = 0
      BY <2>2, FS_EmptySet
    <2>5. Cardinality(Upto(i) \cup Line(i))
            = Cardinality(Upto(i)) + Cardinality(Line(i)) - Cardinality(Upto(i) \cap Line(i))
      BY <2>3, FS_Union
    <2>6. PICK u, v \in Nat : u = Cardinality(Upto(i)) /\ v = Cardinality(Line(i))
      BY <2>3
    <2>7. Cardinality(Upto(i + 1)) = u + v - 0
      BY <2>1, <2>4, <2>5, <2>6
    <2>8. v = Len(ss[i])
      BY <2>3, <2>6
    <2> QED
      BY <2>6, <2>7, <2>8
  <1>11. ASSUME NEW i \in 1..(n + 1), NEW j \in 1..(n + 1), i <= j
         PROVE  Cardinality(Upto(i)) <= Cardinality(Upto(j))
    <2>1. Upto(i) \in SUBSET Upto(j)
      <3>1. \A c \in D : c[1] \in Nat
        BY <1>2
      <3> QED
        BY <1>11, <3>1
    <2> HIDE DEF Upto
    <2> QED
      BY <1>6, <2>1, FS_Subset
  <1> HIDE DEF Upto, Line
  <1>12. Cardinality(Upto(1)) = 0
    BY <1>8, FS_EmptySet
  <1> QED
    BY <1>6, <1>7, <1>9, <1>10, <1>11, <1>12 DEF D

\* No two places in sequences come to the same place.
OnePlaceEach(ss, n) ==
    \A i, p \in 1..n : \A j \in DOMAIN ss[i] : \A q \in DOMAIN ss[p] :
       Ahead(ss, i) + j = Ahead(ss, p) + q => i = p /\ j = q

\* Each place of the concatenation is one place in one of the sequences.
LEMMA CellOfPlace ==
    ASSUME NEW T, NEW n \in Nat, NEW ss \in [1..n -> Seq(T)]
    PROVE  OnePlaceEach(ss, n)
  <1> DEFINE A(l) == Ahead(ss, l)
  <1>1. /\ \A l \in 1..(n + 1) : A(l) \in Nat
        /\ \A l \in 1..n : A(l + 1) = A(l) + Len(ss[l])
        /\ \A l, m \in 1..(n + 1) : l <= m => A(l) <= A(m)
    BY CellsCounted, Zenon
  <1>2. \A l \in 1..n : Len(ss[l]) \in Nat /\ DOMAIN ss[l] = 1..Len(ss[l])
    BY LenProperties
  <1> HIDE DEF A
  <1>3. ASSUME NEW l \in 1..n, NEW m \in 1..n, l < m, NEW u \in DOMAIN ss[l], NEW v \in DOMAIN ss[m]
        PROVE  A(l) + u < A(m) + v
    <2>1. l + 1 \in 1..(n + 1) /\ m \in 1..(n + 1) /\ l \in 1..(n + 1) /\ l + 1 <= m
      BY <1>3
    <2>2. A(l + 1) <= A(m) /\ A(l + 1) = A(l) + Len(ss[l]) /\ A(l) \in Nat /\ A(m) \in Nat
      BY <1>1, <2>1
    <2>3. u <= Len(ss[l]) /\ u \in Nat /\ v >= 1 /\ v \in Nat /\ Len(ss[l]) \in Nat
      BY <1>2
    <2> QED
      BY <2>2, <2>3
  <1>4. ASSUME NEW i \in 1..n, NEW p \in 1..n, NEW j \in DOMAIN ss[i], NEW q \in DOMAIN ss[p],
               A(i) + j = A(p) + q
        PROVE  i = p /\ j = q
    <2>1. i < p \/ p < i \/ i = p
      OBVIOUS
    <2>2. i \in 1..(n + 1) /\ p \in 1..(n + 1)
      OBVIOUS
    <2>3. A(i) \in Nat /\ A(p) \in Nat /\ j \in Nat /\ q \in Nat
      BY <1>1, <1>2, <2>2
    <2>4. ASSUME i < p PROVE FALSE
      BY <1>3, <1>4, <2>3, <2>4
    <2>5. ASSUME p < i PROVE FALSE
      BY <1>3, <1>4, <2>3, <2>5
    <2>6. i = p
      BY <2>1, <2>4, <2>5
    <2> QED
      BY <1>4, <2>3, <2>6
  <1> QED
    BY <1>4 DEF A, OnePlaceEach

\* A concatenation has the j-th element of the i-th sequence at its place, and
\* nothing else.
LEMMA ConcatenatedAt ==
    ASSUME NEW T, NEW n \in Nat, NEW ss \in [1..n -> Seq(T)]
    PROVE  /\ Concatenated(ss) \in Seq(T) /\ Len(Concatenated(ss)) = Ahead(ss, n + 1)
           /\ \A i \in 1..n : \A j \in DOMAIN ss[i] :
                 /\ Ahead(ss, i) + j \in 1..Ahead(ss, n + 1)
                 /\ Concatenated(ss)[Ahead(ss, i) + j] = ss[i][j]
           /\ \A k \in 1..Ahead(ss, n + 1) :
                 \E i \in 1..n : \E j \in DOMAIN ss[i] : k = Ahead(ss, i) + j
  <1> DEFINE A(i) == Ahead(ss, i)
             C == Concatenated(ss)
             h == Cardinality(Cells(ss))
  <1>1. /\ \A i \in 1..(n + 1) : A(i) \in Nat
        /\ A(1) = 0 /\ A(n + 1) = h
        /\ \A i \in 1..n : A(i + 1) = A(i) + Len(ss[i])
        /\ \A i, j \in 1..(n + 1) : i <= j => A(i) <= A(j)
    BY CellsCounted, Zenon
  <1>2. DOMAIN ss = 1..n /\ \A i \in 1..n : Len(ss[i]) \in Nat /\ DOMAIN ss[i] = 1..Len(ss[i])
    BY LenProperties
  <1>3. C = [k \in 1..h |-> ss[Owner(ss, k)][k - A(Owner(ss, k))]]
    BY DEF Concatenated
  <1>4. \A k : Owner(ss, k) = CHOOSE i \in 1..n : k - A(i) \in DOMAIN ss[i]
    BY <1>2 DEF Owner
  <1>5. h \in Nat
    <2>1. n + 1 \in 1..(n + 1)
      OBVIOUS
    <2> QED
      BY <1>1, <2>1
  <1> HIDE DEF A, C, h
  <1>6. ASSUME NEW k \in 1..h PROVE \E i \in 1..n : k - A(i) \in DOMAIN ss[i]
    <2> DEFINE I == {i \in 1..(n + 1) : k <= A(i)}
    <2>1. n + 1 \in I /\ I \in SUBSET Nat
      BY <1>1, <1>5
    <2>2. Min(I) \in I /\ \A i \in I : Min(I) <= i
      BY <2>1, MinInSet
    <2>3. PICK m \in 1..(n + 1) : k <= A(m) /\ \A i \in 1..(n + 1) : k <= A(i) => m <= i
      BY <2>2
    <2>4. m # 1
      BY <1>1, <2>3
    <2>5. m - 1 \in 1..n /\ m - 1 \in 1..(n + 1) /\ (m - 1) + 1 = m
      BY <2>4
    <2>6. A(m) = A(m - 1) + Len(ss[m - 1]) /\ A(m - 1) \in Nat /\ A(m) \in Nat
      <3>1. A((m - 1) + 1) = A(m - 1) + Len(ss[m - 1])
        BY <1>1, <2>5
      <3> QED
        BY <1>1, <2>5, <3>1
    <2>7. ~(k <= A(m - 1))
      BY <2>3, <2>5
    <2>8. k - A(m - 1) \in 1..Len(ss[m - 1])
      BY <1>2, <2>3, <2>5, <2>6, <2>7
    <2> QED
      BY <1>2, <2>5, <2>8
  <1>8. ASSUME NEW i \in 1..n, NEW j \in DOMAIN ss[i]
        PROVE  A(i) + j \in 1..h /\ C[A(i) + j] = ss[i][j]
    <2>1. i \in 1..(n + 1) /\ i + 1 \in 1..(n + 1) /\ n + 1 \in 1..(n + 1) /\ i + 1 <= n + 1
      OBVIOUS
    <2>2. /\ A(i) \in Nat /\ A(i + 1) = A(i) + Len(ss[i]) /\ A(i + 1) <= h
          /\ j \in 1..Len(ss[i]) /\ Len(ss[i]) \in Nat
      BY <1>1, <1>2, <2>1
    <2>3. A(i) + j \in 1..h /\ (A(i) + j) - A(i) = j
      BY <1>5, <2>2
    <2>4. Owner(ss, A(i) + j) = i
      <3> DEFINE o == Owner(ss, A(i) + j)
      <3>1. o \in 1..n /\ (A(i) + j) - A(o) \in DOMAIN ss[o]
        BY <1>4, <2>3
      <3> HIDE DEF o
      <3>2. o \in 1..(n + 1) /\ A(o) \in Nat
        <4>1. o \in 1..(n + 1)
          BY <3>1
        <4>2. \A m \in 1..(n + 1) : A(m) \in Nat
          BY <1>1
        <4> QED
          BY <4>1, <4>2
      <3>3. A(i) + j = A(o) + ((A(i) + j) - A(o))
        BY <2>2, <3>2
      <3>4. OnePlaceEach(ss, n)
        BY CellOfPlace
      <3>5. o = i
        BY <3>1, <3>3, <3>4 DEF OnePlaceEach, A
      <3> QED
        BY <3>5 DEF o
    <2> QED
      BY <1>3, <2>3, <2>4
  <1>9. ASSUME NEW k \in 1..h PROVE \E i \in 1..n : \E j \in DOMAIN ss[i] : k = A(i) + j
    <2>1. PICK i \in 1..n : k - A(i) \in DOMAIN ss[i]
      BY <1>6
    <2>2. A(i) \in Nat
      BY <1>1
    <2>3. k = A(i) + (k - A(i))
      BY <2>2
    <2> QED
      BY <2>1, <2>3
  <1>10. C \in Seq(T) /\ Len(C) = h
    <2>1. ASSUME NEW k \in 1..h PROVE C[k] \in T
      <3>1. PICK i \in 1..n : \E j \in DOMAIN ss[i] : k = A(i) + j
        BY <1>9
      <3>2. PICK j \in DOMAIN ss[i] : k = A(i) + j
        BY <3>1
      <3>3. C[k] = ss[i][j]
        BY <1>8, <3>2
      <3>4. ss[i][j] \in T
        BY ElementOfSeq, LenProperties
      <3> QED
        BY <3>3, <3>4
    <2>2. DOMAIN C = 1..h /\ C = [k \in DOMAIN C |-> C[k]]
      BY <1>3
    <2>3. C \in [1..h -> T]
      BY <2>1, <2>2
    <2> QED
      BY <1>5, <2>3, LenProperties
  <1> QED
    BY <1>1, <1>8, <1>9, <1>10 DEF A, C, h

\* A concatenation has the elements of the sequences, its places paired with theirs.
LEMMA ConcatenatedProperties ==
    ASSUME NEW T, NEW n \in Nat, NEW ss \in [1..n -> Seq(T)]
    PROVE  /\ Concatenated(ss) \in Seq(T)
           /\ \E cell : /\ Pairing(cell, DOMAIN Concatenated(ss), Cells(ss))
                        /\ \A k \in DOMAIN Concatenated(ss) :
                              Concatenated(ss)[k] = ss[cell[k][1]][cell[k][2]]
  <1> DEFINE C == Concatenated(ss)
             A(i) == Ahead(ss, i)
             h == A(n + 1)
             At(k) == CHOOSE c \in Cells(ss) : k = A(c[1]) + c[2]
             cell == [k \in 1..h |-> At(k)]
  <1>1. \A c : c \in Cells(ss) <=> \E i \in 1..n : \E j \in DOMAIN ss[i] : c = <<i, j>>
    <2>1. DOMAIN ss = 1..n
      OBVIOUS
    <2> QED
      BY <2>1 DEF Cells
  <1>2. /\ C \in Seq(T) /\ Len(C) = h
        /\ \A i \in 1..n : \A j \in DOMAIN ss[i] : A(i) + j \in 1..h /\ C[A(i) + j] = ss[i][j]
        /\ \A k \in 1..h : \E i \in 1..n : \E j \in DOMAIN ss[i] : k = A(i) + j
    BY ConcatenatedAt
  <1>3. DOMAIN C = 1..h
    BY <1>2, LenProperties
  <1> HIDE DEF A, C, h
  <1>4. \A c \in Cells(ss) : A(c[1]) + c[2] \in 1..h /\ C[A(c[1]) + c[2]] = ss[c[1]][c[2]]
    BY <1>1, <1>2
  <1>5. \A k \in 1..h : At(k) \in Cells(ss) /\ k = A(At(k)[1]) + At(k)[2]
    <2> TAKE k \in 1..h
    <2>1. PICK i \in 1..n : \E j \in DOMAIN ss[i] : k = A(i) + j
      BY <1>2
    <2>2. PICK j \in DOMAIN ss[i] : k = A(i) + j
      BY <2>1
    <2>3. <<i, j>> \in Cells(ss) /\ <<i, j>>[1] = i /\ <<i, j>>[2] = j
      BY <1>1
    <2>4. \E c \in Cells(ss) : k = A(c[1]) + c[2]
      BY <2>2, <2>3
    <2> QED
      BY <2>4
  <1> HIDE DEF At
  <1>6. cell \in [1..h -> Cells(ss)] /\ \A k \in 1..h : C[k] = ss[cell[k][1]][cell[k][2]]
    BY <1>4, <1>5
  <1>7. \A k, l \in 1..h : cell[k] = cell[l] => k = l
    BY <1>5
  <1>8. ASSUME NEW c \in Cells(ss) PROVE \E k \in 1..h : cell[k] = c
    <2> DEFINE k == A(c[1]) + c[2]
    <2>1. k \in 1..h
      BY <1>4
    <2>2. At(k) \in Cells(ss) /\ A(c[1]) + c[2] = A(At(k)[1]) + At(k)[2]
      BY <1>5, <2>1
    <2> HIDE DEF k
    <2>3. At(k) = c
      <3>1. PICK i \in 1..n : \E j \in DOMAIN ss[i] : c = <<i, j>>
        BY <1>1
      <3>2. PICK j \in DOMAIN ss[i] : c = <<i, j>>
        BY <3>1
      <3>3. PICK p \in 1..n : \E q \in DOMAIN ss[p] : At(k) = <<p, q>>
        BY <1>1, <2>2
      <3>4. PICK q \in DOMAIN ss[p] : At(k) = <<p, q>>
        BY <3>3
      <3>5. A(i) + j = A(p) + q
        BY <2>2, <3>2, <3>4
      <3>6. OnePlaceEach(ss, n)
        BY CellOfPlace
      <3>7. i = p /\ j = q
        BY <3>5, <3>6 DEF OnePlaceEach, A
      <3> QED
        BY <3>2, <3>4, <3>7
    <2> QED
      BY <2>1, <2>3
  <1> HIDE DEF cell
  <1>9. Pairing(cell, DOMAIN C, Cells(ss)) /\ \A k \in DOMAIN C : C[k] = ss[cell[k][1]][cell[k][2]]
    BY <1>3, <1>6, <1>7, <1>8 DEF Pairing
  <1> QED
    BY <1>2, <1>9 DEF C

\* Each row of s that is in V stands for one element of D, by h, and is its row.
StandsFor(h, s, V, D, row) ==
    /\ Pairing(h, PlacesIn(s, V), D)
    /\ \A k \in PlacesIn(s, V) : s[k] = row[h[k]]

\* Each row that counts of sequences put together stands for one element of D,
\* if each row that counts of the i-th one stands for one element of its part.
LEMMA ConcatenatedPairing ==
    ASSUME NEW T, NEW n \in Nat, NEW ss \in [1..n -> Seq(T)], NEW V, NEW D, NEW part, NEW row,
           \A d : d \in D <=> \E i \in 1..n : d \in part[i],
           \A i, j \in 1..n : i # j => part[i] \cap part[j] = {},
           \A i \in 1..n : \E g : StandsFor(g, ss[i], V, part[i], row)
    PROVE  \E h : StandsFor(h, Concatenated(ss), V, D, row)
  <1> DEFINE C == Concatenated(ss)
             P == PlacesIn(C, V)
             OK(g, i) == /\ Pairing(g, PlacesIn(ss[i], V), part[i])
                         /\ \A l \in PlacesIn(ss[i], V) : ss[i][l] = row[g[l]]
             G == [i \in 1..n |-> CHOOSE g : OK(g, i)]
  <1>1. \A i \in 1..n : OK(G[i], i)
    BY DEF StandsFor
  <1> HIDE DEF G
  <1>2. \A c : c \in Cells(ss) <=> \E i \in 1..n : \E j \in DOMAIN ss[i] : c = <<i, j>>
    <2>1. DOMAIN ss = 1..n
      OBVIOUS
    <2> QED
      BY <2>1 DEF Cells
  <1>3. /\ Concatenated(ss) \in Seq(T)
        /\ \E cell : /\ Pairing(cell, DOMAIN Concatenated(ss), Cells(ss))
                     /\ \A k \in DOMAIN Concatenated(ss) :
                           Concatenated(ss)[k] = ss[cell[k][1]][cell[k][2]]
    BY ConcatenatedProperties
  <1>4. PICK cell : /\ Pairing(cell, DOMAIN C, Cells(ss))
                    /\ \A k \in DOMAIN C : C[k] = ss[cell[k][1]][cell[k][2]]
    BY <1>3, Zenon
  <1> HIDE DEF C
  <1> DEFINE To(c) == G[c[1]][c[2]]
             h == [k \in P |-> To(cell[k])]
  <1>5. \A k : k \in P <=> k \in DOMAIN C /\ C[k] \in V
    BY DEF PlacesIn
  <1>6. ASSUME NEW k \in P
        PROVE  \E i \in 1..n : \E l \in PlacesIn(ss[i], V) : cell[k] = <<i, l>> /\ C[k] = ss[i][l]
    <2>1. cell[k] \in Cells(ss) /\ C[k] = ss[cell[k][1]][cell[k][2]] /\ C[k] \in V
      BY <1>4, <1>5 DEF Pairing
    <2>2. PICK i \in 1..n : \E j \in DOMAIN ss[i] : cell[k] = <<i, j>>
      BY <1>2, <2>1
    <2>3. PICK j \in DOMAIN ss[i] : cell[k] = <<i, j>>
      BY <2>2
    <2>4. j \in PlacesIn(ss[i], V) /\ C[k] = ss[i][j]
      BY <2>1, <2>3 DEF PlacesIn
    <2> QED
      BY <2>3, <2>4
  <1>7. ASSUME NEW i \in 1..n, NEW l \in PlacesIn(ss[i], V)
        PROVE  /\ \E k \in P : cell[k] = <<i, l>>
               /\ To(<<i, l>>) \in part[i] /\ ss[i][l] = row[To(<<i, l>>)]
    <2>1. l \in DOMAIN ss[i] /\ ss[i][l] \in V
      BY DEF PlacesIn
    <2>2. <<i, l>> \in Cells(ss)
      BY <1>2, <2>1
    <2>3. PICK k \in DOMAIN C : cell[k] = <<i, l>>
      BY <1>4, <2>2 DEF Pairing
    <2>4. C[k] = ss[i][l]
      BY <1>4, <2>3
    <2>5. k \in P
      BY <1>5, <2>1, <2>4
    <2>6. G[i][l] \in part[i] /\ ss[i][l] = row[G[i][l]]
      BY <1>1 DEF Pairing
    <2> QED
      BY <2>3, <2>5, <2>6
  <1>8. \A i \in 1..n : \A l \in PlacesIn(ss[i], V) : \E k \in P : cell[k] = <<i, l>>
    <2> SUFFICES ASSUME NEW i \in 1..n, NEW l \in PlacesIn(ss[i], V)
                 PROVE  \E k \in P : cell[k] = <<i, l>>
      BY Zenon
    <2> QED
      BY ONLY <1>7
  <1> HIDE DEF P
  <1>9. h \in [P -> D] /\ \A k \in P : C[k] = row[h[k]]
    <2> SUFFICES ASSUME NEW k \in P PROVE To(cell[k]) \in D /\ C[k] = row[To(cell[k])]
      OBVIOUS
    <2>1. PICK i \in 1..n : \E l \in PlacesIn(ss[i], V) : cell[k] = <<i, l>> /\ C[k] = ss[i][l]
      BY <1>6
    <2>2. PICK l \in PlacesIn(ss[i], V) : cell[k] = <<i, l>> /\ C[k] = ss[i][l]
      BY <2>1
    <2>3. To(<<i, l>>) \in part[i] /\ ss[i][l] = row[To(<<i, l>>)]
      BY <1>7
    <2> HIDE DEF To
    <2> QED
      BY <2>2, <2>3
  <1>10. ASSUME NEW k \in P, NEW q \in P, h[k] = h[q] PROVE k = q
    <2>1. PICK i \in 1..n : \E l \in PlacesIn(ss[i], V) : cell[k] = <<i, l>>
      BY <1>6
    <2>2. PICK l \in PlacesIn(ss[i], V) : cell[k] = <<i, l>>
      BY <2>1
    <2>3. PICK j \in 1..n : \E m \in PlacesIn(ss[j], V) : cell[q] = <<j, m>>
      BY <1>6
    <2>4. PICK m \in PlacesIn(ss[j], V) : cell[q] = <<j, m>>
      BY <2>3
    <2>5. To(<<i, l>>) \in part[i] /\ To(<<j, m>>) \in part[j] /\ To(<<i, l>>) = To(<<j, m>>)
      <3>1. To(<<i, l>>) \in part[i]
        BY <1>7
      <3>2. To(<<j, m>>) \in part[j]
        BY <1>7
      <3> HIDE DEF To
      <3> QED
        BY <1>10, <2>2, <2>4, <3>1, <3>2
    <2>6. i = j
      BY <2>5
    <2>7. G[i][l] = G[i][m] /\ m \in PlacesIn(ss[i], V)
      BY <2>5, <2>6
    <2>8. l = m
      BY <1>1, <2>7 DEF Pairing
    <2>9. cell[k] = cell[q] /\ k \in DOMAIN C /\ q \in DOMAIN C
      BY <1>5, <2>2, <2>4, <2>6, <2>8
    <2> QED
      BY <1>4, <2>9 DEF Pairing
  <1>11. ASSUME NEW d \in D PROVE \E k \in P : h[k] = d
    <2>1. PICK i \in 1..n : d \in part[i]
      OBVIOUS
    <2>2. PICK l \in PlacesIn(ss[i], V) : G[i][l] = d
      BY <1>1, <2>1 DEF Pairing
    <2>3. \E k \in P : cell[k] = <<i, l>>
      BY ONLY <1>8, i \in 1..n, l \in PlacesIn(ss[i], V), Zenon
    <2>4. PICK k \in P : cell[k] = <<i, l>>
      BY <2>3
    <2> QED
      BY <2>2, <2>4
  <1> HIDE DEF h, To, OK
  <1>12. Pairing(h, P, D)
    BY <1>9, <1>10, <1>11 DEF Pairing
  <1> QED
    BY <1>9, <1>12 DEF C, P, StandsFor

\* What stands for the elements of D: the rows of them, each as often as D has it.
LEMMA PairingCount ==
    ASSUME NEW T, NEW s \in Seq(T), NEW V, NEW D, NEW row, NEW h,
           StandsFor(h, s, V, D, row)
    PROVE  /\ ToSet(s) \cap V = {row[d] : d \in D}
           /\ \A x \in V : Cardinality(PlacesIn(s, {x})) = Cardinality({d \in D : row[d] = x})
  <1> DEFINE P == PlacesIn(s, V)
  <1>1. \A k : k \in P <=> k \in DOMAIN s /\ s[k] \in V
    BY DEF PlacesIn
  <1> HIDE DEF P
  <1>2. /\ h \in [P -> D] /\ \A x, y \in P : h[x] = h[y] => x = y
        /\ \A y \in D : \E x \in P : h[x] = y
        /\ \A k \in P : s[k] = row[h[k]]
    BY DEF Pairing, P, StandsFor
  <1>3. ASSUME NEW x \in ToSet(s) \cap V PROVE \E d \in D : x = row[d]
    <2>1. PICK k \in DOMAIN s : x = s[k]
      BY DEF ToSet
    <2>2. k \in P
      BY <1>1, <2>1
    <2> QED
      BY <1>2, <2>1, <2>2
  <1>4. ASSUME NEW d \in D PROVE row[d] \in ToSet(s) \cap V
    <2>1. PICK k \in P : h[k] = d
      BY <1>2
    <2>2. s[k] = row[d] /\ k \in DOMAIN s /\ s[k] \in V
      BY <1>1, <1>2, <2>1
    <2> QED
      BY <2>2 DEF ToSet
  <1>5. ASSUME NEW x \in V PROVE Cardinality(PlacesIn(s, {x})) = Cardinality({d \in D : row[d] = x})
    <2> DEFINE A == PlacesIn(s, {x})
               B == {d \in D : row[d] = x}
               g == [k \in A |-> h[k]]
    <2>1. IsFiniteSet(A)
      BY PlacesOrdered
    <2>2. \A k : k \in A <=> k \in P /\ s[k] = x
      BY <1>1 DEF PlacesIn
    <2> HIDE DEF A
    <2>3. g \in [A -> B] /\ \A k, l \in A : g[k] = g[l] => k = l
      BY <1>2, <2>2
    <2>4. \A d \in B : \E k \in A : g[k] = d
      BY <1>2, <2>2
    <2> HIDE DEF B, g
    <2>5. Cardinality(B) = Cardinality(A)
      BY ONLY <2>1, <2>3, <2>4, SameSize
    <2> QED
      BY <2>5 DEF A, B
  <1> QED
    BY <1>3, <1>4, <1>5

\* rows are the elements of s that are in V, in the order of their keys.
InOrder(rows, s, keys, V) ==
    /\ Len(rows) = Cardinality(PlacesIn(s, V))
    /\ ToSet(rows) = ToSet(s) \cap V
    /\ \A i, j \in DOMAIN rows : i < j =>
          \E a, b \in DOMAIN s : rows[i] = s[a] /\ rows[j] = s[b] /\ ~Precedes(keys[b], keys[a])

\* What is selected from a sorted list: as many rows, the same, and none before
\* one that has a smaller key.
LEMMA SelectedFromSorted ==
    ASSUME NEW T, NEW s \in Seq(T), NEW m \in Nat, NEW keys \in [DOMAIN s -> [1..m -> Nat]], NEW V,
           NEW rows, rows = Selected(SortedBy(s, keys), V)
    PROVE  InOrder(rows, s, keys, V)
  <1> DEFINE out == SortedBy(s, keys)
  <1>1. /\ SortedBy(s, keys) \in Seq(T)
        /\ Len(SortedBy(s, keys)) = Len(s)
        /\ \E from : /\ Pairing(from, DOMAIN s, DOMAIN s)
                     /\ \A k \in DOMAIN s : SortedBy(s, keys)[k] = s[from[k]]
                     /\ \A k, l \in DOMAIN s : k < l => ~Precedes(keys[from[l]], keys[from[k]])
    BY SortedByProperties
  <1>2. PICK from : /\ Pairing(from, DOMAIN s, DOMAIN s)
                    /\ \A k \in DOMAIN s : out[k] = s[from[k]]
                    /\ \A k, l \in DOMAIN s : k < l => ~Precedes(keys[from[l]], keys[from[k]])
    BY <1>1, Zenon
  <1>3. /\ Cardinality(PlacesIn(out, V)) = Cardinality(PlacesIn(s, V))
        /\ ToSet(out) = ToSet(s)
    BY SortedByCount
  <1>4. out \in Seq(T) /\ DOMAIN out = DOMAIN s
    BY <1>1, LenProperties
  <1>5. rows = Selected(out, V)
    OBVIOUS
  <1> HIDE DEF out
  <1>6. PICK h \in Nat : \E at : Picks(out, V, h, at) /\ rows = [k \in 1..h |-> out[at[k]]]
    <2>1. out \in Seq(T)
      BY <1>4
    <2>2. \E h \in Nat : \E at : /\ Picks(out, V, h, at)
                                 /\ Selected(out, V) = [k \in 1..h |-> out[at[k]]]
      BY ONLY <2>1, SelectedPicks
    <2> QED
      BY <1>5, <2>2
  <1>7. PICK at : Picks(out, V, h, at) /\ rows = [k \in 1..h |-> out[at[k]]]
    BY <1>6
  <1>8. rows \in Seq(T) /\ ToSet(rows) = ToSet(s) \cap V
    BY <1>3, <1>4, <1>5, SelectedType
  <1>9. Len(rows) = h /\ DOMAIN rows = 1..h
    BY <1>7, <1>8, LenProperties
  <1>10. Cardinality(PlacesIn(out, V)) = h
    <2> DEFINE D == 1..h
               P == PlacesIn(out, V)
    <2>1. at \in [D -> P] /\ \A i \in P : \E k \in D : at[k] = i
      BY <1>7 DEF Picks
    <2>2. \A k, l \in D : at[k] = at[l] => k = l
      <3> TAKE k, l \in D
      <3>1. k < l \/ l < k \/ k = l
        OBVIOUS
      <3>2. P \subseteq Nat
        BY <1>4, PlacesOrdered
      <3>3. at[k] \in Nat /\ at[l] \in Nat
        BY <2>1, <3>2
      <3> QED
        BY <1>7, <3>1, <3>3 DEF Picks
    <2>3. IsFiniteSet(D) /\ Cardinality(D) = h
      BY FS_Interval
    <2> HIDE DEF D, P
    <2>4. Cardinality(P) = Cardinality(D)
      BY <2>1, <2>2, <2>3, SameSize
    <2> QED
      BY <2>3, <2>4 DEF P
  <1>11. ASSUME NEW i \in DOMAIN rows, NEW j \in DOMAIN rows, i < j
         PROVE  \E a, b \in DOMAIN s : rows[i] = s[a] /\ rows[j] = s[b] /\ ~Precedes(keys[b], keys[a])
    <2>1. /\ at[i] \in PlacesIn(out, V) /\ at[j] \in PlacesIn(out, V) /\ at[i] < at[j]
          /\ rows[i] = out[at[i]] /\ rows[j] = out[at[j]]
      BY <1>7, <1>9, <1>11 DEF Picks
    <2>2. at[i] \in DOMAIN s /\ at[j] \in DOMAIN s
      BY <1>4, <2>1 DEF PlacesIn
    <2>3. PICK a, b \in DOMAIN s : a = from[at[i]] /\ b = from[at[j]]
      BY <1>2, <2>2 DEF Pairing
    <2>4. ~Precedes(keys[b], keys[a]) /\ rows[i] = s[a] /\ rows[j] = s[b]
      BY <1>2, <2>1, <2>2, <2>3
    <2> QED
      BY <2>4
  <1>12. Len(rows) = Cardinality(PlacesIn(s, V))
    BY <1>3, <1>9, <1>10
  <1> QED
    BY <1>8, <1>11, <1>12 DEF InOrder

\* Only what is in the sequence matters.
LEMMA SelectedSame ==
    ASSUME NEW T, NEW s \in Seq(T), NEW S, NEW V, \A x \in ToSet(s) \cap T : x \in S <=> x \in V
    PROVE  Selected(s, S) = Selected(s, V)
  <1>1. \A i \in DOMAIN s : s[i] \in ToSet(s) \cap T
    BY LenProperties, ElementOfSeq DEF ToSet
  <1>2. PlacesIn(s, S) = PlacesIn(s, V)
    BY <1>1 DEF PlacesIn
  <1> QED
    BY <1>2 DEF Selected

\* A sequence over a set is one over a larger set.
LEMMA SeqOfMore ==
    ASSUME NEW S, NEW T, S \subseteq T, NEW s \in Seq(S)
    PROVE  s \in Seq(T)
  <1>1. PICK n \in Nat : n = Len(s) /\ s = [i \in 1..n |-> s[i]]
    BY LenProperties
  <1>2. \A i \in 1..n : s[i] \in T
    BY <1>1, ElementOfSeq
  <1> QED
    BY <1>1, <1>2, IsASeq
=============================================================================
