----------------------------- MODULE FieldsProofs -----------------------------
(***************************************************************************)
(* Theorems about Fields: for every text, whatever is in it, the parts are *)
(* what lies between the separators at the top level.                      *)
(*                                                                         *)
(* The three flags of _split_top_level are shown to be what they stand     *)
(* for: escaped says that an odd number of backslashes comes before, quote *)
(* that an odd number of quotes does, and depth is the largest surplus of  *)
(* openers, counted from any position.                                     *)
(***************************************************************************)
EXTENDS Fields, SequenceLemmas, FiniteSetTheorems

LargestSurplus(t, p, d) ==
    /\ \E q \in 1..p : Surplus(t, q, p) = d
    /\ \A q \in 1..p : Surplus(t, q, p) <= d

EscapedIsOdd == escaped <=> IsEscaped(text, pos)
QuoteIsOdd == quote <=> InQuotes(text, pos)
DepthIsSurplus == LargestSurplus(text, pos, depth)
CutsSoFar == ToSet(cuts) = {p \in 1..(pos - 1) : AtTopLevel(p)}

IInv == TypeOK /\ Lossless /\ EscapedIsOdd /\ QuoteIsOdd /\ DepthIsSurplus /\ CutsSoFar

-----------------------------------------------------------------------------
\* A position follows an odd number of backslashes exactly if the one before it
\* is a backslash that does not.
LEMMA EscapedNext ==
    ASSUME NEW t \in Seq(Token), NEW p \in DOMAIN t
    PROVE  IsEscaped(t, p + 1) <=> t[p] = "\\" /\ ~IsEscaped(t, p)
  <1>0. p \in Nat /\ p >= 1
    BY LenProperties
  <1> DEFINE Run(x, k) == /\ \A q \in (x - k)..(x - 1) : t[q] = "\\"
                          /\ x - k = 1 \/ t[x - k - 1] # "\\"
  <1>a. \A x \in Nat : IsEscaped(t, x) <=> \E n \in 1..(x - 1) : n % 2 = 1 /\ Run(x, n)
    BY DEF IsEscaped
  <1>b. IsEscaped(t, p + 1) <=> \E n \in 1..((p + 1) - 1) : n % 2 = 1 /\ Run(p + 1, n)
    <2>1. p + 1 \in Nat
      BY <1>0
    <2> HIDE DEF Run
    <2> QED
      BY <1>a, <2>1
  <1>1. ASSUME IsEscaped(t, p + 1), IsEscaped(t, p) PROVE FALSE
    <2>1. PICK n \in 1..((p + 1) - 1) : n % 2 = 1 /\ Run(p + 1, n)
      <3> HIDE DEF Run
      <3> QED
        BY <1>1, <1>b
    <2>2. PICK m \in 1..(p - 1) : m % 2 = 1 /\ Run(p, m)
      BY <1>0, <1>1, <1>a
    <2>3. n \in Nat /\ n <= p /\ n >= 1 /\ m \in Nat /\ m <= p - 1 /\ m >= 1
      BY <1>0
    <2>4. ASSUME m > n - 1 PROVE FALSE
      <3>1. p - n \in (p - m)..(p - 1) /\ (p + 1) - n # 1 /\ (p + 1) - n - 1 = p - n
        BY <1>0, <2>3, <2>4
      <3> QED
        BY <3>1, <2>1, <2>2
    <2>5. ASSUME m < n - 1 PROVE FALSE
      <3>1. p - m - 1 \in ((p + 1) - n)..((p + 1) - 1) /\ p - m # 1
        BY <1>0, <2>3, <2>5
      <3> QED
        BY <3>1, <2>1, <2>2
    <2>6. m # n - 1
      <3>1. n % 2 = 1 /\ m % 2 = 1
        BY <2>1, <2>2
      <3> HIDE DEF Run
      <3> QED
        BY <3>1, <2>3
    <2> QED
      BY <2>3, <2>4, <2>5, <2>6
  <1>2. ASSUME IsEscaped(t, p + 1) PROVE t[p] = "\\"
    <2>1. PICK n \in 1..((p + 1) - 1) : Run(p + 1, n)
      <3> HIDE DEF Run
      <3> QED
        BY <1>2, <1>b
    <2>2. p \in ((p + 1) - n)..((p + 1) - 1)
      BY <1>0
    <2> QED
      BY <2>1, <2>2
  <1>3. ASSUME t[p] = "\\", ~IsEscaped(t, p) PROVE IsEscaped(t, p + 1)
    <2> DEFINE I == {i \in 1..p : \A q \in i..p : t[q] = "\\"}
    <2>1. p \in I
      BY <1>0, <1>3
    <2>2. I \in SUBSET Nat
      OBVIOUS
    <2>3. Min(I) \in I /\ \A i \in I : Min(I) <= i
      BY <2>1, <2>2, MinInSet
    <2> DEFINE s == Min(I)
               n == (p + 1) - s
    <2>4. s \in 1..p /\ \A q \in s..p : t[q] = "\\"
      BY <2>3
    <2>5. s = 1 \/ t[s - 1] # "\\"
      <3> SUFFICES ASSUME s # 1, t[s - 1] = "\\" PROVE FALSE
        OBVIOUS
      <3>1. s - 1 \in 1..p
        BY <1>0, <2>4
      <3>2. \A q \in (s - 1)..p : q = s - 1 \/ q \in s..p
        BY <1>0, <2>4
      <3>3. s - 1 \in I
        BY <2>4, <3>1, <3>2
      <3>4. s <= s - 1
        BY <2>3, <3>3
      <3> QED
        BY <2>4, <3>4
    <2> HIDE DEF I, s
    <2>6. n \in 1..p /\ (p + 1) - n = s
      BY <1>0, <2>4
    <2>7. CASE n % 2 = 1
      <3>1. \A q \in ((p + 1) - n)..((p + 1) - 1) : t[q] = "\\"
        BY <1>0, <2>4, <2>6
      <3>2. (p + 1) - n = 1 \/ t[(p + 1) - n - 1] # "\\"
        BY <2>5, <2>6
      <3>3. Run(p + 1, n)
        BY <3>1, <3>2
      <3>4. n \in 1..((p + 1) - 1) /\ p + 1 \in Nat
        BY <1>0, <2>6
      <3> HIDE DEF Run, n
      <3> QED
        BY <2>7, <3>3, <3>4, <1>b
    <2>8. CASE n % 2 # 1
      <3>1. n - 1 \in 1..(p - 1) /\ (n - 1) % 2 = 1 /\ p - (n - 1) = s
        <4>1. n \in Nat /\ n >= 1 /\ n <= p /\ n % 2 # 1
          BY <2>6, <2>8, <1>0
        <4> HIDE DEF n
        <4>2. n # 1
          BY <4>1
        <4> QED
          BY <1>0, <2>6, <4>1, <4>2
      <3>2. \A q \in (p - (n - 1))..(p - 1) : t[q] = "\\"
        BY <1>0, <2>4, <3>1
      <3>3. p - (n - 1) = 1 \/ t[p - (n - 1) - 1] # "\\"
        BY <2>5, <3>1
      <3>4. IsEscaped(t, p)
        <4> HIDE DEF n
        <4>1. Run(p, n - 1)
          BY <3>2, <3>3
        <4> HIDE DEF Run
        <4> QED
          BY <1>0, <3>1, <4>1, <1>a
      <3> QED
        BY <1>3, <3>4
    <2> QED
      BY <2>7, <2>8
  <1> QED
    BY <1>1, <1>2, <1>3

\* Sets of positions between two others are finite.
LEMMA FiniteBetween ==
    ASSUME NEW a \in Int, NEW b \in Int, NEW S \in SUBSET (a..b)
    PROVE  IsFiniteSet(S) /\ Cardinality(S) \in Nat
  <1>1. IsFiniteSet(a..b)
    BY FS_Interval
  <1>2. IsFiniteSet(S)
    BY <1>1, FS_Subset
  <1> QED
    BY <1>2, FS_CardinalityType

\* The quotes before a position, one step further.
LEMMA QuotesNext ==
    ASSUME NEW t \in Seq(Token), NEW p \in DOMAIN t
    PROVE  InQuotes(t, p + 1) <=> IF t[p] = "\"" /\ ~IsEscaped(t, p) THEN ~InQuotes(t, p)
                                                                 ELSE InQuotes(t, p)
  <1>0. p \in Nat /\ p >= 1
    BY LenProperties
  <1>1. Quotes(t, p + 1) = IF t[p] = "\"" /\ ~IsEscaped(t, p) THEN Quotes(t, p) \cup {p} ELSE Quotes(t, p)
    <2>1. \A q : q \in 1..((p + 1) - 1) <=> q \in 1..(p - 1) \/ q = p
      BY <1>0
    <2> QED
      BY <2>1 DEF Quotes
  <1>2. IsFiniteSet(Quotes(t, p)) /\ p \notin Quotes(t, p) /\ Cardinality(Quotes(t, p)) \in Nat
    <2>1. Quotes(t, p) \subseteq 1..(p - 1)
      BY Zenon DEF Quotes
    <2>2. IsFiniteSet(Quotes(t, p)) /\ Cardinality(Quotes(t, p)) \in Nat
      <3>1. 1 \in Int /\ p - 1 \in Int
        BY <1>0
      <3> QED
        BY <2>1, <3>1, FiniteBetween, Zenon
    <2>3. p \notin 1..(p - 1)
      BY <1>0
    <2> QED
      BY <2>1, <2>2, <2>3
  <1>3. Cardinality(Quotes(t, p) \cup {p}) = Cardinality(Quotes(t, p)) + 1
    BY <1>2, FS_AddElement
  <1> DEFINE n == Cardinality(Quotes(t, p))
  <1>4. (n + 1) % 2 = 1 <=> ~(n % 2 = 1)
    <2>1. n \in Nat
      BY <1>2
    <2> HIDE DEF n
    <2> QED
      BY <2>1
  <1> QED
    BY <1>1, <1>3, <1>4 DEF InQuotes

\* The surplus of openers from q, one step further.
LEMMA BareOfNext ==
    ASSUME NEW t \in Seq(Token), NEW p \in DOMAIN t, NEW q \in 1..p, NEW S
    PROVE  /\ Cardinality(BareOf(t, S, q, p)) \in Nat
           /\ Cardinality(BareOf(t, S, q, p + 1))
                = Cardinality(BareOf(t, S, q, p)) + (IF t[p] \in S /\ Bare(t, p) THEN 1 ELSE 0)
  <1>0. p \in Nat /\ p >= 1 /\ q \in Nat
    BY LenProperties
  <1>1. BareOf(t, S, q, p + 1)
          = IF t[p] \in S /\ Bare(t, p) THEN BareOf(t, S, q, p) \cup {p} ELSE BareOf(t, S, q, p)
    <2>1. \A r : r \in q..((p + 1) - 1) <=> r \in q..(p - 1) \/ r = p
      BY <1>0
    <2> QED
      BY <2>1 DEF BareOf
  <1>2. /\ IsFiniteSet(BareOf(t, S, q, p)) /\ p \notin BareOf(t, S, q, p)
        /\ Cardinality(BareOf(t, S, q, p)) \in Nat
    <2>1. BareOf(t, S, q, p) \in SUBSET (q..(p - 1)) /\ p - 1 \in Int /\ q \in Int
      BY <1>0 DEF BareOf
    <2>2. IsFiniteSet(BareOf(t, S, q, p)) /\ Cardinality(BareOf(t, S, q, p)) \in Nat
      BY <2>1, FiniteBetween
    <2>3. p \notin q..(p - 1)
      BY <1>0
    <2> QED
      BY <2>1, <2>2, <2>3
  <1>3. Cardinality(BareOf(t, S, q, p) \cup {p}) = Cardinality(BareOf(t, S, q, p)) + 1
    BY <1>2, FS_AddElement
  <1> QED
    BY <1>1, <1>2, <1>3

\* Nothing lies between a position and itself.
LEMMA SurplusHere == ASSUME NEW t, NEW p \in Nat PROVE Surplus(t, p, p) = 0
  <1>1. \A S : BareOf(t, S, p, p) = {}
    BY DEF BareOf
  <1> QED
    BY <1>1, FS_EmptySet DEF Surplus

\* What a token adds to the surplus.
Weight(t, p) ==
    IF ~Bare(t, p) THEN 0 ELSE IF t[p] \in Openers THEN 1 ELSE IF t[p] \in Closers THEN -1 ELSE 0

\* One token more adds its weight.
LEMMA SurplusNext ==
    ASSUME NEW t \in Seq(Token), NEW p \in DOMAIN t, NEW q \in 1..p
    PROVE  Surplus(t, q, p) \in Int /\ Surplus(t, q, p + 1) = Surplus(t, q, p) + Weight(t, p)
  <1>1. t[p] \notin Openers \/ t[p] \notin Closers
    BY DEF Openers, Closers
  <1> DEFINE o == Cardinality(BareOf(t, Openers, q, p))
             c == Cardinality(BareOf(t, Closers, q, p))
  <1>2. /\ o \in Nat
        /\ Cardinality(BareOf(t, Openers, q, p + 1))
             = o + (IF t[p] \in Openers /\ Bare(t, p) THEN 1 ELSE 0)
    BY BareOfNext
  <1>3. /\ c \in Nat
        /\ Cardinality(BareOf(t, Closers, q, p + 1))
             = c + (IF t[p] \in Closers /\ Bare(t, p) THEN 1 ELSE 0)
    BY BareOfNext
  <1>4. Surplus(t, q, p) = o - c
    BY DEF Surplus
  <1>5. Surplus(t, q, p + 1)
          = (o + (IF t[p] \in Openers /\ Bare(t, p) THEN 1 ELSE 0))
             - (c + (IF t[p] \in Closers /\ Bare(t, p) THEN 1 ELSE 0))
    BY <1>2, <1>3 DEF Surplus
  <1>6. o \in Nat /\ c \in Nat
    BY <1>2, <1>3
  <1> HIDE DEF o, c
  <1> QED
    BY <1>1, <1>4, <1>5, <1>6 DEF Weight

\* The depth that is the largest surplus, one step further; without surplus it
\* is 0, as nothing lies between a position and itself.
LEMMA DepthNext ==
    ASSUME NEW t \in Seq(Token), NEW p \in DOMAIN t, NEW d \in Nat, LargestSurplus(t, p, d)
    PROVE  LargestSurplus(t, p + 1, IF d + Weight(t, p) < 0 THEN 0 ELSE d + Weight(t, p))
  <1>0. p \in Nat /\ p >= 1 /\ Weight(t, p) \in {-1, 0, 1}
    BY LenProperties DEF Weight
  <1>1. \A q \in 1..(p + 1) : q \in 1..p \/ q = p + 1
    BY <1>0
  <1>2. Surplus(t, p + 1, p + 1) = 0
    BY <1>0, SurplusHere
  <1>3. \A q \in 1..p : Surplus(t, q, p) \in Int /\ Surplus(t, q, p + 1) = Surplus(t, q, p) + Weight(t, p)
    BY SurplusNext
  <1>4. PICK q \in 1..p : Surplus(t, q, p) = d
    BY DEF LargestSurplus
  <1>5. \A r \in 1..p : Surplus(t, r, p) <= d
    BY DEF LargestSurplus
  <1> DEFINE e == IF d + Weight(t, p) < 0 THEN 0 ELSE d + Weight(t, p)
  <1>6. \A r \in 1..(p + 1) : Surplus(t, r, p + 1) <= e
    <2> SUFFICES ASSUME NEW r \in 1..(p + 1) PROVE Surplus(t, r, p + 1) <= e
      OBVIOUS
    <2>1. CASE r = p + 1
      BY <1>0, <1>2, <2>1
    <2>2. CASE r \in 1..p
      BY <1>0, <1>3, <1>5, <2>2
    <2> QED
      BY <1>1, <2>1, <2>2
  <1>7. \E r \in 1..(p + 1) : Surplus(t, r, p + 1) = e
    <2>1. CASE d + Weight(t, p) < 0
      <3>1. p + 1 \in 1..(p + 1)
        BY <1>0
      <3> QED
        BY <1>2, <2>1, <3>1
    <2>2. CASE ~(d + Weight(t, p) < 0)
      <3>1. q \in 1..(p + 1) /\ Surplus(t, q, p + 1) = d + Weight(t, p)
        BY <1>0, <1>3, <1>4
      <3> QED
        BY <2>2, <3>1
    <2> QED
      BY <2>1, <2>2
  <1> QED
    BY <1>6, <1>7 DEF LargestSurplus

\* Depth above 0 says that a position is in brackets.
LEMMA DepthIsInBrackets ==
    ASSUME NEW t, NEW p \in Nat, p >= 1, NEW d \in Nat, LargestSurplus(t, p, d)
    PROVE  InBrackets(t, p) <=> d > 0
  <1>1. \A q \in 1..p : q \in 1..(p - 1) \/ q = p
    OBVIOUS
  <1>2. Surplus(t, p, p) = 0
    BY SurplusHere
  <1>3. \A q \in 1..p : Surplus(t, q, p) \in Int
    <2> SUFFICES ASSUME NEW q \in 1..p PROVE Surplus(t, q, p) \in Int
      OBVIOUS
    <2>1. \A S : Cardinality(BareOf(t, S, q, p)) \in Nat
      <3> SUFFICES ASSUME NEW S PROVE Cardinality(BareOf(t, S, q, p)) \in Nat
        OBVIOUS
      <3>1. BareOf(t, S, q, p) \in SUBSET (q..(p - 1)) /\ p - 1 \in Int /\ q \in Int
        BY DEF BareOf
      <3> QED
        BY <3>1, FiniteBetween
    <2> QED
      BY <2>1 DEF Surplus
  <1>4. ASSUME d > 0 PROVE InBrackets(t, p)
    BY <1>1, <1>2, <1>4 DEF LargestSurplus, InBrackets
  <1>5. ASSUME InBrackets(t, p) PROVE d > 0
    <2>1. PICK q \in 1..(p - 1) : Surplus(t, q, p) > 0
      BY <1>5 DEF InBrackets
    <2>2. q \in 1..p /\ Surplus(t, q, p) <= d /\ Surplus(t, q, p) \in Int
      BY <1>3 DEF LargestSurplus
    <2> QED
      BY <2>1, <2>2
  <1> QED
    BY <1>4, <1>5

-----------------------------------------------------------------------------
\* The stretch of a text up to the next token.
LEMMA SubSeqNext ==
    ASSUME NEW t \in Seq(Token), NEW p \in DOMAIN t, NEW s \in 1..p
    PROVE  SubSeq(t, s, p) = Append(SubSeq(t, s, p - 1), t[p])
  <1>0. p \in Nat /\ p >= 1 /\ s \in Nat /\ p <= Len(t) /\ Len(t) \in Nat
    BY LenProperties
  <1> DEFINE short == SubSeq(t, s, p - 1)
             long == SubSeq(t, s, p)
  <1>1. short \in Seq(Token) /\ Len(short) = p - s /\ \A i \in 1..(p - s) : short[i] = t[s + i - 1]
    BY <1>0
  <1>2. long \in Seq(Token) /\ Len(long) = p - s + 1 /\ \A i \in 1..(p - s + 1) : long[i] = t[s + i - 1]
    BY <1>0
  <1>3. t[p] \in Token
    BY ElementOfSeq, LenProperties
  <1> HIDE DEF short, long
  <1>4. /\ Append(short, t[p]) \in Seq(Token) /\ Len(Append(short, t[p])) = p - s + 1
        /\ \A i \in 1..(p - s) : Append(short, t[p])[i] = short[i]
        /\ Append(short, t[p])[p - s + 1] = t[p]
    BY <1>0, <1>1, <1>3
  <1>5. \A i \in 1..(p - s + 1) : long[i] = Append(short, t[p])[i]
    <2> SUFFICES ASSUME NEW i \in 1..(p - s + 1) PROVE long[i] = Append(short, t[p])[i]
      OBVIOUS
    <2>1. CASE i \in 1..(p - s)
      BY <1>0, <1>1, <1>2, <1>4, <2>1
    <2>2. CASE i = p - s + 1
      <3>1. s + i - 1 = p
        BY <1>0, <2>2
      <3> QED
        BY <1>2, <1>4, <2>2, <3>1
    <2>3. i \in 1..(p - s) \/ i = p - s + 1
      BY <1>0
    <2> QED
      BY <2>1, <2>2, <2>3
  <1> QED
    BY <1>2, <1>4, <1>5, SeqEqual DEF short, long

\* The invariant holds before the first token.
LEMMA InitIInv == Init => IInv
  <1> SUFFICES ASSUME Init PROVE IInv
    OBVIOUS
  <1> USE DEF Init
  <1>1. Len(text) \in Nat /\ text \in Seq(Token)
    BY LenProperties
  <1>2. TypeOK
    <2>1. sep \in {";", ","}
      BY DEF Separator
    <2>2. pos \in 1..(Len(text) + 1)
      BY <1>1
    <2>3. parts \in Seq(Seq(Token)) /\ current \in Seq(Token) /\ cuts \in Seq(Nat)
      OBVIOUS
    <2> QED
      BY <1>1, <2>1, <2>2, <2>3 DEF TypeOK
  <1>3. Lossless
    <2>1. SubSeq(text, 1, 0) = <<>>
      BY <1>1
    <2> QED
      BY <2>1 DEF Lossless, Start
  <1>4. EscapedIsOdd
    BY DEF EscapedIsOdd, IsEscaped
  <1>5. QuoteIsOdd
    <2>1. Quotes(text, 1) = {}
      BY DEF Quotes
    <2>2. Cardinality(Quotes(text, 1)) = 0
      BY <2>1, FS_EmptySet
    <2> QED
      BY <2>2 DEF QuoteIsOdd, InQuotes
  <1>6. DepthIsSurplus
    <2>1. Surplus(text, 1, 1) = 0
      BY SurplusHere
    <2> QED
      BY <2>1 DEF DepthIsSurplus, LargestSurplus
  <1>7. CutsSoFar
    BY DEF CutsSoFar, ToSet
  <1> QED
    BY <1>2, <1>3, <1>4, <1>5, <1>6, <1>7 DEF IInv

\* What is said about positions only depends on the text and the separator.
LEMMA SameText ==
    ASSUME text' = text, sep' = sep
    PROVE  /\ \A p : IsEscaped(text, p)' <=> IsEscaped(text, p)
           /\ \A p : InQuotes(text, p)' <=> InQuotes(text, p)
           /\ \A p, q : Surplus(text, q, p)' = Surplus(text, q, p)
           /\ \A p : AtTopLevel(p)' <=> AtTopLevel(p)
  <1>1. \A p : IsEscaped(text, p)' <=> IsEscaped(text, p)
    BY DEF IsEscaped
  <1>2. \A p : Quotes(text, p)' = Quotes(text, p)
    BY <1>1 DEF Quotes
  <1>3. \A p : InQuotes(text, p)' <=> InQuotes(text, p)
    BY <1>2 DEF InQuotes
  <1>4. \A p : Bare(text, p)' <=> Bare(text, p)
    BY <1>1, <1>3 DEF Bare
  <1>5. \A S, q, p : BareOf(text, S, q, p)' = BareOf(text, S, q, p)
    BY <1>4 DEF BareOf
  <1>6. \A p, q : Surplus(text, q, p)' = Surplus(text, q, p)
    BY <1>5 DEF Surplus
  <1>7. \A p : AtTopLevel(p)' <=> AtTopLevel(p)
    BY <1>4, <1>6 DEF AtTopLevel, InBrackets
  <1> QED
    BY <1>1, <1>3, <1>6, <1>7

(***************************************************************************)
(* One iteration of the loop in terms of what the flags stand for: it cuts *)
(* exactly at a separator at the top level, and collects everything else.  *)
(***************************************************************************)
CutHere ==
    /\ parts' = Append(parts, current) /\ current' = <<>> /\ cuts' = Append(cuts, pos)
CollectHere ==
    /\ UNCHANGED <<parts, cuts>> /\ current' = Append(current, text[pos])
Advance == text' = text /\ sep' = sep /\ pos \in DOMAIN text /\ pos' = pos + 1
Flip ==
    /\ escaped' <=> text[pos] = "\\" /\ ~escaped
    /\ quote' <=> IF text[pos] = "\"" /\ ~escaped THEN ~quote ELSE quote
Deepen == depth' = IF depth + Weight(text, pos) < 0 THEN 0 ELSE depth + Weight(text, pos)
Iteration ==
    Advance /\ Flip /\ Deepen /\ (IF AtTopLevel(pos) THEN CutHere ELSE CollectHere)

\* The flags at the next token.
LEMMA Flags ==
    ASSUME IInv, pos \in DOMAIN text
    PROVE  /\ Bare(text, pos) <=> ~escaped /\ ~quote
           /\ InBrackets(text, pos) <=> depth > 0
           /\ AtTopLevel(pos) <=> text[pos] = sep /\ ~escaped /\ ~quote /\ depth = 0
           /\ depth \in Nat /\ sep \in {";", ","}
  <1>1. Bare(text, pos) <=> ~escaped /\ ~quote
    BY DEF IInv, EscapedIsOdd, QuoteIsOdd, Bare
  <1>2. /\ depth \in Nat /\ sep \in {";", ","}
        /\ pos \in Nat /\ pos >= 1
    <2>1. depth \in Nat /\ sep \in {";", ","} /\ text \in Seq(Token)
      BY DEF IInv, TypeOK
    <2>2. pos \in 1..Len(text) /\ Len(text) \in Nat
      BY <2>1, LenProperties
    <2>3. pos \in Nat /\ pos >= 1
      BY <2>2
    <2> QED
      BY <2>1, <2>3, Zenon
  <1>3. InBrackets(text, pos) <=> depth > 0
    BY <1>2, DepthIsInBrackets DEF IInv, DepthIsSurplus
  <1>4. AtTopLevel(pos) <=> text[pos] = sep /\ Bare(text, pos) /\ ~InBrackets(text, pos)
    BY Zenon DEF AtTopLevel
  <1>5. ~InBrackets(text, pos) <=> depth = 0
    <2>0. depth \in Nat
      BY <1>2
    <2>1. depth > 0 <=> ~(depth = 0)
      BY <2>0
    <2> QED
      BY <1>3, <2>1, Zenon
  <1> QED
    BY <1>1, <1>2, <1>3, <1>4, <1>5, Zenon

\* Each action is such an iteration.
LEMMA NextIsIteration ==
    ASSUME IInv, Next
    PROVE  Iteration
  <1> DEFINE w == Weight(text, pos)
             ch == text[pos]
  <1>0. text \in Seq(Token) /\ Len(text) \in Nat /\ pos \in 1..(Len(text) + 1)
    BY LenProperties DEF IInv, TypeOK
  <1>1. Advance
    <2>1. pos <= Len(text)
      BY DEF Next, Escaped, Backslash, Quote, Plain, Cut, More
    <2>2. pos \in DOMAIN text
      BY <1>0, <2>1, LenProperties
    <2> QED
      BY <2>2 DEF Next, Escaped, Backslash, Quote, Plain, Cut, Advance
  <1>2. escaped \in BOOLEAN /\ quote \in BOOLEAN
    BY DEF IInv, TypeOK
  <1>3. /\ depth \in Nat /\ sep \in {";", ","}
        /\ Bare(text, pos) <=> ~escaped /\ ~quote
        /\ AtTopLevel(pos) <=> ch = sep /\ ~escaped /\ ~quote /\ depth = 0
    BY <1>1, Flags DEF Advance
  <1>4. w = IF escaped \/ quote THEN 0
            ELSE IF ch \in Openers THEN 1 ELSE IF ch \in Closers THEN -1 ELSE 0
    BY <1>3 DEF Weight
  <1>5. {"\\", "\"", ";", ","} \cap (Openers \cup Closers) = {}
    BY DEF Openers, Closers
  <1>d. depth \in Nat
    BY <1>3
  <1>k. ASSUME depth' = depth, w = 0 PROVE Deepen
    BY <1>d, <1>k DEF Deepen
  <1>c. ASSUME Collect, UNCHANGED <<parts, cuts>> PROVE CollectHere
    BY <1>c DEF Collect, CollectHere, Ch
  <1>6. ASSUME Escaped PROVE Iteration
    <2>1. escaped
      BY <1>6, Zenon DEF Escaped
    <2>2. w = 0 /\ ~AtTopLevel(pos)
      <3> HIDE DEF w, ch
      <3> QED
        BY <1>3, <1>4, <2>1
    <2>3. depth' = depth /\ Collect /\ UNCHANGED <<parts, cuts>>
      BY <1>6 DEF Escaped
    <2>4. Flip
      BY <1>6, <2>1, Zenon DEF Escaped, Flip
    <2> HIDE DEF w, ch
    <2> QED
      BY <1>1, <1>k, <1>c, <2>2, <2>3, <2>4 DEF Iteration
  <1>7. ASSUME Backslash PROVE Iteration
    <2>1. ~escaped /\ ch = "\\"
      BY <1>7, Zenon DEF Backslash, Ch
    <2>2. w = 0 /\ ~AtTopLevel(pos)
      <3> HIDE DEF w, ch
      <3> QED
        BY <1>3, <1>4, <1>5, <2>1
    <2>3. depth' = depth /\ Collect /\ UNCHANGED <<parts, cuts>>
      BY <1>7 DEF Backslash
    <2>4. Flip
      <3>1. escaped' = TRUE /\ quote' = quote
        BY <1>7, Zenon DEF Backslash
      <3>2. "\\" # "\""
        OBVIOUS
      <3> QED
        BY <2>1, <3>1, <3>2, Zenon DEF Flip
    <2> HIDE DEF w, ch
    <2> QED
      BY <1>1, <1>k, <1>c, <2>2, <2>3, <2>4 DEF Iteration
  <1>8. ASSUME Quote PROVE Iteration
    <2>1. ~escaped /\ ch = "\""
      BY <1>8, Zenon DEF Quote, Ch
    <2>2. w = 0 /\ ~AtTopLevel(pos)
      <3> HIDE DEF w, ch
      <3> QED
        BY <1>3, <1>4, <1>5, <2>1
    <2>3. depth' = depth /\ Collect /\ UNCHANGED <<parts, cuts>>
      BY <1>8 DEF Quote
    <2>4. Flip
      <3>1. quote' = ~quote /\ escaped' = escaped
        BY <1>8, Zenon DEF Quote
      <3>2. "\\" # "\""
        OBVIOUS
      <3> QED
        BY <2>1, <3>1, <3>2, Zenon DEF Flip
    <2> HIDE DEF w, ch
    <2> QED
      BY <1>1, <1>k, <1>c, <2>2, <2>3, <2>4 DEF Iteration
  <1>9. ASSUME Plain PROVE Iteration
    <2>1. ~escaped /\ ch # "\\" /\ ch # "\"" /\ ~(~quote /\ ch = sep /\ depth = 0)
      BY <1>9, Zenon DEF Plain, Cuts, Ch
    <2>2. ~AtTopLevel(pos) /\ Collect /\ UNCHANGED <<parts, cuts>>
      BY <1>3, <1>9, <2>1, Zenon DEF Plain
    <2>3. depth' = IF quote THEN depth
                   ELSE IF ch \in Openers THEN depth + 1
                   ELSE IF ch \in Closers /\ depth > 0 THEN depth - 1 ELSE depth
      BY <1>9, Zenon DEF Plain, DepthAfter, Ch
    <2>4. Deepen
      <3> HIDE DEF ch
      <3>1. w = IF quote THEN 0
                ELSE IF ch \in Openers THEN 1 ELSE IF ch \in Closers THEN -1 ELSE 0
        BY <1>4, <2>1, Zenon
      <3> HIDE DEF w
      <3>2. depth' = IF depth + w < 0 THEN 0 ELSE depth + w
        BY <1>d, <2>3, <3>1
      <3> QED
        BY <3>2, Zenon DEF Deepen, w
    <2>5. Flip
      <3>1. escaped' = escaped /\ quote' = quote
        BY <1>9, Zenon DEF Plain
      <3> QED
        BY <2>1, <3>1, Zenon DEF Flip
    <2> HIDE DEF w, ch
    <2> QED
      BY <1>1, <1>c, <2>2, <2>4, <2>5 DEF Iteration
  <1>10. ASSUME Cut PROVE Iteration
    <2>1. ~escaped /\ ch # "\\" /\ ch # "\"" /\ ~quote /\ ch = sep /\ depth = 0
      BY <1>10, Zenon DEF Cut, Cuts, Ch
    <2>2. w = 0 /\ AtTopLevel(pos)
      <3> HIDE DEF w, ch
      <3> QED
        BY <1>3, <1>4, <1>5, <2>1
    <2>3. depth' = depth /\ CutHere
      BY <1>10 DEF Cut, CutHere
    <2>4. Flip
      <3>1. escaped' = escaped /\ quote' = quote
        BY <1>10, Zenon DEF Cut
      <3> QED
        BY <2>1, <3>1, Zenon DEF Flip
    <2> HIDE DEF w, ch
    <2> QED
      BY <1>1, <1>k, <2>2, <2>3, <2>4 DEF Iteration
  <1> QED
    BY <1>6, <1>7, <1>8, <1>9, <1>10 DEF Next

\* An iteration keeps the invariant.
LEMMA IterationKeepsIInv ==
    ASSUME IInv, Iteration
    PROVE  /\ escaped' <=> IsEscaped(text, pos)'
           /\ quote' <=> InQuotes(text, pos)'
           /\ DepthIsSurplus'
           /\ CutsSoFar'
           /\ Lossless'
  <1>0. /\ text \in Seq(Token) /\ Len(text) \in Nat /\ pos \in 1..Len(text)
        /\ depth \in Nat /\ parts \in Seq(Seq(Token)) /\ current \in Seq(Token)
        /\ cuts \in Seq(Nat)
    BY LenProperties DEF IInv, TypeOK, Iteration, Advance
  <1>1. text' = text /\ sep' = sep /\ pos' = pos + 1 /\ pos \in DOMAIN text
    BY DEF Iteration, Advance
  <1>2. escaped' <=> IsEscaped(text, pos)'
    <2>1. escaped <=> IsEscaped(text, pos)
      BY DEF IInv, EscapedIsOdd
    <2>2. escaped' <=> IsEscaped(text, pos + 1)
      BY <1>0, <1>1, <2>1, EscapedNext, Zenon DEF Iteration, Flip
    <2> QED
      BY <1>1, <2>2, SameText
  <1>3. quote' <=> InQuotes(text, pos)'
    <2>1. (quote <=> InQuotes(text, pos)) /\ (escaped <=> IsEscaped(text, pos))
      BY DEF IInv, QuoteIsOdd, EscapedIsOdd
    <2>2. quote' <=> InQuotes(text, pos + 1)
      BY <1>0, <1>1, <2>1, QuotesNext, Zenon DEF Iteration, Flip
    <2> QED
      BY <1>1, <2>2, SameText
  <1>4. DepthIsSurplus'
    <2>1. LargestSurplus(text, pos + 1, depth')
      BY <1>0, <1>1, DepthNext, Zenon DEF Iteration, Deepen, IInv, DepthIsSurplus
    <2> QED
      BY <1>1, <2>1, SameText DEF DepthIsSurplus, LargestSurplus
  <1>5. CutsSoFar'
    <2>1. ToSet(cuts) = {p \in 1..(pos - 1) : AtTopLevel(p)}
      BY DEF IInv, CutsSoFar
    <2>2. ToSet(cuts') = IF AtTopLevel(pos) THEN ToSet(cuts) \cup {pos} ELSE ToSet(cuts)
      <3>1. CASE AtTopLevel(pos)
        <4>1. cuts' = Append(cuts, pos)
          BY <3>1 DEF Iteration, CutHere
        <4>2. ToSet(Append(cuts, pos)) = ToSet(cuts) \cup {pos}
          <5>1. pos \in Nat
            BY <1>0
          <5>2. \A s \in Seq(Nat), e \in Nat : ToSet(Append(s, e)) = ToSet(s) \cup {e}
            BY AppendSet
          <5> QED
            BY <1>0, <5>1, <5>2
        <4> QED
          BY <3>1, <4>1, <4>2
      <3>2. CASE ~AtTopLevel(pos)
        BY <3>2 DEF Iteration, CollectHere
      <3> QED
        BY <3>1, <3>2
    <2>3. \A p : p \in 1..((pos + 1) - 1) <=> p \in 1..(pos - 1) \/ p = pos
      BY <1>0
    <2>4. ToSet(cuts') = {p \in 1..((pos + 1) - 1) : AtTopLevel(p)}
      BY <2>1, <2>2, <2>3
    <2>5. \A p : AtTopLevel(p)' <=> AtTopLevel(p)
      BY <1>1, SameText
    <2>6. ToSet(cuts') = {p \in 1..(pos' - 1) : AtTopLevel(p)'}
      BY <1>1, <2>4, <2>5
    <2>7. ToSet(cuts)' = ToSet(cuts')
      BY DEF ToSet
    <2> QED
      BY <2>6, <2>7 DEF CutsSoFar
  <1>6. Lossless'
    <2>0. /\ Len(cuts) = Len(parts)
          /\ \A i \in 1..Len(parts) :
                /\ cuts[i] \in 1..(pos - 1) /\ text[cuts[i]] = sep
                /\ parts[i] = SubSeq(text, Start(i), cuts[i] - 1)
          /\ current = SubSeq(text, Start(Len(parts) + 1), pos - 1)
      BY DEF IInv, Lossless
    <2>1. PICK k \in Nat : Len(parts) = k /\ Len(cuts) = k
      BY <1>0, <2>0, LenProperties
    <2>2. Start(k + 1) \in 1..pos
      <3>1. k # 0 => cuts[k] \in 1..(pos - 1)
        BY <2>0, <2>1
      <3>2. Start(k + 1) = IF k = 0 THEN 1 ELSE cuts[k] + 1
        BY <2>1 DEF Start
      <3> QED
        BY <1>0, <3>1, <3>2, <2>1
    <2>3. CASE ~AtTopLevel(pos)
      <3>1. parts' = parts /\ cuts' = cuts /\ current' = Append(current, text[pos])
        BY <2>3 DEF Iteration, CollectHere
      <3>2. current' = SubSeq(text, Start(k + 1), pos)
        BY <1>0, <1>1, <2>0, <2>1, <2>2, <3>1, SubSeqNext
      <3>3. \A i : Start(i)' = Start(i)
        BY <3>1 DEF Start
      <3>4. pos' - 1 = pos /\ \A i \in 1..(pos - 1) : i \in 1..pos
        BY <1>0, <1>1
      <3> QED
        BY <1>1, <2>0, <2>1, <3>1, <3>2, <3>3, <3>4 DEF Lossless
    <2>4. CASE AtTopLevel(pos)
      <3>1. parts' = Append(parts, current) /\ cuts' = Append(cuts, pos) /\ current' = <<>>
        BY <2>4 DEF Iteration, CutHere
      <3>2. /\ Len(parts') = k + 1 /\ Len(cuts') = k + 1
            /\ \A i \in 1..k : parts'[i] = parts[i] /\ cuts'[i] = cuts[i]
            /\ parts'[k + 1] = current /\ cuts'[k + 1] = pos
        BY <1>0, <2>1, <3>1
      <3>3. \A i \in 1..(k + 1) : Start(i)' = Start(i)
        <4>1. \A i \in 1..(k + 1) : i # 1 => i - 1 \in 1..k
          BY <2>1
        <4> QED
          BY <3>2, <4>1 DEF Start
      <3>4. Start(k + 2)' = pos + 1
        <4>1. k + 2 # 1 /\ (k + 2) - 1 = k + 1
          BY <2>1
        <4> QED
          BY <3>2, <4>1 DEF Start
      <3>5. current' = SubSeq(text, pos + 1, pos)
        BY <1>0, <3>1
      <3>6. \A i \in 1..(k + 1) :
               /\ cuts'[i] \in 1..pos /\ text[cuts'[i]] = sep
               /\ parts'[i] = SubSeq(text, Start(i), cuts'[i] - 1)
        <4> SUFFICES ASSUME NEW i \in 1..(k + 1)
                     PROVE  /\ cuts'[i] \in 1..pos /\ text[cuts'[i]] = sep
                            /\ parts'[i] = SubSeq(text, Start(i), cuts'[i] - 1)
          OBVIOUS
        <4>1. CASE i \in 1..k
          <5>1. cuts[i] \in 1..(pos - 1) /\ text[cuts[i]] = sep
                  /\ parts[i] = SubSeq(text, Start(i), cuts[i] - 1)
            BY <2>0, <2>1, <4>1
          <5>2. cuts[i] \in 1..pos
            BY <1>0, <5>1
          <5> QED
            BY <3>2, <4>1, <5>1, <5>2
        <4>2. CASE i = k + 1
          BY <1>0, <2>0, <2>1, <2>4, <3>2, <4>2 DEF AtTopLevel
        <4>3. i \in 1..k \/ i = k + 1
          BY <2>1
        <4> QED
          BY <4>1, <4>2, <4>3
      <3>7. pos' - 1 = pos /\ (k + 1) + 1 = k + 2
        BY <1>0, <1>1, <2>1
      <3> QED
        BY <1>1, <3>2, <3>3, <3>4, <3>5, <3>6, <3>7 DEF Lossless
    <2> QED
      BY <2>3, <2>4
  <1> QED
    BY <1>2, <1>3, <1>4, <1>5, <1>6

\* An iteration keeps the types.
LEMMA IterationKeepsTypes ==
    ASSUME IInv, Next
    PROVE  TypeOK'
  <1>1. Iteration
    BY NextIsIteration
  <1>2. /\ text \in Seq(Token) /\ Len(text) \in Nat /\ pos \in 1..Len(text)
        /\ depth \in Nat
        /\ parts \in Seq(Seq(Token)) /\ current \in Seq(Token) /\ cuts \in Seq(Nat)
    BY <1>1, LenProperties DEF IInv, TypeOK, Iteration, Advance
  <1>3. text' \in Seq(Token) /\ sep' \in {";", ","} /\ pos' \in 1..(Len(text') + 1)
    <2>1. text' = text /\ sep' = sep /\ pos' = pos + 1
      BY <1>1 DEF Iteration, Advance
    <2>2. pos + 1 \in 1..(Len(text) + 1)
      BY <1>2
    <2>3. sep \in {";", ","}
      BY DEF IInv, TypeOK
    <2> QED
      BY <1>2, <2>1, <2>2, <2>3
  <1>4. depth' \in Nat
    <2>1. Weight(text, pos) \in Int
      BY DEF Weight
    <2>2. depth' = IF depth + Weight(text, pos) < 0 THEN 0 ELSE depth + Weight(text, pos)
      BY <1>1 DEF Iteration, Deepen
    <2>3. depth \in Nat
      BY <1>2
    <2> QED
      BY <2>1, <2>2, <2>3
  <1>5. parts' \in Seq(Seq(Token)) /\ current' \in Seq(Token) /\ cuts' \in Seq(Nat)
    <2>1. text[pos] \in Token /\ pos \in Nat
      BY <1>2, ElementOfSeq
    <2>2. CASE AtTopLevel(pos)
      <3>1. CutHere
        BY <1>1, <2>2, Zenon DEF Iteration
      <3>2. Append(parts, current) \in Seq(Seq(Token)) /\ Append(cuts, pos) \in Seq(Nat)
        BY <1>2, <2>1
      <3>3. <<>> \in Seq(Token)
        OBVIOUS
      <3> QED
        BY <3>1, <3>2, <3>3, Zenon DEF CutHere
    <2>3. CASE ~AtTopLevel(pos)
      <3>1. CollectHere
        BY <1>1, <2>3, Zenon DEF Iteration
      <3>2. Append(current, text[pos]) \in Seq(Token)
        BY <1>2, <2>1
      <3> QED
        BY <1>2, <3>1, <3>2 DEF CollectHere
    <2> QED
      BY <2>2, <2>3
  <1>6. quote' \in BOOLEAN /\ escaped' \in BOOLEAN
    <2>1. quote \in BOOLEAN /\ escaped \in BOOLEAN
      BY DEF IInv, TypeOK
    <2> QED
      BY <2>1, Zenon DEF Next, Escaped, Backslash, Quote, Plain, Cut
  <1> QED
    BY <1>3, <1>4, <1>5, <1>6 DEF TypeOK

\* Every step keeps the invariant.
LEMMA NextIInv == IInv /\ [Next]_vars => IInv'
  <1> SUFFICES ASSUME IInv, [Next]_vars PROVE IInv'
    OBVIOUS
  <1>1. CASE Next
    <2>1. Iteration
      BY <1>1, NextIsIteration
    <2>2. TypeOK'
      BY <1>1, IterationKeepsTypes
    <2>3. EscapedIsOdd' /\ QuoteIsOdd' /\ DepthIsSurplus' /\ CutsSoFar' /\ Lossless'
      BY <2>1, IterationKeepsIInv DEF EscapedIsOdd, QuoteIsOdd
    <2> QED
      BY <2>2, <2>3 DEF IInv
  <1>2. CASE UNCHANGED vars
    <2>1. TypeOK' /\ Lossless'
      BY <1>2 DEF vars, IInv, TypeOK, Lossless, Start
    <2>2. text' = text /\ sep' = sep
      BY <1>2 DEF vars
    <2>3. EscapedIsOdd' /\ QuoteIsOdd'
      BY <1>2, <2>2, SameText DEF vars, IInv, EscapedIsOdd, QuoteIsOdd
    <2>4. DepthIsSurplus'
      BY <1>2, <2>2, SameText DEF vars, IInv, DepthIsSurplus, LargestSurplus
    <2>5. CutsSoFar'
      <3>1. ToSet(cuts)' = ToSet(cuts)
        BY <1>2 DEF vars, ToSet
      <3>2. \A p : AtTopLevel(p)' <=> AtTopLevel(p)
        BY <2>2, SameText
      <3>3. pos' = pos
        BY <1>2 DEF vars
      <3> QED
        BY <3>1, <3>2, <3>3 DEF IInv, CutsSoFar
    <2> QED
      BY <2>1, <2>3, <2>4, <2>5 DEF IInv
  <1> QED
    BY <1>1, <1>2

\* The invariant holds in every state.
LEMMA IInvHolds == Spec => []IInv
  <1> QED
    BY InitIInv, NextIInv, PTL DEF Spec

-----------------------------------------------------------------------------
\* The types of the splitter's state, for every text.
THEOREM TypesHold == Spec => []TypeOK
  <1>1. IInv => TypeOK
    BY DEF IInv
  <1> QED
    BY <1>1, IInvHolds, PTL

(***************************************************************************)
(* _split_top_level cuts every text, in order or not, at exactly the       *)
(* separators at its top level, and neither loses nor adds anything.       *)
(***************************************************************************)
THEOREM SplitsEverywhere == Spec => []SplitsAtTopLevel
  <1>1. IInv => SplitsAtTopLevel
    <2> SUFFICES ASSUME IInv, Done PROVE ToSet(cuts) = {p \in DOMAIN text : AtTopLevel(p)}
      BY DEF SplitsAtTopLevel, CutsAtTopLevel, IInv
    <2>1. ToSet(cuts) = {p \in 1..(pos - 1) : AtTopLevel(p)}
      BY DEF IInv, CutsSoFar
    <2>2. text \in Seq(Token) /\ pos \in 1..(Len(text) + 1) /\ ~(pos <= Len(text))
      BY DEF IInv, TypeOK, Done, More
    <2>3. Len(text) \in Nat /\ DOMAIN text = 1..Len(text)
      BY <2>2, LenProperties
    <2>4. 1..(pos - 1) = DOMAIN text
      <3>1. pos - 1 = Len(text)
        BY <2>2, <2>3
      <3> QED
        BY <2>3, <3>1
    <2> QED
      BY <2>1, <2>4
  <1> QED
    BY <1>1, IInvHolds, PTL
-----------------------------------------------------------------------------
(***************************************************************************)
(* What grab takes from a text, against what the text was written for.     *)
(* The invariant says how far the splitter has come in the items: within   *)
(* an item it has collected the tokens of that item so far, and its flags  *)
(* are what they would be if the text began there.  After the items it may *)
(* only append.                                                            *)
(***************************************************************************)

\* The items one after the other, with their separators, and then the noise.
Units == Ended(written)
Count == Len(written.items)
Item(i) == ItemTokens(written, i)
AsWritten ==
    /\ written \in Body \cup Parents
    /\ text = Concatenated(Units) \o written.noise
    /\ sep = Separator(written.kind)

\* The next token is the j-th of the i-th item, or the separator after it.
Found(m) == m <= Len(parts) /\ \A i \in 1..m : parts[i] = Item(i)
Within(i, j) ==
    /\ pos = Ahead(Units, i) + j
    /\ Len(parts) = i - 1 /\ Found(i - 1)
    /\ current = SubSeq(Item(i), 1, j - 1)
    /\ escaped <=> IsEscaped(Item(i), j)
    /\ quote <=> InQuotes(Item(i), j)
    /\ depth = Surplus(Item(i), 1, j)

\* All items have been collected, the last one perhaps without a separator.
Behind ==
    /\ pos > Ahead(Units, Count + 1)
    /\ IF written.kind = "body" \/ Count = 0
       THEN /\ Found(Count)
            /\ pos = Ahead(Units, Count + 1) + 1 => Len(parts) = Count /\ current = <<>>
       ELSE Len(parts) = Count - 1 /\ Found(Count - 1) /\ current = Item(Count)

Progress == Behind \/ \E i \in 1..Count : \E j \in DOMAIN Units[i] : Within(i, j)

\* The tokens of a statement ...
LEMMA StatementType ==
    ASSUME NEW s \in Statement
    PROVE  /\ StatementTokens(s) \in Seq(Token) /\ Len(StatementTokens(s)) >= 1
           /\ Balanced(StatementTokens(s), ";")
           /\ s.left.tokens \in Seq(Token)
           /\ s.value # None => /\ s.value \in Seq(Token)
                                /\ StatementTokens(s) = s.left.tokens \o (<<"=">> \o s.value)
           /\ s.value = None => StatementTokens(s) = s.left.tokens
  <1>1. s.left \in Lefts /\ s.value \in Values \cup {None}
    BY DEF Statement
  <1> DEFINE l == s.left.tokens
             v == s.value
  <1>2. l \in Seq(Token) /\ Len(l) \in Nat /\ Len(l) >= 1
    <2>1. l \in Seq(Token \ {"="}) /\ \E k \in DOMAIN l : l[k] = s.left.name
      BY <1>1, TextAssumption
    <2>2. l \in Seq(Token)
      BY <2>1
    <2> HIDE DEF l
    <2>3. DOMAIN l = 1..Len(l) /\ Len(l) \in Nat
      BY <2>2, LenProperties
    <2> QED
      BY <2>1, <2>2, <2>3
  <1>3. "=" \in Token
    BY DEF Token
  <1> HIDE DEF l
  <1>4. CASE v = None
    <2>1. StatementTokens(s) = l
      <3>1. StatementTokens(s) = l \o <<>>
        BY <1>4 DEF StatementTokens, l
      <3> QED
        BY <1>2, <3>1, ConcatEmptySeq
    <2> QED
      BY <1>2, <1>4, <2>1, OrderAssumption DEF l
  <1>5. CASE v # None
    <2>1. v \in Seq(Token)
      BY <1>1, <1>5, TextAssumption
    <2> HIDE DEF v
    <2>2. <<"=">> \o v \in Seq(Token)
      BY <1>3, <2>1
    <2>3. l \o (<<"=">> \o v) \in Seq(Token) /\ Len(l \o (<<"=">> \o v)) >= 1
      BY <1>2, <2>2
    <2>4. StatementTokens(s) = l \o (<<"=">> \o v)
      BY <1>5 DEF StatementTokens, l, v
    <2> QED
      BY <1>2, <1>5, <2>1, <2>3, <2>4, OrderAssumption DEF l, v
  <1> QED
    BY <1>4, <1>5

\* ... and of a reference to a class.
LEMMA DerivationType ==
    ASSUME NEW d \in Derivation
    PROVE  /\ DerivationTokens(d) \in Seq(Token) /\ Len(DerivationTokens(d)) >= 1
           /\ Balanced(DerivationTokens(d), ",")
           /\ DerivationTokens(d)[1] = d.base /\ d.base \in Ident
  <1>1. d.base \in Ident /\ d.args \in Values \cup {None}
    BY DEF Derivation
  <1>2. d.base \in Token /\ "<" \in Token /\ ">" \in Token
    BY <1>1 DEF Token, Openers, Closers
  <1> DEFINE rest == IF d.args = None THEN <<>> ELSE <<"<">> \o d.args \o <<">">>
  <1>3. rest \in Seq(Token)
    <2>1. CASE d.args = None
      BY <2>1
    <2>2. CASE d.args # None
      <3>1. d.args \in Seq(Token)
        BY <1>1, <2>2, TextAssumption
      <3>2. <<"<">> \o d.args \in Seq(Token) /\ <<">">> \in Seq(Token)
        BY <1>2, <3>1
      <3>3. (<<"<">> \o d.args) \o <<">">> \in Seq(Token)
        BY <3>2
      <3> QED
        BY <2>2, <3>3
    <2> QED
      BY <2>1, <2>2
  <1>4. DerivationTokens(d) = <<d.base>> \o rest
    BY DEF DerivationTokens
  <1> HIDE DEF rest
  <1>5. /\ <<d.base>> \o rest \in Seq(Token) /\ Len(<<d.base>> \o rest) >= 1
        /\ (<<d.base>> \o rest)[1] = d.base
    BY <1>2, <1>3
  <1> QED
    BY <1>1, <1>4, <1>5, OrderAssumption

\* The items of a source and what is put together of them.
LEMMA SourceItems ==
    ASSUME written \in Body \cup Parents
    PROVE  /\ Count \in Nat /\ Units \in [1..Count -> Seq(Token)]
           /\ written.noise \in Seq(Token)
           /\ written.kind \in {"body", "parents"}
           /\ written.kind = "parents" => written.noise = <<>>
           /\ Separator(written.kind) \in {";", ","}
           /\ \A i \in 1..Count :
                 /\ written.items[i] \in IF written.kind = "body" THEN Statement ELSE Derivation
                 /\ Item(i) \in Seq(Token) /\ Len(Item(i)) >= 1
                 /\ Balanced(Item(i), Separator(written.kind))
                 /\ Units[i] = IF written.kind = "body" \/ i < Count
                               THEN Append(Item(i), Separator(written.kind)) ELSE Item(i)
  <1> DEFINE items == written.items
             What == IF written.kind = "body" THEN Statement ELSE Derivation
             s == Separator(written.kind)
  <1>1. /\ items \in BoundedSeq(What, MaxItems) /\ written.noise \in Seq(Token)
        /\ written.kind \in {"body", "parents"}
        /\ written.kind = "parents" => written.noise = <<>>
    <2>1. CASE written \in Body
      <3>1. written.kind = "body" /\ items \in BoundedSeq(Statement, MaxItems) /\ written.noise \in Noise
        BY <2>1 DEF Body
      <3> QED
        BY <3>1, TextAssumption
    <2>2. CASE written \in Parents
      <3>1. /\ written.kind = "parents" /\ items \in BoundedSeq(Derivation, MaxItems)
            /\ written.noise = <<>>
        BY <2>2 DEF Parents
      <3>2. <<>> \in Seq(Token)
        OBVIOUS
      <3> QED
        BY <3>1, <3>2
    <2> QED
      BY <2>1, <2>2
  <1>2. PICK n \in 0..MaxItems : items \in [1..n -> What]
    BY <1>1 DEF BoundedSeq, SeqOf
  <1>3. n \in Nat
    BY BoundAssumption
  <1>4. Count = n /\ DOMAIN items = 1..n
    BY <1>2, <1>3 DEF Count
  <1>5. s \in {";", ","} /\ s \in Token
    BY DEF Separator, Token
  <1>6. ASSUME NEW i \in 1..n
        PROVE  /\ items[i] \in What
               /\ Item(i) \in Seq(Token) /\ Len(Item(i)) >= 1 /\ Balanced(Item(i), s)
    <2>1. items[i] \in What
      BY <1>2
    <2>2. CASE written.kind = "body"
      <3>1. items[i] \in Statement /\ Item(i) = StatementTokens(items[i]) /\ s = ";"
        BY <2>1, <2>2 DEF Item, ItemTokens, Separator
      <3> QED
        BY <2>1, <3>1, StatementType
    <2>3. CASE written.kind = "parents"
      <3>1. items[i] \in Derivation /\ Item(i) = DerivationTokens(items[i]) /\ s = ","
        BY <2>1, <2>3 DEF Item, ItemTokens, Separator
      <3> QED
        BY <2>1, <3>1, DerivationType
    <2> QED
      BY <1>1, <2>2, <2>3
  <1> HIDE DEF s
  <1>7. Units = [i \in 1..n |-> IF written.kind = "body" \/ i < n THEN Append(Item(i), s) ELSE Item(i)]
    BY <1>4 DEF Units, Ended, Item, Count, s
  <1>8. Units \in [1..n -> Seq(Token)]
    <2>1. ASSUME NEW i \in 1..n PROVE Append(Item(i), s) \in Seq(Token) /\ Item(i) \in Seq(Token)
      <3>1. Item(i) \in Seq(Token) /\ s \in Token
        BY <1>5, <1>6
      <3> QED
        BY <3>1, AppendProperties
    <2> QED
      BY <1>7, <2>1
  <1> QED
    BY <1>1, <1>3, <1>4, <1>5, <1>6, <1>7, <1>8 DEF s

\* An element before two sequences.
LEMMA Regroup ==
    ASSUME NEW T, NEW a \in T, NEW c \in Seq(T), NEW d \in Seq(T)
    PROVE  (<<a>> \o c) \o d = <<a>> \o (c \o d)
  <1>1. <<a>> \in Seq(T)
    BY SingletonSeq
  <1> QED
    BY <1>1, ConcatAssociative

\* A sequence between two elements.
LEMMA Between ==
    ASSUME NEW T, NEW a \in T, NEW b \in T, NEW c \in Seq(T), NEW s, s = (<<a>> \o c) \o <<b>>
    PROVE  /\ s \in Seq(T) /\ Len(s) > 1 /\ s[1] = a /\ s[Len(s)] = b
           /\ SubSeq(s, 2, Len(s) - 1) = c
  <1>1. PICK n \in Nat : n = Len(c) /\ DOMAIN c = 1..n
    BY LenProperties
  <1> DEFINE l == <<a>> \o c
  <1>2. l \in Seq(T) /\ Len(l) = n + 1 /\ l[1] = a /\ \A i \in 1..n : l[i + 1] = c[i]
    <2>1. <<a>> \in Seq(T) /\ Len(<<a>>) = 1 /\ <<a>>[1] = a
      OBVIOUS
    <2>2. /\ l \in Seq(T) /\ Len(l) = 1 + n /\ l[1] = <<a>>[1]
          /\ \A i \in 1..(1 + n) : i > 1 => l[i] = c[i - 1]
      BY <1>1, <2>1, ConcatProperties
    <2>3. \A i \in 1..n : i + 1 \in 1..(1 + n) /\ i + 1 > 1 /\ (i + 1) - 1 = i
      BY <1>1
    <2> HIDE DEF l
    <2> QED
      BY <1>1, <2>1, <2>2, <2>3
  <1> HIDE DEF l
  <1>3. s = Append(l, b)
    BY <1>2, AppendIsConcat DEF l
  <1>4. /\ s \in Seq(T) /\ Len(s) = n + 2 /\ s[n + 2] = b
        /\ \A i \in 1..(n + 1) : s[i] = l[i]
    BY <1>2, <1>3
  <1>5. s[1] = a /\ \A i \in 1..n : s[i + 1] = c[i]
    <2>1. 1 \in 1..(n + 1) /\ \A i \in 1..n : i + 1 \in 1..(n + 1)
      BY <1>1
    <2> QED
      BY <1>2, <1>4, <2>1
  <1>6. Len(s) - 1 = n + 1 /\ Len(s) > 1
    BY <1>1, <1>4
  <1> DEFINE m == SubSeq(s, 2, n + 1)
  <1>7. m \in Seq(T) /\ Len(m) = n /\ \A i \in 1..n : m[i] = s[i + 1]
    BY <1>1, <1>4
  <1> HIDE DEF m
  <1>8. m = c
    <2>1. \A i \in 1..Len(m) : m[i] = c[i]
      BY <1>5, <1>7
    <2> QED
      BY <1>1, <1>7, <2>1, SeqEqual
  <1> QED
    BY <1>4, <1>5, <1>6, <1>8 DEF m

\* Braces around a body are taken off.
LEMMA BracesOff ==
    ASSUME NEW c \in Seq(Token)
    PROVE  Inner("body", (<<"{">> \o c) \o <<"}">>) = c
  <1>1. PICK a, b \in Token : a = "{" /\ b = "}"
    BY Zenon DEF Token, Openers, Closers
  <1>2. PICK s : s = (<<a>> \o c) \o <<b>>
    OBVIOUS
  <1>3. /\ s \in Seq(Token) /\ Len(s) > 1 /\ s[1] = a /\ s[Len(s)] = b
        /\ SubSeq(s, 2, Len(s) - 1) = c
    BY <1>2, Between
  <1>4. Head(s) = a
    BY <1>3
  <1>5. Head(s) = "{" /\ Last(s) = "}"
    BY <1>1, <1>3, <1>4, Zenon DEF Last
  <1>6. Inner("body", s) = c
    BY <1>3, <1>5, Zenon DEF Inner
  <1> QED
    BY <1>1, <1>2, <1>6, Zenon

\* The text is what has been written, item after item, and then the noise.
LEMMA InitAsWritten == Init => AsWritten
  <1> SUFFICES ASSUME Init PROVE AsWritten
    OBVIOUS
  <1>1. /\ written \in Body \cup Parents
        /\ text = Inner(written.kind, Source(written)) /\ sep = Separator(written.kind)
    BY DEF Init
  <1>2. /\ Count \in Nat /\ Units \in [1..Count -> Seq(Token)] /\ written.noise \in Seq(Token)
        /\ written.kind \in {"body", "parents"}
        /\ written.kind = "parents" => written.noise = <<>>
    BY <1>1, SourceItems
  <1> DEFINE c == Concatenated(Units)
             noise == written.noise
  <1>3. c \in Seq(Token)
    BY <1>2, ConcatenatedAt
  <1>4. c = Concatenated(Ended(written)) /\ noise \in Seq(Token)
    BY <1>2 DEF Units
  <1> HIDE DEF c
  <1>5. CASE written.kind = "body"
    <2>1. Source(written) = ((<<"{">> \o c) \o noise) \o <<"}">>
      BY <1>4, <1>5 DEF Source
    <2>2. (<<"{">> \o c) \o noise = <<"{">> \o (c \o noise)
      <3>1. PICK a \in Token : a = "{"
        BY Zenon DEF Token, Openers
      <3>2. PICK d, e \in Seq(Token) : d = c /\ e = noise
        BY <1>3, <1>4
      <3>3. (<<a>> \o d) \o e = <<a>> \o (d \o e)
        BY Regroup
      <3> QED
        BY <3>1, <3>2, <3>3, Zenon
    <2>3. c \o noise \in Seq(Token)
      BY <1>3, <1>4
    <2>4. Inner("body", (<<"{">> \o (c \o noise)) \o <<"}">>) = c \o noise
      BY <2>3, BracesOff
    <2>5. text = c \o noise
      BY <1>1, <1>5, <2>1, <2>2, <2>4
    <2> QED
      BY <1>1, <2>5 DEF AsWritten, c
  <1>6. CASE written.kind = "parents"
    <2> DEFINE s == <<":">> \o c
    <2>1. Source(written) = s
      BY <1>4, <1>6 DEF Source
    <2>2. ":" \in Token
      BY DEF Token
    <2>3. s \in Seq(Token) /\ Len(s) = Len(c) + 1 /\ s[1] = ":" /\ s # <<>> /\ Head(s) = ":" /\ Tail(s) = c
      <3>1. s \in Seq(Token) /\ Len(s) = Len(c) + 1 /\ s[1] = ":" /\ \A i \in 1..Len(c) : s[i + 1] = c[i]
        BY <1>3, <2>2
      <3>2. Len(c) \in Nat
        BY <1>3, LenProperties
      <3> HIDE DEF s
      <3>3. Tail(s) \in Seq(Token) /\ Len(Tail(s)) = Len(c) /\ \A i \in 1..Len(c) : Tail(s)[i] = s[i + 1]
        BY <3>1, <3>2
      <3>4. Tail(s) = c
        BY <1>3, <3>1, <3>3, SeqEqual
      <3>5. s # <<>> /\ Head(s) = ":"
        BY <3>1, <3>2
      <3> QED
        BY <3>1, <3>4, <3>5
    <2>4. text = c
      <3> HIDE DEF s
      <3> QED
        BY <1>1, <1>6, <2>1, <2>3 DEF Inner
    <2>5. c \o noise = c
      BY <1>2, <1>3, <1>6, ConcatEmptySeq
    <2> QED
      BY <1>1, <2>4, <2>5 DEF AsWritten, c
  <1> QED
    BY <1>2, <1>5, <1>6

\* Where the items are in the text.
LEMMA Places ==
    ASSUME AsWritten, TypeOK
    PROVE  /\ Ahead(Units, 1) = 0 /\ Count \in Nat
           /\ \A i \in 1..(Count + 1) : Ahead(Units, i) \in Nat
           /\ \A i \in 1..Count : /\ Ahead(Units, i + 1) = Ahead(Units, i) + Len(Units[i])
                                  /\ Units[i] \in Seq(Token)
           /\ \A i \in 1..Count : \A j \in DOMAIN Units[i] : text[Ahead(Units, i) + j] = Units[i][j]
           /\ Len(text) = Ahead(Units, Count + 1) + Len(written.noise)
  <1>1. /\ Count \in Nat /\ Units \in [1..Count -> Seq(Token)] /\ written.noise \in Seq(Token)
    BY SourceItems DEF AsWritten
  <1> DEFINE n == Count
             ss == Units
             C == Concatenated(ss)
             A(i) == Ahead(ss, i)
  <1>2. n \in Nat /\ ss \in [1..n -> Seq(Token)]
    BY <1>1
  <1> HIDE DEF n, ss
  <1>3. /\ \A i \in 1..(n + 1) : A(i) \in Nat
        /\ A(1) = 0
        /\ \A i \in 1..n : A(i + 1) = A(i) + Len(ss[i])
    BY <1>2, CellsCounted, Zenon
  <1>4. /\ C \in Seq(Token) /\ Len(C) = A(n + 1)
        /\ \A i \in 1..n : \A j \in DOMAIN ss[i] :
              A(i) + j \in 1..A(n + 1) /\ C[A(i) + j] = ss[i][j]
    BY <1>2, ConcatenatedAt
  <1> HIDE DEF C, A
  <1>5. PICK s \in Seq(Token) : s = written.noise /\ text = C \o s
    BY <1>1 DEF AsWritten, C, ss
  <1>6. A(n + 1) \in Nat
    BY <1>2, <1>3
  <1>7. Len(text) = A(n + 1) + Len(s) /\ \A k \in 1..A(n + 1) : text[k] = C[k]
    <2>1. Len(C) \in Nat /\ Len(s) \in Nat
      BY <1>4, LenProperties
    <2>2. Len(C \o s) = Len(C) + Len(s) /\ \A k \in 1..Len(C) : (C \o s)[k] = C[k]
      BY <1>4, <2>1
    <2> QED
      BY <1>4, <1>5, <2>2
  <1>8. \A i \in 1..n : \A j \in DOMAIN ss[i] : text[A(i) + j] = ss[i][j]
    BY <1>4, <1>7
  <1>9. \A i \in 1..n : ss[i] \in Seq(Token)
    BY <1>2
  <1> QED
    BY <1>2, <1>3, <1>5, <1>7, <1>8, <1>9 DEF n, ss, A

\* Before an item, nothing of it has been collected.
LEMMA AtItem ==
    ASSUME NEW i \in 1..Count, AsWritten
    PROVE  /\ 1 \in DOMAIN Units[i] /\ SubSeq(Item(i), 1, 0) = <<>>
           /\ ~IsEscaped(Item(i), 1) /\ ~InQuotes(Item(i), 1) /\ Surplus(Item(i), 1, 1) = 0
  <1>1. /\ Count \in Nat /\ Item(i) \in Seq(Token) /\ Len(Item(i)) >= 1
        /\ Separator(written.kind) \in {";", ","}
        /\ Units[i] = IF written.kind = "body" \/ i < Count
                      THEN Append(Item(i), Separator(written.kind)) ELSE Item(i)
    BY SourceItems DEF AsWritten
  <1>2. 1 \in DOMAIN Units[i]
    <2>1. PICK s \in Token, t \in Seq(Token) : s = Separator(written.kind) /\ t = Item(i)
      BY <1>1 DEF Token
    <2>2. Len(Append(t, s)) = Len(t) + 1 /\ Append(t, s) \in Seq(Token) /\ Len(t) \in Nat
      BY AppendProperties, LenProperties
    <2>3. Units[i] \in {Append(t, s), t} /\ Len(t) >= 1
      BY <1>1, <2>1
    <2> QED
      BY <2>2, <2>3, LenProperties
  <1>3. SubSeq(Item(i), 1, 0) = <<>>
    BY SubSeqEmpty
  <1>4. ~IsEscaped(Item(i), 1)
    BY DEF IsEscaped
  <1>5. ~InQuotes(Item(i), 1)
    <2>1. Quotes(Item(i), 1) = {}
      BY DEF Quotes
    <2>2. Cardinality(Quotes(Item(i), 1)) = 0
      BY <2>1, FS_EmptySet
    <2> QED
      BY <2>2 DEF InQuotes
  <1>6. Surplus(Item(i), 1, 1) = 0
    BY SurplusHere
  <1> QED
    BY <1>2, <1>3, <1>4, <1>5, <1>6

\* What holds when an item begins.
LEMMA Begins ==
    ASSUME AsWritten, NEW i \in 1..Count,
           pos = Ahead(Units, i) + 1, Len(parts) = i - 1, Found(i - 1), current = <<>>,
           ~escaped, ~quote, depth = 0
    PROVE  Progress
  <1>1. Within(i, 1)
    BY AtItem DEF Within
  <1>2. 1 \in DOMAIN Units[i]
    BY AtItem
  <1> QED
    BY <1>1, <1>2 DEF Progress

\* The first item begins with the text.
LEMMA InitProgress == Init /\ TypeOK => Progress
  <1> SUFFICES ASSUME Init, TypeOK PROVE Progress
    OBVIOUS
  <1>1. AsWritten
    BY InitAsWritten
  <1>2. Ahead(Units, 1) = 0 /\ Count \in Nat
    BY <1>1, Places
  <1>3. pos = 1 /\ parts = <<>> /\ current = <<>> /\ depth = 0 /\ ~quote /\ ~escaped
    BY DEF Init
  <1>4. Found(0) /\ Len(parts) = 0
    BY <1>3 DEF Found
  <1>5. CASE Count = 0
    <2>1. pos > Ahead(Units, Count + 1)
      BY <1>2, <1>3, <1>5
    <2> QED
      BY <1>3, <1>4, <1>5, <2>1 DEF Progress, Behind
  <1>6. CASE Count # 0
    <2>1. 1 \in 1..Count /\ 1 - 1 = 0 /\ pos = Ahead(Units, 1) + 1
      BY <1>2, <1>3, <1>6
    <2> QED
      BY <1>1, <1>3, <1>4, <2>1, Begins
  <1> QED
    BY <1>5, <1>6

\* Nothing but the text decides where the items are.
LEMMA SameItems ==
    ASSUME written' = written
    PROVE  /\ Count' = Count /\ Units' = Units
           /\ \A i : Item(i)' = Item(i)
           /\ \A i : Ahead(Units, i)' = Ahead(Units, i)
  BY DEF Count, Units, Item

\* Within an item the splitter collects, and its flags are those of the item.
LEMMA InsideItem ==
    ASSUME IInv, Iteration, NEW t \in Seq(Token), Balanced(t, sep), NEW j \in DOMAIN t, text[pos] = t[j],
           escaped <=> IsEscaped(t, j), quote <=> InQuotes(t, j), depth = Surplus(t, 1, j),
           current = SubSeq(t, 1, j - 1)
    PROVE  /\ CollectHere /\ current' = SubSeq(t, 1, j)
           /\ escaped' <=> IsEscaped(t, j + 1)
           /\ quote' <=> InQuotes(t, j + 1)
           /\ depth' = Surplus(t, 1, j + 1)
  <1>1. pos \in DOMAIN text
    BY DEF Iteration, Advance
  <1>2. /\ Bare(text, pos) <=> ~escaped /\ ~quote
        /\ AtTopLevel(pos) <=> text[pos] = sep /\ ~escaped /\ ~quote /\ depth = 0
        /\ depth \in Nat
    BY <1>1, Flags
  <1>3. Bare(t, j) <=> ~escaped /\ ~quote
    BY DEF Bare
  <1>4. t[j] = sep /\ Bare(t, j) => Surplus(t, 1, j) > 0
    BY DEF Balanced
  <1>5. ~AtTopLevel(pos)
    <2>1. depth > 0 => depth # 0
      BY <1>2
    <2> QED
      BY <1>2, <1>3, <1>4, <2>1, Zenon
  <1>6. CollectHere
    BY <1>5, Zenon DEF Iteration
  <1>7. escaped' <=> IsEscaped(t, j + 1)
    <2>1. IsEscaped(t, j + 1) <=> t[j] = "\\" /\ ~IsEscaped(t, j)
      BY EscapedNext
    <2> QED
      BY <2>1, Zenon DEF Iteration, Flip
  <1>8. quote' <=> InQuotes(t, j + 1)
    <2>1. InQuotes(t, j + 1) <=> IF t[j] = "\"" /\ ~IsEscaped(t, j) THEN ~InQuotes(t, j)
                                                                     ELSE InQuotes(t, j)
      BY QuotesNext
    <2> QED
      BY <2>1, Zenon DEF Iteration, Flip
  <1>9. Weight(text, pos) = Weight(t, j)
    BY <1>2, <1>3, Zenon DEF Weight
  <1>10. j \in Nat /\ j >= 1 /\ j <= Len(t) /\ Len(t) \in Nat /\ 1 \in 1..j
    BY LenProperties
  <1>11. depth' = Surplus(t, 1, j + 1)
    <2>1. Surplus(t, 1, j) \in Int /\ Surplus(t, 1, j + 1) = Surplus(t, 1, j) + Weight(t, j)
      BY <1>10, SurplusNext
    <2>2. Surplus(t, 1, j + 1) >= 0
      <3>1. CASE j = Len(t)
        BY <3>1 DEF Balanced
      <3>2. CASE j # Len(t)
        <4>1. j + 1 \in DOMAIN t
          BY <1>10, <3>2, LenProperties
        <4> QED
          BY <4>1 DEF Balanced
      <3> QED
        BY <3>1, <3>2
    <2>3. Weight(t, j) \in Int
      BY DEF Weight
    <2>4. depth' = IF depth + Weight(t, j) < 0 THEN 0 ELSE depth + Weight(t, j)
      BY <1>9 DEF Iteration, Deepen
    <2> QED
      BY <2>1, <2>2, <2>3, <2>4
  <1>12. current' = SubSeq(t, 1, j)
    <2>1. SubSeq(t, 1, j) = Append(SubSeq(t, 1, j - 1), t[j])
      BY <1>10, SubSeqNext
    <2> QED
      BY <1>6, <2>1 DEF CollectHere
  <1> QED
    BY <1>6, <1>7, <1>8, <1>11, <1>12

\* At the separator after an item it cuts.
LEMMA AfterItem ==
    ASSUME IInv, Iteration, NEW t \in Seq(Token), Balanced(t, sep), text[pos] = sep,
           escaped <=> IsEscaped(t, Len(t) + 1), quote <=> InQuotes(t, Len(t) + 1),
           depth = Surplus(t, 1, Len(t) + 1), current = SubSeq(t, 1, Len(t))
    PROVE  parts' = Append(parts, t) /\ current' = <<>> /\ ~escaped' /\ ~quote' /\ depth' = 0
  <1>1. pos \in DOMAIN text
    BY DEF Iteration, Advance
  <1>2. /\ AtTopLevel(pos) <=> text[pos] = sep /\ ~escaped /\ ~quote /\ depth = 0
        /\ sep \in {";", ","}
    BY <1>1, Flags
  <1>3. ~escaped /\ ~quote /\ depth = 0
    BY DEF Balanced, Bare
  <1>4. CutHere
    BY <1>2, <1>3, Zenon DEF Iteration
  <1>5. sep # "\\" /\ sep # "\"" /\ sep \notin Openers /\ sep \notin Closers
    BY <1>2 DEF Openers, Closers
  <1>6. ~escaped' /\ ~quote'
    BY <1>3, <1>5, Zenon DEF Iteration, Flip
  <1>7. Weight(text, pos) = 0
    BY <1>5, Zenon DEF Weight
  <1>8. depth' = 0
    BY <1>3, <1>7 DEF Iteration, Deepen
  <1>9. current = t
    BY SubSeqFull
  <1> QED
    BY <1>4, <1>6, <1>8, <1>9 DEF CutHere

\* Parts that are there stay.
LEMMA FoundStays ==
    ASSUME written' = written, NEW m \in Nat, Found(m), parts \in Seq(Seq(Token)), CollectHere \/ CutHere
    PROVE  Found(m)'
  <1>1. \A i : Item(i)' = Item(i)
    BY SameItems
  <1>2. CASE CollectHere
    BY <1>1, <1>2 DEF CollectHere, Found
  <1>3. CASE CutHere
    <2>1. PICK n \in Nat : n = Len(parts)
      BY LenProperties
    <2>2. parts' = Append(parts, current)
      BY <1>3 DEF CutHere
    <2>3. Len(parts') = n + 1 /\ \A i \in 1..n : parts'[i] = parts[i]
      BY <2>1, <2>2
    <2>4. m <= n /\ \A i \in 1..m : i \in 1..n
      BY <2>1 DEF Found
    <2> QED
      BY <1>1, <2>1, <2>3, <2>4 DEF Found
  <1> QED
    BY <1>2, <1>3

\* One iteration within the items.
LEMMA WithinNext ==
    ASSUME IInv, AsWritten, Iteration, written' = written,
           NEW i \in 1..Count, NEW j \in DOMAIN Units[i], Within(i, j)
    PROVE  Progress'
  <1>1. PICK t \in Seq(Token), n \in Nat :
           t = Item(i) /\ n = Len(t) /\ n >= 1 /\ DOMAIN t = 1..n /\ Balanced(t, sep)
    <2>1. Item(i) \in Seq(Token) /\ Len(Item(i)) >= 1 /\ Balanced(Item(i), sep)
      BY SourceItems DEF AsWritten
    <2> QED
      BY <2>1, LenProperties
  <1>2. /\ Count \in Nat /\ sep \in Token
        /\ Units[i] = IF written.kind = "body" \/ i < Count THEN Append(t, sep) ELSE t
        /\ written.kind \in {"body", "parents"}
    <2>1. /\ Count \in Nat /\ sep \in {";", ","}
          /\ Units[i] = IF written.kind = "body" \/ i < Count THEN Append(t, sep) ELSE t
          /\ written.kind \in {"body", "parents"}
      BY <1>1, SourceItems DEF AsWritten
    <2> QED
      BY <2>1 DEF Token
  <1>3. /\ pos = Ahead(Units, i) + j
        /\ Len(parts) = i - 1 /\ Found(i - 1)
        /\ current = SubSeq(t, 1, j - 1)
        /\ escaped <=> IsEscaped(t, j)
        /\ quote <=> InQuotes(t, j)
        /\ depth = Surplus(t, 1, j)
    BY <1>1 DEF Within
  <1>4. PICK a \in Nat : /\ a = Ahead(Units, i) /\ Ahead(Units, i + 1) = a + Len(Units[i])
                         /\ text[a + j] = Units[i][j]
    <2>1. TypeOK /\ i \in 1..(Count + 1)
      BY <1>2 DEF IInv
    <2> QED
      BY <2>1, Places
  <1>5. /\ text[pos] = Units[i][j] /\ pos' = a + (j + 1) /\ parts \in Seq(Seq(Token))
        /\ (CollectHere \/ CutHere)
    <2>1. CollectHere \/ CutHere
      BY Zenon DEF Iteration
    <2>2. pos' = pos + 1
      BY DEF Iteration, Advance
    <2>3. j \in Nat
      BY <1>1, <1>2, AppendProperties, LenProperties
    <2>4. parts \in Seq(Seq(Token))
      BY DEF IInv, TypeOK
    <2> QED
      BY <1>3, <1>4, <2>1, <2>2, <2>3, <2>4
  <1>6. /\ Count' = Count /\ Units' = Units
        /\ \A k : Item(k)' = Item(k) /\ Ahead(Units, k)' = Ahead(Units, k)
    BY SameItems
  <1>7. Found(i - 1)'
    <2>1. i - 1 \in Nat
      BY <1>2
    <2> QED
      BY <1>3, <1>5, <2>1, FoundStays
  <1>8. \/ Units[i] = Append(t, sep) /\ DOMAIN Units[i] = 1..(n + 1) /\ Len(Units[i]) = n + 1
        \/ Units[i] = t /\ written.kind = "parents" /\ i = Count
    <2>1. Append(t, sep) \in Seq(Token) /\ Len(Append(t, sep)) = n + 1
      BY <1>1, <1>2, AppendProperties
    <2>2. DOMAIN Append(t, sep) = 1..(n + 1)
      BY <1>1, <2>1, LenProperties
    <2>3. i = Count \/ i < Count
      BY <1>2
    <2> QED
      BY <1>2, <2>1, <2>2, <2>3
  <1>9. CASE j \in DOMAIN t
    <2>1. text[pos] = t[j]
      <3>1. CASE Units[i] = t
        BY <1>5, <3>1
      <3>2. CASE Units[i] = Append(t, sep)
        <4>1. \A k \in 1..Len(t) : Append(t, sep)[k] = t[k]
          BY <1>2, AppendProperties
        <4> QED
          BY <1>1, <1>5, <1>9, <3>2, <4>1
      <3> QED
        BY <1>8, <3>1, <3>2
    <2>2. /\ CollectHere /\ current' = SubSeq(t, 1, j)
          /\ escaped' <=> IsEscaped(t, j + 1)
          /\ quote' <=> InQuotes(t, j + 1)
          /\ depth' = Surplus(t, 1, j + 1)
      BY <1>1, <1>3, <1>9, <2>1, InsideItem
    <2>3. Len(parts') = i - 1
      BY <1>3, <2>2 DEF CollectHere
    <2>4. j \in Nat /\ (j + 1) - 1 = j
      BY <1>1, <1>9
    <2>5. CASE j + 1 \in DOMAIN Units[i]
      <3>1. Within(i, j + 1)'
        BY <1>1, <1>4, <1>5, <1>6, <1>7, <2>2, <2>3, <2>4 DEF Within
      <3> QED
        BY <1>6, <2>5, <3>1 DEF Progress
    <2>6. CASE j + 1 \notin DOMAIN Units[i]
      <3>1. Units[i] = t /\ written.kind = "parents" /\ i = Count /\ j = n
        BY <1>1, <1>8, <1>9, <2>6
      <3>2. SubSeq(t, 1, n) = t
        BY <1>1, SubSeqFull
      <3>3. pos' > Ahead(Units, Count + 1)
        BY <1>1, <1>4, <1>5, <3>1
      <3>4. Count # 0 /\ written.kind # "body" /\ current' = Item(Count)
        BY <1>1, <1>2, <2>2, <3>1, <3>2
      <3> QED
        BY <1>6, <1>7, <2>3, <3>1, <3>3, <3>4 DEF Progress, Behind
    <2> QED
      BY <2>5, <2>6
  <1>10. CASE j \notin DOMAIN t
    <2>1. Units[i] = Append(t, sep) /\ DOMAIN Units[i] = 1..(n + 1) /\ Len(Units[i]) = n + 1
      BY <1>8, <1>10
    <2>2. j = n + 1
      BY <1>1, <1>10, <2>1
    <2>3. text[pos] = sep /\ j - 1 = n
      <3>1. Append(t, sep)[Len(t) + 1] = sep
        BY <1>2, AppendProperties
      <3> QED
        BY <1>1, <1>5, <2>1, <2>2, <3>1
    <2>4. parts' = Append(parts, t) /\ current' = <<>> /\ ~escaped' /\ ~quote' /\ depth' = 0
      BY <1>1, <1>3, <2>2, <2>3, AfterItem
    <2>5. Len(parts') = i /\ parts'[i] = t
      <3>1. PICK m \in Nat : m = i - 1
        BY <1>2
      <3>2. Len(parts) = m
        BY <1>3, <3>1
      <3>3. Len(Append(parts, t)) = m + 1 /\ Append(parts, t)[m + 1] = t
        <4>1. PICK S : S = Seq(Token)
          OBVIOUS
        <4>2. parts \in Seq(S) /\ t \in S
          BY <1>5, <4>1
        <4> QED
          BY <3>2, <4>2, AppendProperties
      <3> QED
        BY <2>4, <3>1, <3>3
    <2>6. Found(i)'
      <3>1. \A k \in 1..i : k \in 1..(i - 1) \/ k = i
        BY <1>2
      <3>2. i <= i
        BY <1>2
      <3> QED
        BY <1>1, <1>6, <1>7, <2>5, <3>1, <3>2 DEF Found
    <2>7. pos' = Ahead(Units, i + 1) + 1
      BY <1>1, <1>4, <1>5, <2>1, <2>2
    <2>8. CASE i = Count
      <3>1. written.kind = "body"
        <4>1. Append(t, sep) # t
          <5>1. Len(Append(t, sep)) = n + 1
            BY <1>1, <1>2, AppendProperties
          <5> QED
            BY <1>1, <5>1
        <4>2. ~(i < Count)
          BY <1>2, <2>8
        <4> QED
          BY <1>2, <2>1, <4>1, <4>2
      <3>2. pos' > Ahead(Units, Count + 1)
        BY <1>1, <1>4, <2>1, <2>7, <2>8
      <3> QED
        BY <1>6, <2>4, <2>5, <2>6, <2>7, <2>8, <3>1, <3>2 DEF Progress, Behind
    <2>9. CASE i # Count
      <3>1. i + 1 \in 1..Count /\ (i + 1) - 1 = i
        BY <1>2, <2>9
      <3>2. /\ 1 \in DOMAIN Units[i + 1] /\ SubSeq(Item(i + 1), 1, 0) = <<>>
            /\ ~IsEscaped(Item(i + 1), 1) /\ ~InQuotes(Item(i + 1), 1)
            /\ Surplus(Item(i + 1), 1, 1) = 0
        BY <3>1, AtItem
      <3>3. Within(i + 1, 1)'
        BY <1>6, <2>4, <2>5, <2>6, <2>7, <3>1, <3>2 DEF Within
      <3> QED
        BY <1>6, <3>1, <3>2, <3>3 DEF Progress
    <2> QED
      BY <2>8, <2>9
  <1> QED
    BY <1>9, <1>10

\* One iteration after the items.
LEMMA BehindNext ==
    ASSUME IInv, AsWritten, Iteration, written' = written, Behind
    PROVE  Behind'
  <1>1. /\ Count \in Nat /\ written.kind \in {"body", "parents"}
        /\ written.kind = "parents" => written.noise = <<>>
    BY SourceItems DEF AsWritten
  <1>2. PICK a \in Nat : a = Ahead(Units, Count + 1) /\ Len(text) = a + Len(written.noise)
    <2>1. Count + 1 \in 1..(Count + 1) /\ TypeOK
      BY <1>1 DEF IInv
    <2> QED
      BY <2>1, Places
  <1>3. /\ pos > a /\ pos \in Nat /\ pos' = pos + 1 /\ pos <= Len(text)
        /\ parts \in Seq(Seq(Token)) /\ (CollectHere \/ CutHere)
    <2>1. text \in Seq(Token) /\ pos \in DOMAIN text /\ pos' = pos + 1
      BY DEF IInv, TypeOK, Iteration, Advance
    <2>2. DOMAIN text = 1..Len(text) /\ Len(text) \in Nat
      BY <2>1, LenProperties
    <2>3. CollectHere \/ CutHere
      BY Zenon DEF Iteration
    <2>4. pos > a /\ parts \in Seq(Seq(Token))
      BY <1>2 DEF Behind, IInv, TypeOK
    <2> QED
      BY <2>1, <2>2, <2>3, <2>4
  <1>4. /\ Count' = Count /\ Units' = Units
        /\ \A k : Item(k)' = Item(k) /\ Ahead(Units, k)' = Ahead(Units, k)
    BY SameItems
  <1>5. written.kind = "body" \/ Count = 0
    <2> SUFFICES ASSUME written.kind = "parents" PROVE FALSE
      BY <1>1
    <2>1. Len(written.noise) = 0
      BY <1>1
    <2> QED
      BY <1>2, <1>3, <2>1
  <1>6. Found(Count)'
    <2>1. Found(Count)
      BY <1>5 DEF Behind
    <2>2. PICK m \in Nat : m = Count
      BY <1>1
    <2>3. Found(m)'
      BY <1>3, <2>1, <2>2, FoundStays
    <2> QED
      BY <1>4, <2>2, <2>3 DEF Found
  <1>7. pos' > a /\ pos' # a + 1
    BY <1>2, <1>3
  <1> QED
    BY <1>2, <1>4, <1>5, <1>6, <1>7 DEF Behind

\* The text stays as written, and the splitter gets on in it as it should.
LEMMA ProgressHolds == Spec => [](IInv /\ AsWritten /\ Progress)
  <1> DEFINE I == IInv /\ AsWritten /\ Progress
  <1>1. Init => I
    <2> SUFFICES ASSUME Init PROVE I
      OBVIOUS
    <2>1. IInv
      BY InitIInv
    <2>2. TypeOK
      BY <2>1 DEF IInv
    <2> QED
      BY <2>1, <2>2, InitAsWritten, InitProgress
  <1>2. I /\ [Next]_vars => I'
    <2> SUFFICES ASSUME I, [Next]_vars PROVE I'
      OBVIOUS
    <2>1. IInv'
      BY NextIInv
    <2>2. written' = written /\ text' = text /\ sep' = sep
      BY DEF Next, Escaped, Backslash, Quote, Plain, Cut, vars
    <2>3. /\ Count' = Count /\ Units' = Units
          /\ \A k : Item(k)' = Item(k)
          /\ \A k : Ahead(Units, k)' = Ahead(Units, k)
      BY <2>2, SameItems
    <2>4. AsWritten'
      BY <2>2, <2>3 DEF AsWritten
    <2>5. CASE Next
      <3>1. Iteration
        BY <2>5, NextIsIteration
      <3>2. ASSUME Behind PROVE Progress'
        BY <2>2, <3>1, <3>2, BehindNext DEF Progress
      <3>3. ASSUME NEW i \in 1..Count, NEW j \in DOMAIN Units[i], Within(i, j) PROVE Progress'
        BY <2>2, <3>1, <3>3, WithinNext
      <3>4. Progress'
        BY <3>2, <3>3 DEF Progress
      <3> QED
        BY <2>1, <2>4, <3>4
    <2>6. CASE UNCHANGED vars
      <3>1. pos' = pos /\ parts' = parts /\ current' = current
            /\ depth' = depth /\ quote' = quote /\ escaped' = escaped
        BY <2>6 DEF vars
      <3>2. \A m : Found(m)' <=> Found(m)
        BY <2>3, <3>1 DEF Found
      <3>3. \A i, j : Within(i, j)' <=> Within(i, j)
        BY <2>3, <3>1, <3>2 DEF Within
      <3>4. Behind' <=> Behind
        BY <2>2, <2>3, <3>1, <3>2 DEF Behind
      <3>5. Progress'
        BY <2>3, <3>3, <3>4 DEF Progress
      <3> QED
        BY <2>1, <2>4, <3>5
    <2> QED
      BY <2>5, <2>6
  <1> QED
    BY <1>1, <1>2, PTL DEF Spec

\* When the text ends the parts are the items; in a body there is one after
\* them, and nothing in it if nothing follows the statements.
LEMMA PiecesFound ==
    ASSUME IInv, AsWritten, Progress, Done
    PROVE  /\ Pieces \in Seq(Seq(Token)) /\ Count \in Nat
           /\ \A i \in 1..Count : Pieces[i] = Item(i)
           /\ written.kind = "body" => Len(Pieces) >= Count + 1
           /\ (written.kind = "body" \/ Count = 0) /\ written.noise = <<>>
                 => Len(Pieces) = Count + 1 /\ Pieces[Count + 1] = <<>>
           /\ written.kind = "parents" /\ Count # 0 => Len(Pieces) = Count
  <1>1. /\ Count \in Nat /\ written.noise \in Seq(Token)
        /\ written.kind \in {"body", "parents"}
    BY SourceItems DEF AsWritten
  <1>2. /\ \A i \in 1..(Count + 1) : Ahead(Units, i) \in Nat
        /\ \A i \in 1..Count : /\ Ahead(Units, i + 1) = Ahead(Units, i) + Len(Units[i])
                               /\ Units[i] \in Seq(Token)
        /\ Len(text) = Ahead(Units, Count + 1) + Len(written.noise)
    BY Places DEF IInv
  <1>3. text \in Seq(Token) /\ Len(text) \in Nat /\ pos = Len(text) + 1
    <2>1. text \in Seq(Token) /\ pos \in 1..(Len(text) + 1) /\ ~(pos <= Len(text))
      BY DEF IInv, TypeOK, Done, More
    <2> QED
      BY <2>1, LenProperties
  <1>4. Behind
    <2> SUFFICES ASSUME NEW i \in 1..Count, NEW j \in DOMAIN Units[i], Within(i, j) PROVE FALSE
      BY DEF Progress
    <2>1. pos = Ahead(Units, i) + j
      BY DEF Within
    <2>2. Units[i] \in Seq(Token) /\ j \in 1..Len(Units[i]) /\ Len(Units[i]) \in Nat
      BY <1>2, LenProperties
    <2>3. Ahead(Units, i + 1) <= Len(text)
      <3>1. /\ Units \in [1..Count -> Seq(Token)]
        BY SourceItems DEF AsWritten
      <3>2. \A k, l \in 1..(Count + 1) : k <= l => Ahead(Units, k) <= Ahead(Units, l)
        BY <1>1, <3>1, CellsCounted
      <3>3. i + 1 \in 1..(Count + 1) /\ Count + 1 \in 1..(Count + 1) /\ i + 1 <= Count + 1
        BY <1>1
      <3>4. Ahead(Units, i + 1) <= Ahead(Units, Count + 1)
        BY <3>2, <3>3
      <3>5. Ahead(Units, i + 1) \in Nat /\ Ahead(Units, Count + 1) \in Nat /\ Len(written.noise) \in Nat
        BY <1>1, <1>2, <3>3, LenProperties
      <3> QED
        BY <1>2, <3>4, <3>5
    <2>4. /\ i \in 1..(Count + 1) /\ i + 1 \in 1..(Count + 1)
      BY <1>1
    <2> QED
      BY <1>2, <1>3, <2>1, <2>2, <2>3, <2>4
  <1>5. PICK S : S = Seq(Token)
    OBVIOUS
  <1>6. parts \in Seq(S) /\ current \in S /\ Len(parts) \in Nat
    <2>1. parts \in Seq(S) /\ current \in S
      BY <1>5 DEF IInv, TypeOK
    <2> QED
      BY <2>1, LenProperties
  <1>7. /\ Pieces \in Seq(S) /\ Len(Pieces) = Len(parts) + 1
        /\ Pieces[Len(parts) + 1] = current
        /\ \A i \in 1..Len(parts) : Pieces[i] = parts[i]
    BY <1>6, AppendProperties DEF Pieces
  <1>8. CASE written.kind = "body" \/ Count = 0
    <2>1. /\ Found(Count)
          /\ pos = Ahead(Units, Count + 1) + 1 => Len(parts) = Count /\ current = <<>>
      BY <1>4, <1>8 DEF Behind
    <2>2. Count <= Len(parts) /\ \A i \in 1..Count : i \in 1..Len(parts) /\ parts[i] = Item(i)
      BY <1>1, <1>6, <2>1 DEF Found
    <2>3. ASSUME written.noise = <<>> PROVE Len(parts) = Count /\ current = <<>>
      <3>1. Len(written.noise) = 0
        BY <2>3
      <3>2. Count + 1 \in 1..(Count + 1)
        BY <1>1
      <3> QED
        BY <1>2, <1>3, <2>1, <3>1, <3>2
    <2>4. Len(Pieces) >= Count + 1
      BY <1>1, <1>6, <1>7, <2>2
    <2>5. \A i \in 1..Count : Pieces[i] = Item(i)
      BY <1>7, <2>2
    <2>6. written.noise = <<>> => Len(Pieces) = Count + 1 /\ Pieces[Count + 1] = <<>>
      BY <1>7, <2>3
    <2>7. ~(written.kind = "parents" /\ Count # 0)
      BY <1>8
    <2> QED
      BY <1>1, <1>5, <1>7, <2>4, <2>5, <2>6, <2>7, Zenon
  <1>9. CASE ~(written.kind = "body" \/ Count = 0)
    <2>1. Len(parts) = Count - 1 /\ Found(Count - 1) /\ current = Item(Count)
      BY <1>4, <1>9 DEF Behind
    <2>2. \A i \in 1..(Count - 1) : parts[i] = Item(i)
      BY <2>1 DEF Found
    <2>3. \A i \in 1..Count : i \in 1..(Count - 1) \/ i = Count
      BY <1>1
    <2>4. (Count - 1) + 1 = Count
      BY <1>1
    <2>5. \A i \in 1..Count : Pieces[i] = Item(i)
      BY <1>7, <2>1, <2>2, <2>3, <2>4
    <2> QED
      BY <1>1, <1>5, <1>7, <1>9, <2>1, <2>4, <2>5
  <1> QED
    BY <1>8, <1>9

\* The last identifier is the one after which there is none ...
LEMMA LastIdent ==
    ASSUME NEW l \in Seq(Token), NEW k \in DOMAIN l, l[k] \in Ident,
           \A j \in (k + 1)..Len(l) : l[j] \notin Ident
    PROVE  Idents(l) # <<>> /\ Last(Idents(l)) = l[k]
  <1>1. PICK m \in Nat : \E at : /\ Picks(l, Ident, m, at)
                                 /\ Selected(l, Ident) = [q \in 1..m |-> l[at[q]]]
    BY SelectedPicks
  <1>2. PICK at : Picks(l, Ident, m, at) /\ Selected(l, Ident) = [q \in 1..m |-> l[at[q]]]
    BY <1>1
  <1>3. DOMAIN l = 1..Len(l) /\ Len(l) \in Nat
    BY LenProperties
  <1>4. PICK q \in 1..m : at[q] = k
    BY <1>2 DEF Picks, PlacesIn
  <1>5. q = m
    <2> SUFFICES ASSUME q < m PROVE FALSE
      OBVIOUS
    <2>1. m \in 1..m
      BY <1>4
    <2>2. at[m] > k /\ at[m] \in DOMAIN l /\ l[at[m]] \in Ident
      BY <1>2, <1>3, <1>4, <2>1 DEF Picks, PlacesIn
    <2>3. at[m] \in (k + 1)..Len(l)
      BY <1>3, <2>2
    <2> QED
      BY <2>2, <2>3
  <1>6. Idents(l) = [i \in 1..m |-> l[at[i]]] /\ m >= 1
    BY <1>2, <1>4 DEF Idents
  <1>7. Len(Idents(l)) = m /\ Idents(l)[m] = l[k] /\ Idents(l) # <<>>
    BY <1>4, <1>5, <1>6
  <1> QED
    BY <1>7 DEF Last

\* ... and the first is the first token, if that is one.
LEMMA FirstIdent ==
    ASSUME NEW t \in Seq(Token), Len(t) >= 1, t[1] \in Ident
    PROVE  Idents(t) # <<>> /\ Head(Idents(t)) = t[1]
  <1>1. PICK m \in Nat : \E at : /\ Picks(t, Ident, m, at)
                                 /\ Selected(t, Ident) = [q \in 1..m |-> t[at[q]]]
    BY SelectedPicks
  <1>2. PICK at : Picks(t, Ident, m, at) /\ Selected(t, Ident) = [q \in 1..m |-> t[at[q]]]
    BY <1>1
  <1>3. DOMAIN t = 1..Len(t) /\ Len(t) \in Nat
    BY LenProperties
  <1>4. PICK q \in 1..m : at[q] = 1
    <2>1. 1 \in DOMAIN t
      BY <1>3
    <2> QED
      BY <1>2, <2>1 DEF Picks, PlacesIn
  <1>5. q = 1
    <2> SUFFICES ASSUME q # 1 PROVE FALSE
      OBVIOUS
    <2>1. 1 \in 1..m /\ 1 < q
      BY <1>4
    <2>2. at[1] < 1 /\ at[1] \in 1..Len(t)
      BY <1>2, <1>3, <1>4, <2>1 DEF Picks, PlacesIn
    <2> QED
      BY <1>3, <2>2
  <1>6. Idents(t) = [i \in 1..m |-> t[at[i]]] /\ m >= 1
    BY <1>2, <1>4 DEF Idents
  <1>7. Idents(t)[1] = t[1] /\ Idents(t) # <<>>
    BY <1>4, <1>5, <1>6
  <1> QED
    BY <1>6, <1>7

\* An assignment is taken apart at its first "=".
LEMMA SplitAtEquals ==
    ASSUME NEW l \in Seq(Token), NEW v \in Seq(Token), NEW p, p = l \o (<<"=">> \o v),
           \A i \in DOMAIN l : l[i] # "="
    PROVE  "=" \in ToSet(p) /\ LeftOf(p) = l /\ RightOf(p) = v
  <1>1. PICK e \in Token : e = "="
    BY DEF Token
  <1>2. PICK m, n \in Nat : m = Len(l) /\ n = Len(v) /\ DOMAIN l = 1..m /\ DOMAIN v = 1..n
    BY LenProperties
  <1> DEFINE r == <<e>> \o v
  <1>3. r \in Seq(Token) /\ Len(r) = n + 1 /\ r[1] = e /\ \A i \in 1..n : r[i + 1] = v[i]
    BY <1>1, <1>2
  <1> HIDE DEF r
  <1>4. p = l \o r
    BY <1>1 DEF r
  <1>5. /\ p \in Seq(Token) /\ Len(p) = m + (n + 1)
        /\ \A i \in 1..m : p[i] = l[i]
        /\ \A i \in 1..(n + 1) : p[m + i] = r[i]
    <2>1. p \in Seq(Token) /\ Len(p) = m + (n + 1)
      BY <1>2, <1>3, <1>4
    <2>2. /\ \A i \in 1..m : p[i] = l[i]
          /\ \A i \in 1..(n + 1) : m + i \in 1..(m + (n + 1)) /\ ~(m + i <= m) /\ (m + i) - m = i
      BY <1>2, <1>3, <1>4
    <2>3. \A i \in 1..(n + 1) : p[m + i] = r[i]
      BY <1>2, <1>3, <1>4, <2>2
    <2> QED
      BY <2>1, <2>2, <2>3
  <1>6. DOMAIN p = 1..(m + (n + 1))
    BY <1>5, LenProperties
  <1>7. m + 1 \in DOMAIN p /\ p[m + 1] = e /\ \A i \in 1..((m + 1) - 1) : p[i] # e
    <2>1. m + 1 \in DOMAIN p /\ 1 \in 1..(n + 1) /\ (m + 1) - 1 = m
      BY <1>2, <1>6
    <2> QED
      BY <1>1, <1>2, <1>3, <1>5, <2>1
  <1>8. EqualsAt(p) = m + 1
    <2> DEFINE First(k) == p[k] = e /\ \A j \in 1..(k - 1) : p[j] # e
    <2>1. First(m + 1)
      BY <1>7
    <2>2. \A k \in DOMAIN p : First(k) => k = m + 1
      <3> SUFFICES ASSUME NEW k \in DOMAIN p, First(k), k # m + 1 PROVE FALSE
        OBVIOUS
      <3>1. k \in Nat /\ k >= 1
        BY <1>2, <1>6
      <3>2. CASE k < m + 1
        BY <1>2, <1>7, <3>1, <3>2
      <3>3. CASE k > m + 1
        <4>1. m + 1 \in 1..(k - 1)
          BY <1>2, <3>1, <3>3
        <4> QED
          BY <1>7, <4>1
      <3> QED
        BY <1>2, <3>1, <3>2, <3>3
    <2>3. EqualsAt(p) = CHOOSE k \in DOMAIN p : First(k)
      BY <1>1 DEF EqualsAt
    <2> HIDE DEF First
    <2>4. (CHOOSE k \in DOMAIN p : First(k)) = m + 1
      BY <1>7, <2>1, <2>2
    <2> QED
      BY <2>3, <2>4
  <1>9. LeftOf(p) = l
    <2> DEFINE s == SubSeq(p, 1, m)
    <2>1. LeftOf(p) = s
      BY <1>2, <1>8 DEF LeftOf
    <2>2. s \in Seq(Token) /\ Len(s) = m /\ \A i \in 1..m : s[i] = p[i]
      BY <1>2, <1>5
    <2> HIDE DEF s
    <2>3. \A i \in 1..Len(s) : s[i] = l[i]
      BY <1>5, <2>2
    <2>4. s = l
      BY <1>2, <2>2, <2>3, SeqEqual
    <2> QED
      BY <2>1, <2>4
  <1>10. RightOf(p) = v
    <2> DEFINE s == SubSeq(p, m + 2, m + (n + 1))
    <2>1. RightOf(p) = s
      BY <1>2, <1>5, <1>8 DEF RightOf
    <2>2. s \in Seq(Token) /\ Len(s) = n /\ \A i \in 1..n : s[i] = p[m + (i + 1)]
      BY <1>2, <1>5
    <2> HIDE DEF s
    <2>3. \A i \in 1..Len(s) : s[i] = v[i]
      <3>1. \A i \in 1..n : i + 1 \in 1..(n + 1)
        BY <1>2
      <3> QED
        BY <1>3, <1>5, <2>2, <3>1
    <2>4. s = v
      BY <1>2, <2>2, <2>3, SeqEqual
    <2> QED
      BY <2>1, <2>4
  <1>11. "=" \in ToSet(p)
    BY <1>1, <1>7 DEF ToSet
  <1> QED
    BY <1>9, <1>10, <1>11

\* A statement is an assignment if it has a value, under its name and with its value.
LEMMA StatementFound ==
    ASSUME NEW s \in Statement, NEW p, p = StatementTokens(s)
    PROVE  /\ Assigns(p) <=> s.value # None
           /\ s.value # None => Last(Idents(LeftOf(p))) = s.left.name /\ RightOf(p) = s.value
  <1>1. PICK l \in Seq(Token) : l = s.left.tokens
    BY StatementType
  <1>2. /\ s.left \in Lefts
        /\ s.value # None => s.value \in Seq(Token) /\ p = l \o (<<"=">> \o s.value)
        /\ s.value = None => p = l
    BY <1>1, StatementType DEF Statement
  <1>3. /\ l \in Seq(Token \ {"="}) /\ s.left.name \in Ident
        /\ \E k \in DOMAIN l : l[k] = s.left.name /\ \A j \in (k + 1)..Len(l) : l[j] \notin Ident
    BY <1>1, <1>2, TextAssumption
  <1>4. \A i \in DOMAIN l : l[i] # "="
    BY <1>3, ElementOfSeq, LenProperties
  <1>5. CASE s.value = None
    <2>1. "=" \notin ToSet(p)
      BY <1>2, <1>4, <1>5 DEF ToSet
    <2> QED
      BY <1>5, <2>1 DEF Assigns
  <1>6. CASE s.value # None
    <2>1. PICK v \in Seq(Token) : v = s.value /\ p = l \o (<<"=">> \o v)
      BY <1>2, <1>6
    <2>2. "=" \in ToSet(p) /\ LeftOf(p) = l /\ RightOf(p) = v
      BY <1>4, <2>1, SplitAtEquals
    <2>3. PICK k \in DOMAIN l : /\ l[k] = s.left.name /\ l[k] \in Ident
                                /\ \A j \in (k + 1)..Len(l) : l[j] \notin Ident
      BY <1>3
    <2>4. Idents(l) # <<>> /\ Last(Idents(l)) = s.left.name
      BY <2>3, LastIdent
    <2> QED
      BY <1>6, <2>1, <2>2, <2>4 DEF Assigns
  <1> QED
    BY <1>5, <1>6

\* The base of a derivation is its class.
LEMMA DerivationFound ==
    ASSUME NEW d \in Derivation, NEW p, p = DerivationTokens(d)
    PROVE  p # <<>> /\ BaseOf(p) = <<d.base>>
  <1>1. p \in Seq(Token) /\ Len(p) >= 1 /\ p[1] = d.base /\ p[1] \in Ident
    BY DerivationType
  <1>2. Idents(p) # <<>> /\ Head(Idents(p)) = d.base
    BY <1>1, FirstIdent
  <1> QED
    BY <1>1, <1>2 DEF BaseOf

\* The parts that assign.
Assigning == {piece \in ToSet(Pieces) : Assigns(piece)}

\* The assignments are those of them, in their order.
LEMMA AssignmentsAt ==
    ASSUME Pieces \in Seq(Seq(Token))
    PROVE  \E m \in Nat : \E at :
              /\ Picks(Pieces, Assigning, m, at)
              /\ Assignments = [k \in 1..m |-> [name  |-> Last(Idents(LeftOf(Pieces[at[k]]))),
                                                value |-> RightOf(Pieces[at[k]])]]
  <1> DEFINE found == Selected(Pieces, Assigning)
  <1>1. PICK m \in Nat : \E at : /\ Picks(Pieces, Assigning, m, at)
                                 /\ found = [k \in 1..m |-> Pieces[at[k]]]
    BY SelectedPicks
  <1>2. PICK at : Picks(Pieces, Assigning, m, at) /\ found = [k \in 1..m |-> Pieces[at[k]]]
    BY <1>1
  <1>3. Assignments = [i \in DOMAIN found |-> [name  |-> Last(Idents(LeftOf(found[i]))),
                                               value |-> RightOf(found[i])]]
    BY DEF Assignments, Assigning
  <1> HIDE DEF found
  <1>4. DOMAIN found = 1..m /\ \A k \in 1..m : found[k] = Pieces[at[k]]
    BY <1>2
  <1>5. Assignments = [k \in 1..m |-> [name  |-> Last(Idents(LeftOf(Pieces[at[k]]))),
                                       value |-> RightOf(Pieces[at[k]])]]
    BY <1>3, <1>4
  <1> QED
    BY <1>2, <1>5

\* Under each name is the value of its first assignment.
LEMMA FirstCounts ==
    ASSUME NEW m \in Nat, NEW as, DOMAIN as = 1..m, NEW k \in 1..m,
           \A j \in 1..(k - 1) : as[j].name # as[k].name
    PROVE  as[k].name \in DOMAIN FieldsOf(as) /\ FieldsOf(as)[as[k].name] = as[k].value
  <1> DEFINE n == as[k].name
             First(i) == as[i].name = n /\ \A j \in 1..(i - 1) : as[j].name # n
  <1>1. n \in {as[i].name : i \in DOMAIN as}
    OBVIOUS
  <1>2. First(k)
    OBVIOUS
  <1>3. ASSUME NEW i \in DOMAIN as, First(i) PROVE i = k
    <2>1. CASE i < k
      <3>1. i \in 1..(k - 1)
        BY <2>1
      <3> QED
        BY <1>3, <3>1
    <2>2. CASE k < i
      <3>1. k \in 1..(i - 1)
        BY <2>2
      <3> QED
        BY <1>3, <3>1
    <2> QED
      BY <2>1, <2>2
  <1>4. FirstOf(as, n) = as[CHOOSE i \in DOMAIN as : First(i)].value
    BY DEF FirstOf
  <1>5. DOMAIN FieldsOf(as) = {as[i].name : i \in DOMAIN as} /\ FieldsOf(as)[n] = FirstOf(as, n)
    BY <1>1 DEF FieldsOf
  <1> HIDE DEF First
  <1>6. (CHOOSE i \in DOMAIN as : First(i)) = k
    BY <1>2, <1>3
  <1> QED
    BY <1>1, <1>4, <1>5, <1>6

\* Bodies: the fields are the statements', and noise hides none of them.
LEMMA BodyFound ==
    ASSUME IInv, AsWritten, Progress, Done, written.kind = "body"
    PROVE  LET items == written.items
               fields == FieldsOf(Assignments)
           IN /\ \A i \in AssignedIn(items) :
                    LET n == items[i].left.name
                    IN (\A j \in AssignedIn(items) : j < i => items[j].left.name # n)
                         => n \in DOMAIN fields /\ fields[n] = items[i].value
              /\ written.noise = <<>> =>
                    DOMAIN fields = {items[i].left.name : i \in AssignedIn(items)}
  <1> DEFINE items == written.items
             fields == FieldsOf(Assignments)
             S == AssignedIn(items)
             n(i) == items[i].left.name
             as == Assignments
  <1>1. /\ Pieces \in Seq(Seq(Token)) /\ Count \in Nat
        /\ \A i \in 1..Count : Pieces[i] = Item(i)
        /\ Len(Pieces) >= Count + 1
        /\ written.noise = <<>> => Len(Pieces) = Count + 1 /\ Pieces[Count + 1] = <<>>
    BY PiecesFound
  <1>2. DOMAIN Pieces = 1..Len(Pieces) /\ Len(Pieces) \in Nat
    BY <1>1, LenProperties
  <1>3. DOMAIN items = 1..Count
    <2>1. written \in Body
      BY DEF AsWritten, Parents
    <2>2. items \in BoundedSeq(Statement, MaxItems)
      BY <2>1 DEF Body
    <2>3. PICK c \in 0..MaxItems : items \in [1..c -> Statement]
      BY <2>2 DEF BoundedSeq, SeqOf
    <2> QED
      BY <2>3, BoundAssumption DEF Count
  <1>4. ASSUME NEW i \in 1..Count
        PROVE  /\ i \in DOMAIN Pieces
               /\ Assigns(Pieces[i]) <=> items[i].value # None
               /\ i \in S => Last(Idents(LeftOf(Pieces[i]))) = n(i) /\ RightOf(Pieces[i]) = items[i].value
    <2>1. items[i] \in Statement
      BY SourceItems DEF AsWritten
    <2>2. PICK s \in Statement : s = items[i]
      BY <2>1
    <2>3. Pieces[i] = StatementTokens(s)
      BY <1>1, <2>2 DEF Item, ItemTokens
    <2>4. /\ Assigns(Pieces[i]) <=> s.value # None
          /\ s.value # None => /\ Last(Idents(LeftOf(Pieces[i]))) = s.left.name
                               /\ RightOf(Pieces[i]) = s.value
      BY <2>3, StatementFound
    <2>5. i \in DOMAIN Pieces
      BY <1>1, <1>2
    <2>6. i \in S => s.value # None
      BY <2>2 DEF AssignedIn
    <2> QED
      BY <2>2, <2>4, <2>5, <2>6
  <1>5. \A i : i \in S <=> i \in 1..Count /\ items[i].value # None
    BY <1>3 DEF AssignedIn
  <1>6. \A i \in 1..Count : i \in PlacesIn(Pieces, Assigning) <=> i \in S
    <2> SUFFICES ASSUME NEW i \in 1..Count PROVE i \in PlacesIn(Pieces, Assigning) <=> i \in S
      OBVIOUS
    <2>1. i \in DOMAIN Pieces /\ (Assigns(Pieces[i]) <=> i \in S)
      BY <1>4, <1>5
    <2> QED
      BY <2>1 DEF PlacesIn, Assigning, ToSet
  <1>7. PICK m \in Nat : \E at :
              /\ Picks(Pieces, Assigning, m, at)
              /\ as = [k \in 1..m |-> [name  |-> Last(Idents(LeftOf(Pieces[at[k]]))),
                                       value |-> RightOf(Pieces[at[k]])]]
    BY <1>1, AssignmentsAt
  <1>8. PICK at : /\ Picks(Pieces, Assigning, m, at)
                  /\ as = [k \in 1..m |-> [name  |-> Last(Idents(LeftOf(Pieces[at[k]]))),
                                           value |-> RightOf(Pieces[at[k]])]]
    BY <1>7
  <1> HIDE DEF as, S, items
  <1>9. /\ \A k \in 1..m : at[k] \in PlacesIn(Pieces, Assigning)
        /\ \A i \in PlacesIn(Pieces, Assigning) : \E k \in 1..m : at[k] = i
        /\ \A k, j \in 1..m : k < j => at[k] < at[j]
        /\ \A k \in 1..m : at[k] \in DOMAIN Pieces
    BY <1>8 DEF Picks, PlacesIn
  <1>10. DOMAIN as = 1..m
    BY <1>8
  <1>11. \A k \in 1..m : at[k] \in S => as[k].name = n(at[k]) /\ as[k].value = items[at[k]].value
    <2> SUFFICES ASSUME NEW k \in 1..m, at[k] \in S
                 PROVE  as[k].name = n(at[k]) /\ as[k].value = items[at[k]].value
      OBVIOUS
    <2>1. at[k] \in 1..Count
      BY <1>5
    <2>2. as[k].name = Last(Idents(LeftOf(Pieces[at[k]]))) /\ as[k].value = RightOf(Pieces[at[k]])
      BY <1>8
    <2> QED
      BY <1>4, <2>1, <2>2
  <1>12. ASSUME NEW i \in S, \A j \in S : j < i => n(j) # n(i)
         PROVE  n(i) \in DOMAIN fields /\ fields[n(i)] = items[i].value
    <2>1. i \in 1..Count /\ i \in PlacesIn(Pieces, Assigning)
      BY <1>5, <1>6
    <2>2. PICK k \in 1..m : at[k] = i
      BY <1>9, <2>1
    <2>3. as[k].name = n(i) /\ as[k].value = items[i].value
      BY <1>11, <2>2
    <2>4. ASSUME NEW j \in 1..(k - 1) PROVE as[j].name # as[k].name
      <3>1. j \in 1..m /\ j < k
        OBVIOUS
      <3>2. at[j] < i /\ at[j] \in DOMAIN Pieces /\ at[j] \in PlacesIn(Pieces, Assigning)
        BY <1>9, <2>2, <3>1
      <3>3. at[j] \in 1..Count
        <4>1. i <= Count /\ i \in Nat
          BY <1>1, <2>1
        <4>2. at[j] \in Nat /\ at[j] >= 1
          BY <1>2, <3>2
        <4> QED
          BY <1>1, <3>2, <4>1, <4>2
      <3>4. at[j] \in S
        BY <1>6, <3>2, <3>3
      <3>5. as[j].name = n(at[j])
        BY <1>11, <3>1, <3>4
      <3> QED
        BY <1>12, <2>3, <3>2, <3>4, <3>5
    <2>5. as[k].name \in DOMAIN FieldsOf(as) /\ FieldsOf(as)[as[k].name] = as[k].value
      BY <1>10, <2>4, FirstCounts
    <2> QED
      BY <2>3, <2>5 DEF as
  <1>13. ASSUME written.noise = <<>>
         PROVE  DOMAIN fields = {n(i) : i \in S}
    <2>1. DOMAIN fields = {as[k].name : k \in 1..m}
      BY <1>10 DEF FieldsOf, as
    <2>2. \A k \in 1..m : at[k] \in S
      <3> SUFFICES ASSUME NEW k \in 1..m PROVE at[k] \in S
        OBVIOUS
      <3>1. at[k] \in 1..(Count + 1) /\ at[k] \in PlacesIn(Pieces, Assigning)
        BY <1>1, <1>2, <1>9, <1>13
      <3>2. at[k] # Count + 1
        <4> SUFFICES ASSUME at[k] = Count + 1 PROVE FALSE
          OBVIOUS
        <4>1. "=" \in ToSet(Pieces[Count + 1])
          BY <3>1 DEF PlacesIn, Assigning, Assigns
        <4>2. Pieces[Count + 1] = <<>>
          BY <1>1, <1>13
        <4> QED
          BY <4>1, <4>2 DEF ToSet
      <3>3. at[k] \in 1..Count
        BY <1>1, <3>1, <3>2
      <3> QED
        BY <1>6, <3>1, <3>3
    <2>3. \A k \in 1..m : as[k].name = n(at[k])
      BY <1>11, <2>2
    <2>4. \A i \in S : \E k \in 1..m : at[k] = i
      BY <1>5, <1>6, <1>9
    <2>5. \A x \in DOMAIN fields : \E i \in S : x = n(i)
      <3> SUFFICES ASSUME NEW k \in 1..m PROVE \E i \in S : as[k].name = n(i)
        BY <2>1
      <3> QED
        BY <2>2, <2>3
    <2>6. ASSUME NEW i \in S PROVE n(i) \in DOMAIN fields
      <3>1. PICK k \in 1..m : at[k] = i
        BY <2>4
      <3>2. as[k].name = n(i)
        BY <2>3, <3>1
      <3> QED
        BY <2>1, <3>2
    <2> QED
      BY <2>5, <2>6
  <1> QED
    BY <1>12, <1>13 DEF S, items

\* Lists of classes: the bases are the classes.
LEMMA BasesFound ==
    ASSUME IInv, AsWritten, Progress, Done, written.kind = "parents"
    PROVE  Bases = [i \in DOMAIN written.items |-> <<written.items[i].base>>]
  <1> DEFINE items == written.items
             S == ToSet(Pieces) \ {<<>>}
             left == Selected(Pieces, S)
  <1>1. PICK T : T = Seq(Token)
    OBVIOUS
  <1>2. /\ Pieces \in Seq(T) /\ Count \in Nat
        /\ \A i \in 1..Count : Pieces[i] = Item(i)
        /\ Count = 0 => Len(Pieces) = 1 /\ Pieces[1] = <<>>
        /\ Count # 0 => Len(Pieces) = Count
    <2>1. written.noise = <<>>
      BY SourceItems DEF AsWritten
    <2>2. /\ Pieces \in Seq(Seq(Token)) /\ Count \in Nat
          /\ \A i \in 1..Count : Pieces[i] = Item(i)
          /\ Count = 0 => Len(Pieces) = Count + 1 /\ Pieces[Count + 1] = <<>>
          /\ Count # 0 => Len(Pieces) = Count
      BY <2>1, PiecesFound, Zenon
    <2>3. Count = 0 => Count + 1 = 1
      OBVIOUS
    <2> QED
      BY <1>1, <2>2, <2>3, Zenon
  <1>3. DOMAIN Pieces = 1..Len(Pieces) /\ Len(Pieces) \in Nat
    BY <1>2, LenProperties
  <1>4. DOMAIN items = 1..Count
    <2>1. written \in Parents
      BY DEF AsWritten, Body
    <2>2. items \in BoundedSeq(Derivation, MaxItems)
      BY <2>1 DEF Parents
    <2>3. PICK c \in 0..MaxItems : items \in [1..c -> Derivation]
      BY <2>2 DEF BoundedSeq, SeqOf
    <2> QED
      BY <2>3, BoundAssumption DEF Count
  <1>5. ASSUME NEW i \in 1..Count
        PROVE  Pieces[i] # <<>> /\ BaseOf(Pieces[i]) = <<items[i].base>>
    <2>1. items[i] \in Derivation
      BY SourceItems DEF AsWritten
    <2>2. PICK d \in Derivation : d = items[i]
      BY <2>1
    <2>3. Pieces[i] = DerivationTokens(d)
      BY <1>2, <2>2 DEF Item, ItemTokens
    <2> QED
      BY <2>2, <2>3, DerivationFound
  <1>7. CASE Count = 0
    <2>1. S = {}
      BY <1>2, <1>3, <1>7 DEF ToSet
    <2>2. ToSet(Pieces) \cap S = {}
      BY <2>1
    <2>3. left = <<>>
      BY <1>2, <2>2, SelectedItself
    <2> HIDE DEF left, items
    <2>5. DOMAIN left = {} /\ DOMAIN items = {}
      BY <1>4, <1>7, <2>3
    <2>6. Bases = [i \in DOMAIN left |-> BaseOf(left[i])]
      BY DEF Bases, left
    <2> QED
      BY <2>5, <2>6 DEF items
  <1>8. CASE Count # 0
    <2>1. ToSet(Pieces) \subseteq S
      BY <1>2, <1>3, <1>5, <1>8 DEF ToSet
    <2> HIDE DEF S
    <2>2. left = Pieces
      BY <1>2, <2>1, SelectedItself
    <2> HIDE DEF left, items
    <2>5. DOMAIN left = 1..Count /\ DOMAIN items = 1..Count
      BY <1>2, <1>3, <1>4, <1>8, <2>2
    <2>6. Bases = [i \in DOMAIN left |-> BaseOf(left[i])]
      BY DEF Bases, left, S
    <2>7. \A i \in 1..Count : BaseOf(left[i]) = <<items[i].base>>
      BY <1>5, <2>2 DEF items
    <2> QED
      BY <2>5, <2>6, <2>7 DEF items
  <1> QED
    BY <1>7, <1>8

(***************************************************************************)
(* For all texts whose statements are in order, as OrderAssumption says,   *)
(* _extract_fields finds the fields that the statements assign, and        *)
(* whatever follows them hides none; and _extract_parent_info finds the    *)
(* classes.                                                                *)
(***************************************************************************)
THEOREM FieldsAreComplete == Spec => []FoundAsWritten
  <1>1. IInv /\ AsWritten /\ Progress => FoundAsWritten
    <2> SUFFICES ASSUME IInv, AsWritten, Progress, Done
                 PROVE  LET items == written.items
                            fields == FieldsOf(Assignments)
                        IN IF written.kind = "body"
                           THEN /\ \A i \in AssignedIn(items) :
                                      LET n == items[i].left.name
                                      IN (\A j \in AssignedIn(items) : j < i => items[j].left.name # n)
                                           => n \in DOMAIN fields /\ fields[n] = items[i].value
                                /\ written.noise = <<>> =>
                                      DOMAIN fields = {items[i].left.name : i \in AssignedIn(items)}
                           ELSE Bases = [i \in DOMAIN items |-> <<items[i].base>>]
      BY DEF FoundAsWritten
    <2>1. CASE written.kind = "body"
      BY <2>1, BodyFound
    <2>2. CASE written.kind # "body"
      <3>1. written.kind = "parents"
        BY <2>2, SourceItems DEF AsWritten
      <3> QED
        BY <2>2, <3>1, BasesFound
    <2> QED
      BY <2>1, <2>2
  <1> QED
    BY <1>1, ProgressHolds, PTL
=============================================================================
