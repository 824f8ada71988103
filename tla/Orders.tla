-------------------------------- MODULE Orders --------------------------------
(***************************************************************************)
(* Putting things in order: what Python's sorted and list.sort return, and *)
(* what a filter leaves of a list.  An order R on D is the set of pairs    *)
(* <<x, y>> of elements of D with x not after y.                           *)
(***************************************************************************)
EXTENDS Integers, FiniteSets, Sequences

\* What is not after x, and the number of x in the order.
UpTo(D, R, x) == {y \in D : <<y, x>> \in R}
Place(D, R, x) == Cardinality(UpTo(D, R, x))

\* The elements of D in the order R.
Arranged(D, R) == [k \in 1..Cardinality(D) |-> CHOOSE x \in D : Place(D, R, x) = k]

\* The numbers of D, from the smallest to the largest.
NotAbove(D) == {p \in D \X D : p[1] <= p[2]}
Ascending(D) == Arranged(D, NotAbove(D))

\* The elements of s that are in S, in the order of s.
PlacesIn(s, S) == {i \in DOMAIN s : s[i] \in S}
Selected(s, S) ==
    LET at == Ascending(PlacesIn(s, S))
    IN [k \in DOMAIN at |-> s[at[k]]]

\* Python's comparison of tuples: the first place at which they differ decides.
Precedes(s, t) ==
    \E i \in DOMAIN s : s[i] < t[i] /\ \A j \in 1..(i - 1) : s[j] = t[j]

\* Which of two elements list.sort puts first, by their keys and, if those are
\* equal, by their places.
NotAfter(keys) ==
    {p \in (DOMAIN keys) \X (DOMAIN keys) :
        \/ Precedes(keys[p[1]], keys[p[2]])
        \/ ~Precedes(keys[p[2]], keys[p[1]]) /\ p[1] <= p[2]}

\* s in the order of the keys of its elements.
SortedBy(s, keys) ==
    LET from == Arranged(DOMAIN s, NotAfter(keys))
    IN [k \in DOMAIN s |-> s[from[k]]]

\* The places of ss, a sequence of sequences, and how many of them come before the i-th.
Cells(ss) == UNION {{<<i, j>> : j \in DOMAIN ss[i]} : i \in DOMAIN ss}
Ahead(ss, i) == Cardinality({c \in Cells(ss) : c[1] < i})

\* The sequences of ss one after the other, as nested loops go over them.
Owner(ss, k) == CHOOSE i \in DOMAIN ss : k - Ahead(ss, i) \in DOMAIN ss[i]
Concatenated(ss) ==
    [k \in 1..Cardinality(Cells(ss)) |->
        LET i == Owner(ss, k) IN ss[i][k - Ahead(ss, i)]]
===============================================================================
