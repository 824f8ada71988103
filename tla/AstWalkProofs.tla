---------------------------- MODULE AstWalkProofs ----------------------------
(***************************************************************************)
(* Proofs about AstWalk for every set of files and every syntax tree: the  *)
(* types, and that the explicit-stack _walk yields each node of the tree   *)
(* once and, when its stack is empty, has yielded all of them.             *)
(***************************************************************************)
EXTENDS AstWalk, SequenceLemmas

\* Every yielded node is the root or the child of a yielded node.
ParentsYielded ==
    \A n \in ToSet(visited) : n = tree.root \/ \E m \in ToSet(visited) : ChildOf(tree, m, n)

\* What is still to be yielded is nested in the nodes of the stack.
Covered ==
    \A n \in tree.nodes \ ToSet(visited) :
       \E i \in DOMAIN stack : stack[i] \in Ancestors(tree)[n]

\* What is nested in a node of the stack comes before what is nested in one
\* further down.
StackOrder ==
    \A i, j \in DOMAIN stack : i < j =>
       \A m, n \in tree.nodes :
          stack[j] \in Ancestors(tree)[m] /\ stack[i] \in Ancestors(tree)[n]
             => InSourceOrder(tree, m, n)

\* The nodes yielded so far of which the consumer keeps a row in list k.
Kept(k) == {n \in ToSet(visited) : Keeps(n) /\ tree.type[n] = k}

\* The rows are those of the yielded nodes that the consumer keeps, one for
\* each, in source order.
RowsInOrder ==
    \A k \in InventoryKinds : ListsInOrder(rows[k], DOMAIN rows[k], Kept(k))

\* The inductive invariant of the walk: the frontier alone does not say that
\* the children of the node on top of the stack have not been yielded, nor
\* SourceOrder that what is on the stack is in order.
IInv ==
    /\ TypeOK
    /\ EachNodeOnce
    /\ Frontier
    /\ ParentsYielded
    /\ Covered
    /\ StackOrder
    /\ SourceOrder
    /\ RowsInOrder

\* The walk is of a tree.
LEMMA WalkedTree == TypeOK => IsTree(tree)
  BY TreeAssumption DEF TypeOK, tree

-----------------------------------------------------------------------------
\* A node other than the root has one parent, whose child it is.
LEMMA ParentOfNode ==
    ASSUME NEW t, IsTree(t), NEW n \in t.nodes, n # t.root
    PROVE  Parent(t, n) \in t.nodes /\ ChildOf(t, Parent(t, n), n)
  <1>1. \E m \in t.nodes : ChildOf(t, m, n)
    <2> SUFFICES ASSUME \A m \in t.nodes : ~ChildOf(t, m, n) PROVE FALSE
      OBVIOUS
    <2> DEFINE S == t.nodes \ {n}
    <2>1. S \in SUBSET t.nodes /\ t.root \in S
      BY DEF IsTree, Shape
    <2>2. Closed(t, S)
      <3> SUFFICES ASSUME NEW m \in S, NEW i \in DOMAIN t.kids[m] PROVE t.kids[m][i] \in S
        BY DEF Closed
      <3>1. t.kids[m] \in Seq(t.nodes)
        BY DEF IsTree, Shape
      <3>2. t.kids[m][i] \in t.nodes
        BY <3>1, LenProperties
      <3> QED
        BY <3>2 DEF ChildOf
    <2>3. S = t.nodes
      BY <2>1, <2>2 DEF IsTree, Connected
    <2> QED
      BY <2>3
  <1> QED
    BY <1>1 DEF Parent

\* The parent of a child of m is m, and the root is no child.
LEMMA ParentOfChild ==
    ASSUME NEW t, IsTree(t), NEW m \in t.nodes, NEW i \in DOMAIN t.kids[m]
    PROVE  /\ t.kids[m][i] \in t.nodes
           /\ t.kids[m][i] # t.root
           /\ Parent(t, t.kids[m][i]) = m
  <1> DEFINE n == t.kids[m][i]
  <1>1. t.kids[m] \in Seq(t.nodes)
    BY DEF IsTree, Shape
  <1>2. n \in t.nodes
    BY <1>1, LenProperties
  <1>3. n # t.root
    BY DEF IsTree, OneParent, ChildOf
  <1>4. \A p \in t.nodes : ChildOf(t, p, n) => p = m
    BY DEF IsTree, OneParent, ChildOf
  <1> QED
    BY <1>2, <1>3, <1>4, ParentOfNode

\* What holds of the root, and of the children of the nodes it holds of, holds
\* of every node.
LEMMA NodesUnder ==
    ASSUME NEW t, IsTree(t), NEW S \in SUBSET t.nodes, t.root \in S,
           \A m \in S : \A i \in DOMAIN t.kids[m] : t.kids[m][i] \in S
    PROVE  S = t.nodes
  BY DEF IsTree, Connected, Closed

\* The nodes a node is nested in are defined for every tree: as the nodes
\* whose smallest closed set it is in.
LEMMA AncestorsEquation ==
    ASSUME NEW t, IsTree(t)
    PROVE  Ancestors(t) =
              [n \in t.nodes |->
                 IF n = t.root THEN {n} ELSE {n} \cup Ancestors(t)[Parent(t, n)]]
  <1> DEFINE Eq(g) == g = [n \in t.nodes |-> IF n = t.root THEN {n} ELSE {n} \cup g[Parent(t, n)]]
             Under(m) == {n \in t.nodes : \A S \in SUBSET t.nodes : m \in S /\ Closed(t, S) => n \in S}
             g0 == [n \in t.nodes |-> {m \in t.nodes : n \in Under(m)}]
  <1>1. ASSUME NEW m \in t.nodes PROVE m \in Under(m)
    OBVIOUS
  <1>2. ASSUME NEW m \in t.nodes, NEW n \in Under(m), NEW i \in DOMAIN t.kids[n]
        PROVE  t.kids[n][i] \in Under(m)
    BY <1>2, ParentOfChild DEF Closed
  <1>3. ASSUME NEW m \in t.nodes, NEW n \in Under(m), n # m
        PROVE  n # t.root /\ Parent(t, n) \in Under(m)
    <2> SUFFICES ASSUME ~(n # t.root /\ Parent(t, n) \in Under(m)) PROVE FALSE
      OBVIOUS
    <2> DEFINE S == Under(m) \ {n}
    <2>1. m \in S /\ S \in SUBSET t.nodes
      BY <1>1, <1>3
    <2>2. ASSUME NEW p \in S, NEW i \in DOMAIN t.kids[p] PROVE t.kids[p][i] \in S
      <3>1. t.kids[p][i] \in Under(m)
        BY <1>2, <2>2
      <3>2. t.kids[p][i] # n
        BY <2>2, ParentOfChild
      <3> QED
        BY <3>1, <3>2
    <2>3. Closed(t, S)
      BY <2>2 DEF Closed
    <2>4. n \in S
      BY <1>3, <2>1, <2>3
    <2> QED
      BY <2>4
  <1>4. ASSUME NEW n \in t.nodes, n # t.root
        PROVE  g0[n] = {n} \cup g0[Parent(t, n)]
    <2>1. PICK i \in DOMAIN t.kids[Parent(t, n)] : t.kids[Parent(t, n)][i] = n
      BY <1>4, ParentOfNode DEF ChildOf
    <2>2. Parent(t, n) \in t.nodes
      BY <1>4, ParentOfNode
    <2>3. ASSUME NEW m \in t.nodes
          PROVE  n \in Under(m) <=> m = n \/ Parent(t, n) \in Under(m)
      <3> HIDE DEF Under
      <3>1. Parent(t, n) \in Under(m) => n \in Under(m)
        BY <1>2, <2>1
      <3> QED
        BY <1>1, <1>3, <3>1
    <2> HIDE DEF Under
    <2> QED
      BY <2>2, <2>3
  <1>5. g0[t.root] = {t.root}
    <2>1. t.root \in t.nodes
      BY DEF IsTree, Shape
    <2> HIDE DEF Under
    <2> QED
      BY <1>1, <1>3, <2>1
  <1>6. Eq(g0)
    <2>1. g0 = [n \in t.nodes |-> g0[n]]
      OBVIOUS
    <2> HIDE DEF g0
    <2> QED
      BY <1>4, <1>5, <2>1
  <1>7. Ancestors(t) = CHOOSE g : Eq(g)
    BY DEF Ancestors
  <1>8. \E g : Eq(g)
    BY <1>6
  <1>9. Eq(CHOOSE g : Eq(g))
    <2> HIDE DEF Eq
    <2> QED
      BY <1>8
  <1> QED
    BY <1>7, <1>9

\* The nodes that a child is nested in: itself, and those its parent is in.
LEMMA AncestorsOfChild ==
    ASSUME NEW t, IsTree(t)
    PROVE  /\ Ancestors(t)[t.root] = {t.root}
           /\ \A n \in t.nodes : n \in Ancestors(t)[n]
           /\ \A m \in t.nodes : \A i \in DOMAIN t.kids[m] :
                 Ancestors(t)[t.kids[m][i]] = {t.kids[m][i]} \cup Ancestors(t)[m]
  <1>1. t.root \in t.nodes
    BY DEF IsTree, Shape
  <1> DEFINE A == Ancestors(t)
  <1>2. A = [n \in t.nodes |-> IF n = t.root THEN {n} ELSE {n} \cup A[Parent(t, n)]]
    BY AncestorsEquation, Zenon
  <1> HIDE DEF A
  <1>3. \A n \in t.nodes : A[n] = IF n = t.root THEN {n} ELSE {n} \cup A[Parent(t, n)]
    BY <1>2, Zenon
  <1>4. \A n \in t.nodes : n \in A[n]
    BY <1>3
  <1>5. ASSUME NEW m \in t.nodes, NEW i \in DOMAIN t.kids[m]
        PROVE  A[t.kids[m][i]] = {t.kids[m][i]} \cup A[m]
    <2>1. /\ t.kids[m][i] \in t.nodes /\ t.kids[m][i] # t.root
          /\ Parent(t, t.kids[m][i]) = m
      BY ParentOfChild
    <2> QED
      BY <1>3, <2>1
  <1>6. A[t.root] = {t.root}
    BY <1>1, <1>3
  <1> QED
    BY <1>4, <1>5, <1>6 DEF A

\* Every node is nested in the root.
LEMMA UnderRoot ==
    ASSUME NEW t, IsTree(t), NEW n \in t.nodes
    PROVE  t.root \in Ancestors(t)[n]
  <1> DEFINE S == {m \in t.nodes : t.root \in Ancestors(t)[m]}
  <1>1. t.root \in S
    BY AncestorsOfChild DEF IsTree, Shape
  <1>2. ASSUME NEW m \in S, NEW i \in DOMAIN t.kids[m] PROVE t.kids[m][i] \in S
    BY AncestorsOfChild, ParentOfChild
  <1>3. S = t.nodes
    <2>1. S \in SUBSET t.nodes
      OBVIOUS
    <2> HIDE DEF S
    <2> QED
      BY <1>1, <1>2, <2>1, NodesUnder
  <1> QED
    BY <1>3

\* A node nested in c is c, or is nested in one of the children of c.
LEMMA UnderChild ==
    ASSUME NEW t, IsTree(t), NEW c \in t.nodes, NEW n \in t.nodes,
           c \in Ancestors(t)[n], n # c
    PROVE  \E i \in DOMAIN t.kids[c] : t.kids[c][i] \in Ancestors(t)[n]
  <1> DEFINE P(x) == c \in Ancestors(t)[x] /\ x # c
                        => \E i \in DOMAIN t.kids[c] : t.kids[c][i] \in Ancestors(t)[x]
             S == {m \in t.nodes : P(m)}
  <1>1. t.root \in S
    BY AncestorsOfChild DEF IsTree, Shape
  <1>2. ASSUME NEW m \in S, NEW j \in DOMAIN t.kids[m] PROVE t.kids[m][j] \in S
    <2> DEFINE k == t.kids[m][j]
    <2>1. k \in t.nodes /\ k \in Ancestors(t)[k]
      BY AncestorsOfChild, ParentOfChild
    <2>2. Ancestors(t)[k] = {k} \cup Ancestors(t)[m]
      BY AncestorsOfChild
    <2>3. ASSUME c \in Ancestors(t)[k], k # c
          PROVE  \E i \in DOMAIN t.kids[c] : t.kids[c][i] \in Ancestors(t)[k]
      <3>1. CASE m = c
        BY <2>1, <3>1
      <3>2. CASE m # c
        BY <2>2, <2>3, <3>2
      <3> QED
        BY <3>1, <3>2
    <2> QED
      BY <2>1, <2>3
  <1>3. S = t.nodes
    <2>1. S \in SUBSET t.nodes
      OBVIOUS
    <2> HIDE DEF S
    <2> QED
      BY <1>1, <1>2, <2>1, NodesUnder
  <1> QED
    BY <1>3

\* What is nested in a child of c is nested in c.
LEMMA UnderParent ==
    ASSUME NEW t, IsTree(t), NEW c \in t.nodes, NEW i \in DOMAIN t.kids[c],
           NEW n \in t.nodes, t.kids[c][i] \in Ancestors(t)[n]
    PROVE  c \in Ancestors(t)[n]
  <1>0. t.root \in t.nodes
    BY DEF IsTree, Shape
  <1> DEFINE S == {m \in t.nodes : t.kids[c][i] \in Ancestors(t)[m] => c \in Ancestors(t)[m]}
  <1>1. t.root \in S
    <2>1. t.kids[c][i] # t.root /\ Ancestors(t)[t.root] = {t.root}
      BY AncestorsOfChild, ParentOfChild
    <2> QED
      BY <1>0, <2>1
  <1>2. ASSUME NEW m \in S, NEW j \in DOMAIN t.kids[m] PROVE t.kids[m][j] \in S
    <2> DEFINE k == t.kids[m][j]
    <2>1. k \in t.nodes /\ Parent(t, k) = m /\ Parent(t, t.kids[c][i]) = c
      BY ParentOfChild
    <2>2. Ancestors(t)[k] = {k} \cup Ancestors(t)[m]
      BY AncestorsOfChild
    <2>3. CASE t.kids[c][i] = k
      BY <2>1, <2>2, <2>3, AncestorsOfChild
    <2>4. CASE t.kids[c][i] # k
      BY <2>1, <2>2, <2>4
    <2> QED
      BY <2>3, <2>4
  <1>3. S = t.nodes
    <2>1. S \in SUBSET t.nodes
      OBVIOUS
    <2> HIDE DEF S
    <2> QED
      BY <1>1, <1>2, <2>1, NodesUnder
  <1> QED
    BY <1>3

-----------------------------------------------------------------------------
\* The rows have a name of the file, or None.
LEMMA NameOfType ==
    ASSUME TypeOK, NEW n \in tree.nodes
    PROVE  NameOf(n) \in Name \cup {NoName}
  <1>1. Shape(tree)
    BY WalkedTree DEF IsTree
  <1>2. tree.kids[n] \in Seq(tree.nodes) /\ tree.text \in [tree.nodes -> Name]
    BY <1>1 DEF Shape
  <1>3. NameChildren(n) \in SUBSET Nat /\ NameChildren(n) \subseteq DOMAIN tree.kids[n]
    BY <1>2, LenProperties DEF NameChildren
  <1>4. CASE NameChildren(n) = {}
    BY <1>4 DEF NameOf
  <1>5. CASE NameChildren(n) # {}
    <2>1. Min(NameChildren(n)) \in 1..Len(tree.kids[n])
      BY <1>2, <1>3, <1>5, MinInSet, LenProperties
    <2>2. tree.kids[n][Min(NameChildren(n))] \in tree.nodes
      BY <1>2, <2>1, ElementOfSeq
    <2> QED
      BY <1>2, <1>5, <2>2 DEF NameOf
  <1> QED
    BY <1>4, <1>5

\* The value of an include is a text or None.
LEMMA IncludeValueType ==
    ASSUME TypeOK, NEW n \in tree.nodes
    PROVE  IncludeValue(n) \in Name \cup {NoName}
  <1>1. tree.kids[n] \in Seq(tree.nodes) /\ tree.text \in [tree.nodes -> Name]
    BY WalkedTree DEF IsTree, Shape
  <1>2. CASE Len(tree.kids[n]) >= 2
    <2>1. 2 \in 1..Len(tree.kids[n])
      BY <1>1, <1>2, LenProperties
    <2> QED
      BY <1>1, <1>2, <2>1, ElementOfSeq DEF IncludeValue
  <1>3. CASE ~(Len(tree.kids[n]) >= 2)
    BY <1>3 DEF IncludeValue
  <1> QED
    BY <1>2, <1>3

\* The row of a node has its type.
LEMMA RowHasType ==
    ASSUME TypeOK, NEW n \in tree.nodes
    PROVE  Row(n) \in RowType
  <1>1. tree.line[n] \in Nat
    BY WalkedTree DEF IsTree, Shape
  <1> QED
    BY <1>1, NameOfType, IncludeValueType DEF Row, RowType

\* Collecting a node, or passing over it, keeps the lists of rows.
LEMMA CollectType ==
    ASSUME TypeOK, NEW n \in tree.nodes
    PROVE  Collect(n) \in [InventoryKinds -> Seq(RowType)]
  <1>1. CASE Keeps(n)
    <2>1. tree.type[n] \in InventoryKinds
      BY <1>1 DEF Keeps, InventoryKinds, RecordKinds
    <2>2. Append(rows[tree.type[n]], Row(n)) \in Seq(RowType)
      BY <2>1, RowHasType, AppendProperties DEF TypeOK
    <2> QED
      BY <1>1, <2>1, <2>2 DEF Collect, TypeOK
  <1>2. CASE ~Keeps(n)
    BY <1>2 DEF Collect, TypeOK
  <1> QED
    BY <1>1, <1>2

\* A row appended for a node that comes after those listed keeps the order.
LEMMA RowAppended ==
    ASSUME TypeOK, NEW list \in Seq(RowType), NEW nodes \in SUBSET tree.nodes,
           NEW c \in tree.nodes,
           ListsInOrder(list, DOMAIN list, nodes),
           \A n \in nodes : InSourceOrder(tree, n, c)
    PROVE  ListsInOrder(Append(list, Row(c)), DOMAIN Append(list, Row(c)), nodes \cup {c})
  <1>1. PICK l \in Nat : l = Len(list)
    BY LenProperties
  <1>2. Row(c) \in RowType
    BY RowHasType
  <1>3. /\ DOMAIN list = 1..l /\ DOMAIN Append(list, Row(c)) = 1..(l + 1)
        /\ \A i \in 1..l : Append(list, Row(c))[i] = list[i]
        /\ Append(list, Row(c))[l + 1] = Row(c)
    BY <1>1, <1>2, AppendProperties, LenProperties
  <1>4. PICK node \in [1..l -> nodes] :
           /\ nodes = {node[i] : i \in 1..l}
           /\ \A i, j \in 1..l : i < j => InSourceOrder(tree, node[i], node[j])
           /\ \A i \in 1..l : list[i] = Row(node[i])
    BY <1>3 DEF ListsInOrder
  <1> DEFINE more == [i \in 1..(l + 1) |-> IF i = l + 1 THEN c ELSE node[i]]
  <1>5. /\ \A i \in 1..l : more[i] = node[i] /\ i \in 1..(l + 1)
        /\ more[l + 1] = c /\ l + 1 \in 1..(l + 1)
        /\ \A i \in 1..(l + 1) : i \in 1..l \/ i = l + 1
    OBVIOUS
  <1>6. more \in [1..(l + 1) -> nodes \cup {c}]
    OBVIOUS
  <1> HIDE DEF more
  <1>7. nodes \cup {c} = {more[i] : i \in 1..(l + 1)}
    BY <1>4, <1>5
  <1>8. ASSUME NEW i \in 1..(l + 1), NEW j \in 1..(l + 1), i < j
        PROVE  InSourceOrder(tree, more[i], more[j])
    <2>1. i \in 1..l
      BY <1>8
    <2>2. CASE j \in 1..l
      BY <1>4, <1>5, <1>8, <2>1, <2>2
    <2>3. CASE j = l + 1
      BY <1>4, <1>5, <2>1, <2>3
    <2> QED
      BY <1>5, <2>2, <2>3
  <1>9. \A i \in 1..(l + 1) : Append(list, Row(c))[i] = Row(more[i])
    BY <1>3, <1>4, <1>5
  <1> QED
    BY <1>3, <1>6, <1>7, <1>8, <1>9 DEF ListsInOrder

-----------------------------------------------------------------------------
\* A walk starts with the root on the stack and nothing collected.
LEMMA InitIInv == Init => IInv
  <1> SUFFICES ASSUME Init PROVE IInv
    OBVIOUS
  <1>1. IsTree(tree)
    BY TreeAssumption DEF Init, tree
  <1>2. tree.root \in tree.nodes
    BY <1>1 DEF IsTree, Shape
  <1>3. stack = <<tree.root>> /\ visited = <<>>
    BY DEF Init
  <1>4. TypeOK
    <2>1. stack \in Seq(tree.nodes)
      BY <1>2, <1>3, SingletonSeq
    <2>2. visited \in Seq(tree.nodes)
      BY <1>3
    <2>3. rows \in [InventoryKinds -> Seq(RowType)]
      BY EmptySeq DEF Init
    <2> QED
      BY <2>1, <2>2, <2>3 DEF Init, TypeOK
  <1>5. ToSet(visited) = {} /\ IsInjective(visited)
    BY <1>3 DEF ToSet, IsInjective
  <1>6. ToSet(stack) = {tree.root} /\ IsInjective(stack)
    BY <1>2, <1>3, SingletonSeq
  <1>7. Covered /\ StackOrder
    <2>1. DOMAIN stack = {1} /\ stack[1] = tree.root
      BY <1>2, <1>3
    <2>2. ~ \E i, j \in DOMAIN stack : i < j
      BY <2>1
    <2> QED
      BY <1>1, <2>1, <2>2, UnderRoot DEF Covered, StackOrder
  <1>8. RowsInOrder
    <2> SUFFICES ASSUME NEW k \in InventoryKinds
                 PROVE  ListsInOrder(rows[k], DOMAIN rows[k], Kept(k))
      BY DEF RowsInOrder
    <2>1. rows[k] = <<>> /\ Kept(k) = {}
      BY <1>5 DEF Init, Kept
    <2>2. DOMAIN rows[k] = {}
      BY <2>1
    <2>3. <<>> \in [DOMAIN rows[k] -> Kept(k)]
      BY <2>1, <2>2
    <2> QED
      BY <2>1, <2>2, <2>3 DEF ListsInOrder
  <1> QED
    BY <1>2, <1>4, <1>5, <1>6, <1>7, <1>8
       DEF IInv, EachNodeOnce, Frontier, ParentsYielded, SourceOrder

\* Each step of the walk keeps every part of the invariant.
LEMMA NextIInv == IInv /\ [Next]_vars => IInv'
  <1> SUFFICES ASSUME IInv, [Next]_vars PROVE IInv'
    OBVIOUS
  <1>1. CASE UNCHANGED vars
    <2>1. /\ file' = file /\ consumer' = consumer /\ stack' = stack
          /\ visited' = visited /\ rows' = rows /\ tree' = tree
      BY <1>1 DEF vars, tree
    <2>2. \A n : Row(n)' = Row(n) /\ (Keeps(n)' <=> Keeps(n))
      BY <2>1 DEF Row, NameOf, NameChildren, IncludeValue, Keeps
    <2>3. TypeOK' /\ EachNodeOnce' /\ Frontier' /\ ParentsYielded'
      BY <2>1 DEF IInv, TypeOK, EachNodeOnce, Frontier, ParentsYielded
    <2>4. Covered' /\ StackOrder' /\ SourceOrder'
      BY <2>1 DEF IInv, Covered, StackOrder, SourceOrder
    <2>5. RowsInOrder'
      BY <2>1, <2>2 DEF IInv, RowsInOrder, ListsInOrder, Kept
    <2> QED
      BY <2>3, <2>4, <2>5 DEF IInv
  <1>2. CASE Visit
    <2> DEFINE c == Last(stack)
               K == ToSet(tree.kids[c])
               V == ToSet(visited)
               S == ToSet(stack)
    <2>1. /\ file \in File /\ consumer \in {"inventory", "grab"}
          /\ stack \in Seq(tree.nodes) /\ visited \in Seq(tree.nodes)
          /\ stack # <<>>
      BY <1>2 DEF IInv, TypeOK, Visit
    <2>2. /\ file' = file /\ consumer' = consumer /\ tree' = tree
          /\ visited' = Append(visited, c)
          /\ stack' = Front(stack) \o Reverse(tree.kids[c])
          /\ rows' = Collect(c)
      BY <1>2 DEF Visit, Pushed, tree
    <2>3. IsTree(tree) /\ tree.kids \in [tree.nodes -> Seq(tree.nodes)]
      BY WalkedTree DEF IInv, IsTree, Shape
    <2>4. c \in tree.nodes /\ c \in S
      <3>1. c = stack[Len(stack)] /\ c \in tree.nodes /\ Len(stack) \in DOMAIN stack
        BY <2>1, FrontProperties, LenProperties
      <3> QED
        BY <3>1 DEF ToSet
    <2>5. tree.kids[c] \in Seq(tree.nodes)
      BY <2>3, <2>4
    <2>6. c \notin V /\ (c = tree.root \/ \E m \in V : ChildOf(tree, m, c))
      BY <2>4 DEF IInv, Frontier
    <2>7. \A n \in tree.nodes : n \in K <=> ChildOf(tree, c, n)
      BY DEF ToSet, ChildOf
    <2>8. K \subseteq tree.nodes
      BY <2>5, LenProperties DEF ToSet
    <2>9. V \subseteq tree.nodes
      BY <2>1, LenProperties DEF ToSet
    \* A child of c has no other parent, so it has not been reached before.
    <2>10. \A n \in K : n # tree.root /\ \A m \in tree.nodes : ChildOf(tree, m, n) => m = c
      BY <2>3, <2>4, <2>7, <2>8 DEF IsTree, OneParent, ChildOf
    <2>11. K \cap V = {} /\ c \notin K
      BY <2>6, <2>8, <2>9, <2>10 DEF IInv, ParentsYielded
    <2>12. K \cap S = {}
      BY <2>6, <2>8, <2>9, <2>10 DEF IInv, Frontier
    <2>13. IsInjective(tree.kids[c])
      BY <2>3, <2>4 DEF IsTree, OneParent, IsInjective
    <2>14. ToSet(visited') = V \cup {c} /\ IsInjective(visited')
      BY <2>1, <2>2, <2>4, <2>6, AppendSet DEF IInv, EachNodeOnce
    <2>15. ToSet(stack') = (S \ {c}) \cup K /\ IsInjective(stack')
      <3>1. /\ ToSet(Front(stack)) = S \ {c} /\ IsInjective(Front(stack))
            /\ Front(stack) \in Seq(tree.nodes)
        BY <2>1, FrontSet, FrontProperties DEF IInv, Frontier
      <3>2. /\ ToSet(Reverse(tree.kids[c])) = K /\ IsInjective(Reverse(tree.kids[c]))
            /\ Reverse(tree.kids[c]) \in Seq(tree.nodes)
        BY <2>5, <2>13, ReverseSet, ReverseProperties
      <3>3. ToSet(Front(stack)) \cap ToSet(Reverse(tree.kids[c])) = {}
        BY <2>12, <3>1, <3>2
      <3> QED
        BY <2>2, <3>1, <3>2, <3>3, ConcatSet
    <2>16. TypeOK'
      <3>1. visited' \in Seq(tree.nodes)
        BY <2>1, <2>2, <2>4, AppendProperties
      <3>2. stack' \in Seq(tree.nodes)
        BY <2>1, <2>2, <2>5, FrontProperties, ReverseProperties, ConcatProperties
      <3>3. rows' \in [InventoryKinds -> Seq(RowType)]
        BY <2>2, <2>4, CollectType DEF IInv
      <3> QED
        BY <2>1, <2>2, <3>1, <3>2, <3>3 DEF TypeOK
    <2>17. EachNodeOnce'
      BY <2>14 DEF EachNodeOnce
    <2>18. Frontier'
      <3>1. S = {n \in tree.nodes :
                   n \notin V /\ (n = tree.root \/ \E m \in V : ChildOf(tree, m, n))}
        BY DEF IInv, Frontier
      <3>2. (S \ {c}) \cup K =
               {n \in tree.nodes :
                   /\ n \notin V \cup {c}
                   /\ n = tree.root \/ \E m \in V \cup {c} : ChildOf(tree, m, n)}
        BY <2>7, <2>8, <2>11, <3>1
      <3> QED
        BY <2>2, <2>14, <2>15, <3>2 DEF Frontier
    <2>19. ParentsYielded'
      BY <2>2, <2>6, <2>14 DEF IInv, ParentsYielded
    \* The stack but for its top, then the children of c, the first on top.
    <2>20. PICK l \in Nat, h \in Nat :
              /\ Len(stack) = l + 1 /\ Len(tree.kids[c]) = h
              /\ DOMAIN stack = 1..(l + 1) /\ DOMAIN tree.kids[c] = 1..h
              /\ DOMAIN stack' = 1..(l + h) /\ stack[l + 1] = c
              /\ \A i \in 1..l : stack'[i] = stack[i]
              /\ \A i \in 1..h : stack'[l + i] = tree.kids[c][h - i + 1]
      <3>1. PICK l \in Nat, h \in Nat : Len(stack) = l + 1 /\ Len(tree.kids[c]) = h
        <4>1. Len(stack) - 1 \in Nat /\ Len(stack) = (Len(stack) - 1) + 1
          BY <2>1, FrontProperties, LenProperties
        <4> QED
          BY <2>5, <4>1, LenProperties
      <3>2. /\ Front(stack) \in Seq(tree.nodes) /\ Len(Front(stack)) = l
            /\ \A i \in 1..l : Front(stack)[i] = stack[i]
            /\ stack[l + 1] = c
        BY <2>1, <3>1, FrontProperties
      <3>3. /\ Reverse(tree.kids[c]) \in Seq(tree.nodes) /\ Len(Reverse(tree.kids[c])) = h
            /\ \A i \in 1..h : Reverse(tree.kids[c])[i] = tree.kids[c][h - i + 1]
        BY <2>5, <3>1, ReverseProperties
      <3>4. /\ \A i \in 1..l : stack'[i] = Front(stack)[i]
            /\ \A i \in 1..h : stack'[l + i] = Reverse(tree.kids[c])[i]
            /\ DOMAIN stack' = 1..(l + h)
        <4> DEFINE s == Front(stack)
                   t == Reverse(tree.kids[c])
        <4>1. s \in Seq(tree.nodes) /\ t \in Seq(tree.nodes) /\ Len(s) = l /\ Len(t) = h
          BY <3>2, <3>3
        <4>2. stack' = s \o t
          BY <2>2
        <4> HIDE DEF s, t
        <4>3. /\ DOMAIN (s \o t) = 1..(l + h)
              /\ \A i \in 1..l : (s \o t)[i] = s[i]
              /\ \A i \in 1..h : (s \o t)[l + i] = t[i]
          <5>1. DOMAIN (s \o t) = 1..(l + h)
            BY <3>1, <4>1, LenProperties
          <5>2. \A i \in 1..l : (s \o t)[i] = s[i]
            BY <3>1, <4>1
          <5>3. \A i \in 1..h : (s \o t)[l + i] = t[i]
            BY <3>1, <4>1
          <5> QED
            BY <5>1, <5>2, <5>3
        <4>4. /\ \A i \in 1..l : stack'[i] = s[i]
              /\ \A i \in 1..h : stack'[l + i] = t[i]
              /\ DOMAIN stack' = 1..(l + h)
          BY <4>2, <4>3
        <4> QED
          BY <4>4 DEF s, t
      <3>5. DOMAIN stack = 1..(l + 1) /\ DOMAIN tree.kids[c] = 1..h
        BY <2>1, <2>5, <3>1, LenProperties
      <3> QED
        BY <3>1, <3>2, <3>3, <3>4, <3>5
    <2> DEFINE A == Ancestors(tree)
    <2>21. Covered'
      <3> SUFFICES ASSUME NEW n \in tree.nodes, n \notin V, n # c
                   PROVE  \E i \in DOMAIN stack' : stack'[i] \in A[n]
        BY <2>2, <2>14 DEF Covered
      <3>1. PICK i \in 1..(l + 1) : stack[i] \in A[n]
        BY <2>20 DEF IInv, Covered
      <3>2. CASE i \in 1..l
        BY <2>20, <3>1, <3>2
      <3>3. CASE i = l + 1
        <4>1. PICK j \in 1..h : tree.kids[c][j] \in A[n]
          BY <2>3, <2>4, <2>20, <3>1, <3>3, UnderChild
        <4>2. h - j + 1 \in 1..h /\ h - (h - j + 1) + 1 = j
          OBVIOUS
        <4>3. stack'[l + (h - j + 1)] = tree.kids[c][j]
          BY <2>20, <4>2
        <4>4. l + (h - j + 1) \in 1..(l + h)
          BY <4>2
        <4> QED
          BY <2>20, <4>1, <4>3, <4>4
      <3> QED
        BY <3>2, <3>3
    \* What is nested in c comes before what is nested below it on the stack.
    <2>22. ASSUME NEW i \in 1..l, NEW m \in tree.nodes, NEW n \in tree.nodes,
                  c \in A[m], stack[i] \in A[n]
           PROVE  InSourceOrder(tree, m, n)
      <3>1. i < l + 1 /\ i \in DOMAIN stack /\ l + 1 \in DOMAIN stack
        BY <2>20
      <3> QED
        BY <2>20, <2>22, <3>1 DEF IInv, StackOrder
    <2>23. StackOrder'
      <3> SUFFICES ASSUME NEW i \in 1..(l + h), NEW j \in 1..(l + h), i < j,
                          NEW m \in tree.nodes, NEW n \in tree.nodes,
                          stack'[j] \in A[m], stack'[i] \in A[n]
                   PROVE  InSourceOrder(tree, m, n)
        BY <2>2, <2>20 DEF StackOrder
      <3>1. CASE j \in 1..l
        <4>1. i \in 1..l /\ i \in DOMAIN stack /\ j \in DOMAIN stack
          BY <2>20, <3>1
        <4>2. stack[j] \in A[m] /\ stack[i] \in A[n]
          BY <2>20, <3>1, <4>1
        <4> QED
          BY <4>1, <4>2 DEF IInv, StackOrder
      <3>2. CASE j \notin 1..l
        <4>1. PICK q \in 1..h : j = l + q
          <5>1. j - l \in 1..h /\ j = l + (j - l)
            BY <3>2
          <5> QED
            BY <5>1
        <4>2. h - q + 1 \in 1..h /\ tree.kids[c][h - q + 1] \in A[m]
          BY <2>20, <4>1
        <4>3. c \in A[m]
          BY <2>3, <2>4, <2>20, <4>2, UnderParent
        <4>4. CASE i \in 1..l
          BY <2>20, <2>22, <4>3, <4>4
        <4>5. CASE i \notin 1..l
          <5>1. PICK r \in 1..h : i = l + r
            <6>1. i - l \in 1..h /\ i = l + (i - l)
              BY <4>5
            <6> QED
              BY <6>1
          <5>2. h - r + 1 \in 1..h /\ tree.kids[c][h - r + 1] \in A[n]
            BY <2>20, <5>1
          <5>3. h - q + 1 < h - r + 1
            BY <4>1, <5>1
          <5> QED
            BY <2>20, <4>2, <4>3, <5>2, <5>3 DEF InSourceOrder
        <4> QED
          BY <4>4, <4>5
      <3> QED
        BY <3>1, <3>2
    <2>24. SourceOrder'
      <3>1. ASSUME NEW n \in tree.nodes, n \notin V, n # c
            PROVE  InSourceOrder(tree, c, n)
        <4>1. PICK i \in 1..(l + 1) : stack[i] \in A[n]
          BY <2>20, <3>1 DEF IInv, Covered
        <4>2. CASE i \in 1..l
          <5>1. c \in A[c]
            BY <2>3, <2>4, AncestorsOfChild
          <5> QED
            BY <2>4, <2>22, <4>1, <4>2, <5>1
        <4>3. CASE i = l + 1
          BY <2>20, <3>1, <4>1, <4>3 DEF InSourceOrder
        <4> QED
          BY <4>2, <4>3
      <3>2. ASSUME NEW m \in V, NEW n \in tree.nodes, n \notin V
            PROVE  InSourceOrder(tree, m, n)
        BY <3>2 DEF IInv, SourceOrder
      <3> QED
        BY <2>2, <2>14, <3>1, <3>2 DEF SourceOrder
    <2>25. RowsInOrder'
      <3>1. \A n : Row(n)' = Row(n) /\ (Keeps(n)' <=> Keeps(n))
        BY <2>2 DEF Row, NameOf, NameChildren, IncludeValue, Keeps
      <3>2. ASSUME NEW k \in InventoryKinds
            PROVE  ListsInOrder(rows'[k], DOMAIN rows'[k],
                                {n \in V \cup {c} : Keeps(n) /\ tree.type[n] = k})
        <4>1. ListsInOrder(rows[k], DOMAIN rows[k], Kept(k))
          BY DEF IInv, RowsInOrder
        <4>2. CASE Keeps(c) /\ tree.type[c] = k
          <5>1. rows'[k] = Append(rows[k], Row(c))
            BY <2>2, <4>2 DEF Collect, IInv, TypeOK
          <5>2. rows[k] \in Seq(RowType) /\ Kept(k) \in SUBSET tree.nodes
            BY <2>9 DEF IInv, TypeOK, Kept
          <5>3. \A n \in Kept(k) : InSourceOrder(tree, n, c)
            BY <2>4, <2>6 DEF IInv, SourceOrder, Kept
          <5>4. Kept(k) \cup {c} = {n \in V \cup {c} : Keeps(n) /\ tree.type[n] = k}
            BY <4>2 DEF Kept
          <5>5. ListsInOrder(rows'[k], DOMAIN rows'[k], Kept(k) \cup {c})
            BY <2>4, <4>1, <5>1, <5>2, <5>3, RowAppended DEF IInv
          <5> QED
            BY <5>4, <5>5
        <4>3. CASE ~(Keeps(c) /\ tree.type[c] = k)
          <5>1. rows'[k] = rows[k]
            BY <2>2, <4>3 DEF Collect, IInv, TypeOK
          <5>2. Kept(k) = {n \in V \cup {c} : Keeps(n) /\ tree.type[n] = k}
            BY <4>3 DEF Kept
          <5> QED
            BY <4>1, <5>1, <5>2
        <4> QED
          BY <4>2, <4>3
      <3>3. ASSUME NEW k \in InventoryKinds
            PROVE  Kept(k)' = {n \in V \cup {c} : Keeps(n) /\ tree.type[n] = k}
        BY <2>2, <2>14, <3>1 DEF Kept
      <3> QED
        BY <2>2, <3>1, <3>2, <3>3 DEF RowsInOrder, ListsInOrder
    <2> QED
      BY <2>16, <2>17, <2>18, <2>19, <2>21, <2>23, <2>24, <2>25 DEF IInv
  <1> QED
    BY <1>1, <1>2 DEF Next

\* The invariant holds throughout every walk.
LEMMA IInvHolds == Spec => []IInv
  BY InitIInv, NextIInv, PTL DEF Spec

-----------------------------------------------------------------------------
\* The walk's state keeps its types on every tree.
THEOREM TypesHold == Spec => []TypeOK
  <1>1. IInv => TypeOK
    BY DEF IInv
  <1> QED
    BY <1>1, IInvHolds, PTL

\* _walk yields no node of any syntax tree twice.
THEOREM YieldsOnce == Spec => []EachNodeOnce
  <1>1. IInv => EachNodeOnce
    BY DEF IInv
  <1> QED
    BY <1>1, IInvHolds, PTL

\* The stack of _walk is always the frontier of what it has yielded.
THEOREM StackIsFrontier == Spec => []Frontier
  <1>1. IInv => Frontier
    BY DEF IInv
  <1> QED
    BY <1>1, IInvHolds, PTL

\* With an empty stack, what has been yielded is closed under children, so it
\* is the whole tree.
LEMMA IInvSkipsNothing == IInv => NothingSkipped
  <1> SUFFICES ASSUME IInv, Exhausted PROVE ToSet(visited) = tree.nodes
    BY DEF NothingSkipped
  <1> DEFINE V == ToSet(visited)
  <1>1. IsTree(tree) /\ visited \in Seq(tree.nodes)
    BY WalkedTree DEF IInv, TypeOK
  <1>2. V \in SUBSET tree.nodes
    BY <1>1, LenProperties DEF ToSet
  <1>3. \A n \in tree.nodes :
           n = tree.root \/ (\E m \in V : ChildOf(tree, m, n)) => n \in V
    <2>1. ToSet(stack) = {}
      BY DEF Exhausted, ToSet
    <2> QED
      BY <2>1 DEF IInv, Frontier
  <1>4. tree.root \in V
    BY <1>1, <1>3 DEF IsTree, Shape
  <1>5. Closed(tree, V)
    <2> SUFFICES ASSUME NEW m \in V, NEW i \in DOMAIN tree.kids[m]
                 PROVE  tree.kids[m][i] \in V
      BY DEF Closed
    <2>1. tree.kids[m] \in Seq(tree.nodes)
      BY <1>1, <1>2 DEF IsTree, Shape
    <2>2. tree.kids[m][i] \in tree.nodes
      BY <2>1, LenProperties
    <2> QED
      BY <1>3, <2>2 DEF ChildOf
  <1> QED
    BY <1>1, <1>2, <1>4, <1>5 DEF IsTree, Connected

\* A walk that has emptied its stack has yielded every node of the tree.
THEOREM YieldsAll == Spec => []NothingSkipped
  BY IInvSkipsNothing, IInvHolds, PTL

\* The children are pushed in reverse, so _walk yields every tree in the order
\* of the source text.
THEOREM YieldsInSourceOrder == Spec => []SourceOrder
  <1>1. IInv => SourceOrder
    BY DEF IInv
  <1> QED
    BY <1>1, IInvHolds, PTL

-----------------------------------------------------------------------------
\* At the end of a walk the nodes kept are all the nodes of their type, and for
\* grab, which keeps named nodes, they are the declarations.
LEMMA KeptAtEnd ==
    ASSUME IInv, Exhausted, NEW k \in InventoryKinds
    PROVE  /\ Kept(k) = {n \in tree.nodes : Keeps(n) /\ tree.type[n] = k}
           /\ consumer = "inventory" => Kept(k) = {n \in tree.nodes : tree.type[n] = k}
           /\ consumer = "grab" /\ k \in RecordKinds => Kept(k) = Declarations(k)
  <1>1. ToSet(visited) = tree.nodes
    BY IInvSkipsNothing DEF NothingSkipped
  <1>2. Kept(k) = {n \in tree.nodes : Keeps(n) /\ tree.type[n] = k}
    BY <1>1 DEF Kept
  <1> QED
    BY <1>2 DEF Keeps, Declarations

\* The lists of the inventory are all nodes of their types, keyword tokens and what
\* error nodes hold included, one row for each in source order.
AllNodesListed ==
    Exhausted /\ consumer = "inventory" =>
       \A k \in InventoryKinds :
          ListsInOrder(rows[k], DOMAIN rows[k], {n \in tree.nodes : tree.type[n] = k})

\* What Inventory takes from a text (RowsOf there) is what the loop of
\* _parse_td_file collects: a row for each node of a list's type, declaration or
\* not, in source order.
THEOREM InventoryListsNodes == Spec => []AllNodesListed
  <1>1. IInv => AllNodesListed
    <2> SUFFICES ASSUME IInv, Exhausted, consumer = "inventory", NEW k \in InventoryKinds
                 PROVE  ListsInOrder(rows[k], DOMAIN rows[k], {n \in tree.nodes : tree.type[n] = k})
      BY DEF AllNodesListed
    <2>1. Kept(k) = {n \in tree.nodes : tree.type[n] = k}
      BY KeptAtEnd
    <2> QED
      BY <2>1 DEF IInv, RowsInOrder
  <1> QED
    BY <1>1, IInvHolds, PTL

\* grab has exactly one record for each declaration, in source order, whatever
\* the file.
THEOREM GrabListsDeclarations == Spec => []GrabKeepsDeclarations
  <1>1. IInv => GrabKeepsDeclarations
    <2> SUFFICES ASSUME IInv, Exhausted, consumer = "grab", NEW k \in RecordKinds
                 PROVE  ListsInOrder(rows[k], DOMAIN rows[k], Declarations(k))
      BY DEF GrabKeepsDeclarations
    <2>1. k \in InventoryKinds
      BY DEF RecordKinds, InventoryKinds
    <2>2. Kept(k) = Declarations(k)
      BY <2>1, KeptAtEnd
    <2> QED
      BY <2>1, <2>2 DEF IInv, RowsInOrder
  <1> QED
    BY <1>1, IInvHolds, PTL

\* A node that is not a named one, a keyword, has a row without a name.
LEMMA TokensHaveNoName ==
    ASSUME TypeOK, NEW n \in tree.nodes, ~tree.named[n]
    PROVE  Row(n).name = NoName
  <1>1. tree.kids[n] = <<>>
    BY WalkedTree DEF IsTree, TokensAreLeaves
  <1>2. NameChildren(n) = {} /\ Len(tree.kids[n]) = 0
    BY <1>1 DEF NameChildren
  <1> QED
    BY <1>2 DEF Row, NameOf, IncludeValue

\* The inventory's rows that carry a name are the declarations that have one,
\* each once and in source order, whatever the file.
THEOREM NamedRowsListed == Spec => []NamedRowsAreDeclarations
  <1>1. IInv => NamedRowsAreDeclarations
    <2> SUFFICES ASSUME IInv, Exhausted, consumer = "inventory", NEW k \in InventoryKinds
                 PROVE  ListsInOrder(rows[k], Named(rows[k]),
                                     {n \in Declarations(k) : Row(n).name # NoName})
      BY DEF NamedRowsAreDeclarations
    <2> DEFINE list == rows[k]
               N == {n \in Declarations(k) : Row(n).name # NoName}
    <2>1. PICK node \in [DOMAIN list -> Kept(k)] :
             /\ Kept(k) = {node[i] : i \in DOMAIN list}
             /\ \A i, j \in DOMAIN list : i < j => InSourceOrder(tree, node[i], node[j])
             /\ \A i \in DOMAIN list : list[i] = Row(node[i])
      BY DEF IInv, RowsInOrder, ListsInOrder
    <2>2. Kept(k) = {n \in tree.nodes : tree.type[n] = k}
      BY KeptAtEnd
    <2>3. N = {n \in Kept(k) : Row(n).name # NoName}
      <3>1. \A n \in Kept(k) : Row(n).name # NoName => tree.named[n]
        BY <2>2, TokensHaveNoName DEF IInv
      <3> QED
        BY <2>2, <3>1 DEF Declarations
    <2>4. Named(list) = {i \in DOMAIN list : Row(node[i]).name # NoName}
      BY <2>1 DEF Named
    <2> DEFINE at == Named(list)
               some == [i \in at |-> node[i]]
    <2>5. at \subseteq DOMAIN list /\ \A i \in at : some[i] = node[i]
      BY <2>4
    <2>6. some \in [at -> N]
      BY <2>1, <2>3, <2>4
    <2> HIDE DEF some, list, at
    <2>7. N = {some[i] : i \in at}
      BY <2>1, <2>3, <2>4, <2>5 DEF at
    <2>8. \A i, j \in at : i < j => InSourceOrder(tree, some[i], some[j])
      BY <2>1, <2>5
    <2>9. \A i \in at : list[i] = Row(some[i])
      BY <2>1, <2>5
    <2> HIDE DEF N
    <2>10. ListsInOrder(list, at, N)
      BY <2>6, <2>7, <2>8, <2>9, Zenon DEF ListsInOrder
    <2> QED
      BY <2>10 DEF list, at, N
  <1> QED
    BY <1>1, IInvHolds, PTL
=============================================================================
