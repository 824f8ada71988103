------------------------------- MODULE AstWalk -------------------------------
(***************************************************************************)
(* One pass of a scraper over the Tree-Sitter syntax tree of one TableGen  *)
(* file: the explicit-stack generator _walk, which td_scrape_core.py,      *)
(* scrape_cmd.py, grab_cmd.py and scrape_cpp.py each carry a copy of, and  *)
(* the two loops that consume it, the inventory loop of _parse_td_file and *)
(* the record loop of _parse_arch_records.                                 *)
(*                                                                         *)
(* Tree-Sitter keeps the keyword of a declaration as a child token of the  *)
(* declaration, and the token's type is the keyword itself: the tree of    *)
(* "class A;" is a named node of type "class" whose first child is an      *)
(* unnamed node of type "class".                                           *)
(***************************************************************************)
EXTENDS Naturals, FiniteSets, Sequences, SequencesExt

CONSTANTS
    Node,     \* the nodes syntax trees are made of
    Name,     \* texts of identifier and value nodes
    NoName,   \* Python's None
    File,     \* the TableGen files
    Tree      \* the tree the parser returns for each

\* The declarations the inventory lists, and the ones grab keeps.
InventoryKinds == {"include", "class", "def", "defm", "multiclass"}
RecordKinds == {"class", "def", "defm", "multiclass"}
NameTypes == {"identifier", "value"}
Types ==
    InventoryKinds \cup NameTypes \cup {"string_string", "file", "block", "ERROR"}

(***************************************************************************)
(* A syntax tree: child lists in source order, every node but the root the *)
(* child of exactly one node, and nothing unreachable from the root.  The  *)
(* unnamed nodes are tokens of the grammar, such as keywords: they have no *)
(* children.                                                               *)
(***************************************************************************)
ChildOf(t, m, k) == \E i \in DOMAIN t.kids[m] : t.kids[m][i] = k

Shape(t) ==
    /\ t.nodes \subseteq Node
    /\ t.root \in t.nodes
    /\ t.kids \in [t.nodes -> Seq(t.nodes)]
    /\ t.type \in [t.nodes -> Types]
    /\ t.named \in [t.nodes -> BOOLEAN]
    /\ t.line \in [t.nodes -> Nat]
    /\ t.text \in [t.nodes -> Name]

OneParent(t) ==
    /\ \A m \in t.nodes : ~ChildOf(t, m, t.root)
    /\ \A m, n \in t.nodes :
          \A i \in DOMAIN t.kids[m], j \in DOMAIN t.kids[n] :
             t.kids[m][i] = t.kids[n][j] => m = n /\ i = j

Closed(t, S) == \A m \in S : \A i \in DOMAIN t.kids[m] : t.kids[m][i] \in S

Connected(t) ==
    \A S \in SUBSET t.nodes : t.root \in S /\ Closed(t, S) => S = t.nodes

TokensAreLeaves(t) == \A n \in t.nodes : ~t.named[n] => t.kids[n] = <<>>

IsTree(t) == Shape(t) /\ OneParent(t) /\ Connected(t) /\ TokensAreLeaves(t)

ASSUME TreeAssumption == \A f \in File : IsTree(Tree[f])
ASSUME NoNameAssumption == NoName \notin Name

VARIABLES
    file,      \* the file whose tree is being walked
    consumer,  \* "inventory" or "grab": the loop that pulls from _walk
    stack,     \* _walk's stack, its top last
    visited,   \* the nodes yielded so far, in order
    rows       \* what the loop has collected: a list of rows per kind

vars == <<file, consumer, stack, visited, rows>>

tree == Tree[file]

-----------------------------------------------------------------------------
\* The children of n that may be its name.
NameChildren(n) == {i \in DOMAIN tree.kids[n] : tree.type[tree.kids[n][i]] \in NameTypes}

(***************************************************************************)
(* Operators named Faulty... are variants with a plausible mistake, which  *)
(* the model does not use: each is there to show that a property fails     *)
(* when the operator after it has that mistake.                            *)
(***************************************************************************)
\* Takes the type of the child for its text.
FaultyNameType(n) ==
    IF NameChildren(n) = {} THEN NoName ELSE tree.type[tree.kids[n][Min(NameChildren(n))]]

\* Falls back to the node's own text.
FaultyNameFallback(n) ==
    IF NameChildren(n) = {} THEN tree.text[n] ELSE tree.text[tree.kids[n][Min(NameChildren(n))]]

(***************************************************************************)
(* _extract_name: the text of the first identifier or value child, which   *)
(* for a class is its "name" field.  An include takes its second child.    *)
(***************************************************************************)
NameOf(n) ==
    IF NameChildren(n) = {} THEN NoName ELSE tree.text[tree.kids[n][Min(NameChildren(n))]]

IncludeValue(n) ==
    IF Len(tree.kids[n]) >= 2 THEN tree.text[tree.kids[n][2]] ELSE NoName

Row(n) ==
    [line |-> tree.line[n],
     name |-> IF tree.type[n] = "include" THEN IncludeValue(n) ELSE NameOf(n)]

\* Does not ask grab's nodes to be named ones.
FaultyKeeps(n) ==
    \/ consumer = "inventory" /\ tree.type[n] \in InventoryKinds
    \/ consumer = "grab" /\ tree.type[n] \in RecordKinds

\* The tests of the two loops: only grab asks whether the node is a named one.
Keeps(n) ==
    \/ consumer = "inventory" /\ tree.type[n] \in InventoryKinds
    \/ consumer = "grab" /\ tree.named[n] /\ tree.type[n] \in RecordKinds

Collect(n) ==
    IF Keeps(n)
    THEN [rows EXCEPT ![tree.type[n]] = Append(@, Row(n))]
    ELSE rows

Init ==
    /\ file \in File
    /\ consumer \in {"inventory", "grab"}
    /\ stack = <<tree.root>>
    /\ visited = <<>>
    /\ rows = [k \in InventoryKinds |-> <<>>]

\* current stays on the stack.
FaultyNoPop(n) == stack \o Reverse(tree.kids[n])

\* Only the named children are pushed.
FaultyNamedOnly(n) ==
    Front(stack) \o Reverse(SelectSeq(tree.kids[n], LAMBDA k : tree.named[k]))

\* The children are pushed in source order.
FaultyUnreversed(n) == Front(stack) \o tree.kids[n]

\* stack.extend(reversed(current.children)), after the pop
Pushed(n) == Front(stack) \o Reverse(tree.kids[n])

\* The loop stops with one node left on the stack.
FaultyVisit ==
    /\ Len(stack) > 1
    /\ LET current == Last(stack)
       IN /\ visited' = Append(visited, current)
          /\ rows' = Collect(current)
          /\ stack' = Pushed(current)
    /\ UNCHANGED <<file, consumer>>

Visit ==
    /\ stack # <<>>
    /\ LET current == Last(stack)
       IN /\ visited' = Append(visited, current)
          /\ rows' = Collect(current)
          /\ stack' = Pushed(current)
    /\ UNCHANGED <<file, consumer>>

Next == Visit

\* The loop runs to exhaustion: nothing in it waits.
Spec == Init /\ [][Next]_vars /\ WF_vars(Next)

-----------------------------------------------------------------------------
RowType == [line : Nat, name : Name \cup {NoName}]

\* Types of the walk's state: the stack and the yielded nodes are the tree's,
\* a row has a line and a name or None (_walk, _parse_td_file).
TypeOK ==
    /\ file \in File
    /\ consumer \in {"inventory", "grab"}
    /\ stack \in Seq(tree.nodes)
    /\ visited \in Seq(tree.nodes)
    /\ rows \in [InventoryKinds -> Seq(RowType)]

Exhausted == stack = <<>>

(***************************************************************************)
(* _walk yields no node twice: the declarations a scraper counts are not   *)
(* counted again however deep blocks and multiclasses nest.                *)
(***************************************************************************)
EachNodeOnce == IsInjective(visited)

(***************************************************************************)
(* When _walk's stack is empty every node of the tree has been yielded: no *)
(* declaration is skipped.                                                 *)
(***************************************************************************)
NothingSkipped == Exhausted => ToSet(visited) = tree.nodes

(***************************************************************************)
(* The stack is exactly the frontier of what _walk has yielded: the        *)
(* children of yielded nodes that are not yielded yet, each of them once   *)
(* (and, before the first step, the root).                                 *)
(***************************************************************************)
Frontier ==
    /\ IsInjective(stack)
    /\ ToSet(stack) =
          {n \in tree.nodes :
             /\ n \notin ToSet(visited)
             /\ n = tree.root \/ \E m \in ToSet(visited) : ChildOf(tree, m, n)}

\* The node whose child n is.
Parent(t, n) == CHOOSE m \in t.nodes : ChildOf(t, m, n)

\* For each node of the tree, the node and all that it is nested in.
Ancestors(t) ==
    LET up[n \in t.nodes] == IF n = t.root THEN {n} ELSE {n} \cup up[Parent(t, n)]
    IN up

(***************************************************************************)
(* The order of the source text: a node comes before what is nested in it, *)
(* and before what is nested in a later sibling of it or of a node that it *)
(* is nested in.                                                           *)
(***************************************************************************)
InSourceOrder(t, m, n) ==
    LET above == Ancestors(t)
    IN \/ m \in above[n] \ {n}
       \/ \E p \in above[m] : \E i, j \in DOMAIN t.kids[p] :
             i < j /\ t.kids[p][i] \in above[m] /\ t.kids[p][j] \in above[n]

(***************************************************************************)
(* reversed(children) makes _walk yield source order: whatever it has      *)
(* yielded comes before whatever it has still to yield.                    *)
(***************************************************************************)
SourceOrder ==
    \A m \in ToSet(visited) : \A n \in tree.nodes \ ToSet(visited) : InSourceOrder(tree, m, n)

\* The declarations of kind k in the file are its named nodes of that type.
Declarations(k) == {n \in tree.nodes : tree.named[n] /\ tree.type[n] = k}

\* The rows of a list at the indices at are those of the given nodes, one row
\* for each node, in source order.
ListsInOrder(list, at, nodes) ==
    \E node \in [at -> nodes] :
       /\ nodes = {node[i] : i \in at}
       /\ \A i, j \in at : i < j => InSourceOrder(tree, node[i], node[j])
       /\ \A i \in at : list[i] = Row(node[i])

(***************************************************************************)
(* _parse_arch_records keeps exactly one record per declaration, in source *)
(* order.                                                                  *)
(***************************************************************************)
GrabKeepsDeclarations ==
    Exhausted /\ consumer = "grab" =>
       \A k \in RecordKinds : ListsInOrder(rows[k], DOMAIN rows[k], Declarations(k))

\* The rows that carry a name: _named_pool passes over the others.
Named(list) == {i \in DOMAIN list : list[i].name # NoName}

(***************************************************************************)
(* In the inventory of _parse_td_file, the rows that carry a name are the  *)
(* declarations that have one, each once and in source order.  The pool    *)
(* that scrape's keyword categories search rests on this.                  *)
(***************************************************************************)
NamedRowsAreDeclarations ==
    Exhausted /\ consumer = "inventory" =>
       \A k \in InventoryKinds :
          ListsInOrder(rows[k], Named(rows[k]), {n \in Declarations(k) : Row(n).name # NoName})

(***************************************************************************)
(* GUIDE.md section 7.2 lists the constructs the inventory extracts and    *)
(* section 7.5 its totals (total_classes and the rest): one row, and one   *)
(* unit of the total, per declaration.                                     *)
(***************************************************************************)
OneRowPerDeclaration ==
    Exhausted /\ consumer = "inventory" =>
       \A k \in InventoryKinds : Len(rows[k]) = Cardinality(Declarations(k))

\* _walk comes to an end on every tree.
WalkEnds == <>Exhausted
=============================================================================
