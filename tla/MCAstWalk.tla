------------------------------ MODULE MCAstWalk ------------------------------
(***************************************************************************)
(* AstWalk on every syntax tree the TableGen grammar allows for a file of  *)
(* at most MaxDecls declarations.  Declaration d is the node <<d, "decl">>, *)
(* its keyword token <<d, "kw">> and its name <<d, "name">>; declaration 0 *)
(* is the file.                                                            *)
(***************************************************************************)
EXTENDS AstWalk

CONSTANT MaxDecls

MCNode == (0..MaxDecls) \X {"decl", "kw", "name"}
MCName == {"A", "B", "C", "code"}
NameText == <<"A", "B", "C">>

DeclKinds == InventoryKinds \cup {"block", "ERROR"}

\* Where the grammar lets a declaration of kind k appear: in the file, in a
\* let, foreach or if block, and, but for class and include, in a multiclass.
MayContain(p, k) ==
    \/ p = "file"
    \/ p = "block" /\ k # "include"
    \/ p = "multiclass" /\ k \in {"def", "defm", "block", "ERROR"}

\* A def or a defm may be anonymous; the others have a name, or a string.
NameChoices(k) ==
    IF k \in {"def", "defm"} THEN BOOLEAN ELSE {k \in {"class", "multiclass", "include"}}

KindOf(sk, d) == IF d = 0 THEN "file" ELSE sk.kind[d]

\* The last open declaration of the source, and those it is nested in.
Enclosing(parent, d) ==
    LET up[e \in 0..d] == IF e = 0 THEN {0} ELSE {e} \cup up[parent[e]]
    IN up[d]

Skeletons(n) ==
    {sk \in [kind : [1..n -> DeclKinds], parent : [1..n -> 0..(n - 1)], hasName : [1..n -> BOOLEAN]] :
        \A d \in 1..n :
           /\ sk.parent[d] < d
           /\ sk.parent[d] \in Enclosing(sk.parent, d - 1)
           /\ MayContain(KindOf(sk, sk.parent[d]), sk.kind[d])
           /\ sk.hasName[d] \in NameChoices(sk.kind[d])}

\* The function f, as a table that TLC computes once.
Table(f) == f @@ <<>>

\* The tree of a skeleton.  An ERROR node holds a stray "def" token.
TreeOf(n, sk) ==
    LET kws == {<<d, "kw">> : d \in 1..n}
        names == {<<d, "name">> : d \in {e \in 1..n : sk.hasName[e]}}
        nodes == {m \in MCNode : m \in kws \cup names \/ (m[2] = "decl" /\ m[1] <= n)}
        Nested(d) == SelectSeq([i \in 1..n |-> i], LAMBDA e : sk.parent[e] = d)
        Own(d) == IF d = 0 THEN <<>>
                  ELSE <<<<d, "kw">>>> \o (IF sk.hasName[d] THEN <<<<d, "name">>>> ELSE <<>>)
        KindOfToken(d) == IF sk.kind[d] = "ERROR" THEN "def" ELSE sk.kind[d]
        TypeOf(m) ==
            CASE m[2] = "decl" -> KindOf(sk, m[1])
              [] m[2] = "kw" -> KindOfToken(m[1])
              [] m[2] = "name" /\ sk.kind[m[1]] = "include" -> "string_string"
              [] m[2] = "name" /\ sk.kind[m[1]] \in {"class", "multiclass"} -> "identifier"
              [] OTHER -> "value"
    IN [nodes |-> nodes,
        root |-> <<0, "decl">>,
        kids |-> Table([m \in nodes |->
                    IF m[2] = "decl"
                    THEN Own(m[1]) \o [i \in DOMAIN Nested(m[1]) |-> <<Nested(m[1])[i], "decl">>]
                    ELSE <<>>]),
        type |-> Table([m \in nodes |-> TypeOf(m)]),
        named |-> Table([m \in nodes |-> m[2] # "kw"]),
        line |-> Table([m \in nodes |-> m[1]]),
        text |-> Table([m \in nodes |-> IF m[2] = "name" THEN NameText[m[1]] ELSE "code"])]

\* A file is named by the shape of its tree.
Shapes == UNION {{sk : sk \in Skeletons(n)} : n \in 0..MaxDecls}
ShapeTree == Table([sk \in Shapes |-> TreeOf(Len(sk.kind), sk)])

MCFile == Shapes
MCTree == ShapeTree
=============================================================================
