---------------------------- MODULE MCInventory ----------------------------
(***************************************************************************)
(* Inventory with three files: one in the architecture's own directory,    *)
(* and one in each of two subdirectories whose names sort differently as   *)
(* path components and as strings ("s" and "s-b", as "-" is before "/").   *)
(***************************************************************************)
EXTENDS Inventory

MCDir == {"top", "s", "s-b"}
MCPathOrder == <<"m.td", "s/x.td", "s-b/x.td">>
MCStringOrder == <<"m.td", "s-b/x.td", "s/x.td">>
MCDirOf == "m.td" :> "top" @@ "s/x.td" :> "s" @@ "s-b/x.td" :> "s-b"

N(kind, line, name, named) == [kind |-> kind, line |-> line, name |-> name, named |-> named]

\* A declaration with its keyword token, a token alone, a node of a C++ file.
Declared(kind, line, name) == <<N(kind, line, name, TRUE), N(kind, line, None, FALSE)>>
Stray(kind, line) == <<N(kind, line, None, FALSE)>>
Cpp(kind, line, name) == <<N(kind, line, name, TRUE)>>

\* A text with declarations of both languages, two of them on one line, and one
\* with error nodes that grab cannot decode: an anonymous def, and a stray "def".
MCNodes ==
    "plain" :> Declared("defs", 1, "REG") \o Declared("defms", 1, "INST")
               \o Declared("includes", 2, "INST") \o Cpp("init_functions", 3, "INST")
    @@ "odd" :> Stray("defs", 1) \o Declared("defs", 2, "INST") \o Declared("defs", 2, None)
                \o Cpp("register_target_declarations", 2, "REG")
MCText == DOMAIN MCNodes
MCNameOrder == <<"INST", "REG">>
MCMatching == "instructions" :> {"INST"} @@ "registers" :> {"REG"}
=============================================================================
