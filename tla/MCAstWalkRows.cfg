\* The inventory counts a keyword token as a declaration.
SPECIFICATION Spec
CONSTANTS
    MaxDecls = 1
    Node <- MCNode
    Name <- MCName
    NoName = NoName
    File <- MCFile
    Tree <- MCTree
INVARIANTS
    OneRowPerDeclaration
CHECK_DEADLOCK FALSE
