\* Every tree of a file of at most three declarations, under both consumers.
SPECIFICATION Spec
CONSTANTS
    MaxDecls = 3
    Node <- MCNode
    Name <- MCName
    NoName = NoName
    File <- MCFile
    Tree <- MCTree
INVARIANTS
    TypeOK
    EachNodeOnce
    NothingSkipped
    Frontier
    SourceOrder
    GrabKeepsDeclarations
    NamedRowsAreDeclarations
PROPERTIES
    WalkEnds
CHECK_DEADLOCK FALSE
