\* Bodies of up to two statements with noise, lists of up to two classes.
SPECIFICATION Spec
CONSTANTS
    None = None
    Ident <- MCIdent
    Other <- MCOther
    Lefts <- MCLefts
    Values <- MCValues
    Noise <- MCNoise
    MaxItems = 2
INVARIANTS
    TypeOK
    SplitsAtTopLevel
    FoundAsWritten
CHECK_DEADLOCK FALSE
