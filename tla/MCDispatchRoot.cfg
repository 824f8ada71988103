\* A missing root does not always give exit status 2.
SPECIFICATION Spec
CONSTANTS
    A = A
    B = B
    v1 = v1
    v2 = v2
    None = None
    Nobody = Nobody
    Invalid = Invalid
    Inv <- MCInv
    Others = {}
    Architectures <- MCArchitectures
    ByName <- MCByName
    OutDir <- MCOutDir
    Mirror = "mirror"
    Mix <- RootMix
    Leftover <- MCLeftover
    MaxVersion = 3
    MaxFaults = 1
INVARIANTS
    ExitTwoOnBadRoot
CHECK_DEADLOCK FALSE
