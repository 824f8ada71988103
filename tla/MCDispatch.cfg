\* Two invocations, one fault, one update of the LLVM tree.
SPECIFICATION Spec
CONSTANTS
    A = A
    B = B
    v1 = v1
    v2 = v2
    None = None
    Nobody = Nobody
    Invalid = Invalid
    Inv <- MCInv
    Others = {}
    Architectures <- MCArchitectures
    ByName <- MCByName
    OutDir <- MCOutDir
    Mirror = "mirror"
    Mix <- MCMix
    Leftover <- MCLeftover
    MaxVersion = 3
    MaxFaults = 1
INVARIANTS
    TypeOK
    OkRowFresh
    ReadbackFailsOnlyIfShared
    TracebackOnlyOnForeignFile
    SuccessLeavesInventory
PROPERTIES
    ImplementsBatch
    AllEnd
CHECK_DEADLOCK FALSE
