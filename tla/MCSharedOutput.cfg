\* Three invocations, one fault, one update of the LLVM tree.
SPECIFICATION Spec
CONSTANTS
    A = A
    B = B
    d1 = d1
    g1 = g1
    g2 = g2
    None = None
    Nobody = Nobody
    Invalid = Invalid
    Inv <- MCInv
    Others <- MCInv
    Grabs <- MCGrabs
    Architectures <- MCArchitectures
    ByName <- MCByName
    OutDir <- MCOutDir
    Here = "here"
    Mirror = "mirror"
    Dotted = {"out.d"}
    WrongSuffix = WrongSuffix
    Together <- MCTogether
    GrabMix <- MCGrabMix
    Leftover <- MCLeftover
    MaxVersion = 3
    MaxFaults = 1
INVARIANTS
    TypeOK
    FailureKeepsOldFile
    VerifyPredictsPlan
    ReportedFilesHold
    SmokeUndeceived
PROPERTIES
    AllKeepPromise
    AllEnd
CHECK_DEADLOCK FALSE
