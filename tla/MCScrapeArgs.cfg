\* Every command line, one run, one fault.
SPECIFICATION Spec
CONSTANTS
    A = A
    B = B
    None = None
    Nobody = Nobody
    Invalid = Invalid
    Architectures <- MCArchitectures
    Categories <- MCCategories
    Combinable <- MCCombinable
    FileName <- MCFileName
    Absolute <- MCAbsolute
    Dir <- MCDir
    Mirror = "mirror"
    CommandLine <- AllLines
    MaxRuns = 1
    MaxFaults = 1
INVARIANTS
    TypeOK
    NoUnreportedFile
    SelectedSurvive
    FailuresHaveCause
PROPERTIES
    ImplementsBatch
CHECK_DEADLOCK FALSE
