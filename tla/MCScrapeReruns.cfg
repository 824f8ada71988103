\* Two runs over the same files, two faults.
SPECIFICATION Spec
CONSTANTS
    A = A
    B = B
    None = None
    Nobody = Nobody
    Invalid = Invalid
    Architectures <- MCArchitectures
    Categories <- MCCategories
    Combinable <- MCCombinable
    FileName <- MCFileName
    Absolute <- MCAbsolute
    Dir <- MCDir
    Mirror = "mirror"
    CommandLine <- WritingLines
    MaxRuns = 2
    MaxFaults = 2
INVARIANTS
    WrittenFilesWhole
    TornIsReported
PROPERTIES
    AllEnd
CHECK_DEADLOCK FALSE
