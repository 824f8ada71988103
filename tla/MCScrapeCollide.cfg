\* A combined file is overwritten by a category's.
SPECIFICATION Spec
CONSTANTS
    A = A
    B = B
    None = None
    Nobody = Nobody
    Invalid = Invalid
    Architectures <- MCArchitectures
    Categories <- MCCategories
    Combinable <- MCCombinable
    FileName <- MCFileName
    Absolute <- MCAbsolute
    Dir <- MCDir
    Mirror = "mirror"
    CommandLine <- WritingLines
    MaxRuns = 1
    MaxFaults = 0
INVARIANTS
    CombinedInOneFile
CHECK_DEADLOCK FALSE
