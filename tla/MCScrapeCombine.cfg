\* One category, given twice, passes for two.
SPECIFICATION Spec
CONSTANTS
    A = A
    B = B
    None = None
    Nobody = Nobody
    Invalid = Invalid
    Architectures <- MCArchitectures
    Categories <- MCCategories
    Combinable <- MCCombinable
    FileName <- MCFileName
    Absolute <- MCAbsolute
    Dir <- MCDir
    Mirror = "mirror"
    CommandLine <- AllLines
    MaxRuns = 1
    MaxFaults = 0
INVARIANTS
    CombineNeedsTwo
CHECK_DEADLOCK FALSE
