\* The same files in a tree at rest.
SPECIFICATION Spec
CONSTANTS
    None = None
    Gone = Gone
    Unreadable = Unreadable
    Dir <- MCDir
    Top = "top"
    PathOrder <- MCPathOrder
    StringOrder <- MCStringOrder
    DirOf <- MCDirOf
    Text <- MCText
    Nodes <- MCNodes
    Noisy = {"odd"}
    Undecodable = {"odd"}
    NameOrder <- MCNameOrder
    Matching <- MCMatching
    Consumer = {"cpp", "scrape", "grab"}
    MaxTouches = 0
    MaxFaults = 0
INVARIANT
    ContinuesOnFileErrors
CHECK_DEADLOCK FALSE
