\* Three files in three directories, two changes of the tree, one parser failure; td has the loop of scrape.
SPECIFICATION Spec
CONSTANTS
    None = None
    Gone = Gone
    Unreadable = Unreadable
    Dir <- MCDir
    Top = "top"
    PathOrder <- MCPathOrder
    StringOrder <- MCStringOrder
    DirOf <- MCDirOf
    Text <- MCText
    Nodes <- MCNodes
    Noisy = {"odd"}
    Undecodable = {"odd"}
    NameOrder <- MCNameOrder
    Matching <- MCMatching
    Consumer = {"cpp", "scrape", "grab"}
    MaxTouches = 2
    MaxFaults = 1
INVARIANTS
    TypeOK
    ReportsWhatStoodStill
    EveryListedFileAccounted
    EntriesAreHistory
    RaisesOnlyIfGone
    CategoriesComplete
CHECK_DEADLOCK FALSE
