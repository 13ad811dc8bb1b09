SPECIFICATION FairSpec
CONSTANTS
    MaxSlot = 2
    SlotsPerEpoch = 1
    BlockRoots = {a, b}
    Main = a
    CleanupBack = 1
    Checkers = {c1}
    Savers = {g1}
    ChanCap = 1
    Grace = 1
    NoFinalityLimit = 9
    FinalityLag = 0
    BlacklistLimit = 0
    OldAge = 0
    MaxReorgs = 0
    MaxFaults = 1
    MaxCrashes = 1
    SeededDb = TRUE
INVARIANTS
    ListedEpochComplete
    FlaggedIsFinalized
PROPERTIES
    KeepsBlocksAndFlags
    GoroutinesEnd
CHECK_DEADLOCK FALSE
