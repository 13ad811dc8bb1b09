SPECIFICATION Spec
CONSTANTS
    MaxSlot = 3
    SlotsPerEpoch = 2
    BlockRoots = {a, b}
    Main = a
    CleanupBack = 1
    Checkers = {c1}
    Savers = {g1}
    ChanCap = 1
    Grace = 1
    NoFinalityLimit = 9
    FinalityLag = 0
    BlacklistLimit = 3
    OldAge = 10
    MaxReorgs = 0
    MaxFaults = 0
    MaxCrashes = 0
    SeededDb = TRUE
INVARIANT ProposedIsExecuted
CHECK_DEADLOCK FALSE
