SPECIFICATION Spec
CONSTANTS
    MaxSlot = 2
    SlotsPerEpoch = 1
    BlockRoots = {a, b}
    Main = a
    CleanupBack = 1
    Checkers = {c1}
    Savers = {g1, g2}
    ChanCap = 1
    Grace = 1
    NoFinalityLimit = 1
    FinalityLag = 0
    BlacklistLimit = 3
    OldAge = 10
    MaxReorgs = 1
    MaxFaults = 0
    MaxCrashes = 0
    SeededDb = TRUE
SYMMETRY Symmetry
INVARIANTS
    TypeOK
    StatusMatchesRoot
    
PROPERTIES
    ImplementsEpochTable
CHECK_DEADLOCK FALSE
