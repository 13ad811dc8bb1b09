SPECIFICATION AgreementSpec
CONSTANTS
    MaxSlot = 3
    SlotsPerEpoch = 2
    BlockRoots = {a, b}
    Main = a
    CleanupBack = 1
    Checkers = {c1, c2}
    Savers = {g1}
    ChanCap = 1
    Grace = 0
    NoFinalityLimit = 9
    FinalityLag = 0
    BlacklistLimit = 3
    OldAge = 10
    MaxReorgs = 1
    MaxFaults = 0
    MaxCrashes = 0
    SeededDb = TRUE
SYMMETRY Symmetry
INVARIANTS
    Agreement
    OnePlaceholder
CHECK_DEADLOCK FALSE
