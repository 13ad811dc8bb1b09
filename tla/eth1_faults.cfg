SPECIFICATION MCSpec
CONSTANTS
    a1 = a1
    a2 = a2
    a3 = a3
    a4 = a4
    b2 = b2
    b3 = b3
    b4 = b4
    t = t
    Blocks <- LongBlocks
    Branches <- LongBranches
    Txs <- OneTx
    TxsOf <- SharedTx
    ReorgDepth = 3
    OffsetBlocks = 3
    OffsetData = 3
    Concurrency = 2
    Calm = TRUE
    MaxDrop = 1
    MaxReorgs = 2
    MaxFaults = 1
    MaxCrashes = 1
    Chains <- FullChains
    Body <- FullBody
    Address = "x"
    Token = "c"
    PageSize = 2
    MaxJobs = 3
    Addresses = {1, 2}
    Tokens = {"e", "c"}
    TouchedBy <- Touches
    DataOffset = 1
    Goroutines = 2
    BatchSize = 1
    Iterations = 1
    MaxStops = 2
    Rivals = {"r1", "r2", "r3", "r4"}
    BodyOf <- Bodies
    Frames <- AllCalls
    Nested <- Nesting
    CallOf <- CallsOf
    Rewarded = {"r1", "r3"}
    MaxMoves = 2
    MaxRefusals = 2
    Deposits = {"d1", "d2"}
    FirstBlock = 2
    LookBack = 6
    MaxFetch = 6
    Short = 6
    FirstHead = 9
    MaxHead = 12
    Depth = 1
    Spurt = 2
    MaxMishaps = 1
INVARIANTS
    TypeOK
    RowsHaveKeys
    RowsHaveTheirBlock
    PagesAndBalances
PROPERTIES
    PassAgrees
    
CHECK_DEADLOCK FALSE
