SPECIFICATION FairNodeSpec
CONSTANTS
    MaxUint = 63
    NodeSize = 2
    Unset = Unset
    InitialDAGSize = 2
    DAGSizeAlias = Unset
    GrowthPerEpoch = 2
    EpochBlocks = 2
    StrictInitialDAGSize = 4
    DefaultDAGGrowth = 4
    ResearchDAGSize = 2
    StrictEpochBlocks = 3
    DefaultEpochBlocks = 2
    Mode = "research"
    TargetSpace = 16
    miner = miner
    peer = peer
    Hash <- MCHash
    Header <- MCHeader
    Miner <- miner
    Caller <- Solo
    FlushResults = {TRUE}
    MayCrash = FALSE
    SealMayFail = FALSE
    MaxFuture = 2
    InitialTime = 1
    Bits = 3
    TicksPerSecond = 2
    BlockTicks = 2
    MaxDelay = 2
    MaxTime = 100
    MaxHeight = 4
    LastSecond = 10
    MaxGap = 3
    GenesisSeconds = {1}
CHECK_DEADLOCK FALSE
INVARIANTS
    ChainKeepsTime
    MiningGoesOn
PROPERTIES
    ChainGrows
