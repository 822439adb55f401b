SPECIFICATION Spec
CONSTANTS
    MaxUint = 5
    NodeSize = 2
    Unset = Unset
    InitialDAGSize = Unset
    DAGSizeAlias = 2
    GrowthPerEpoch = 2
    EpochBlocks = 1
    StrictInitialDAGSize = 4
    DefaultDAGGrowth = 4
    ResearchDAGSize = 4
    StrictEpochBlocks = 3
    DefaultEpochBlocks = 2
    Mode = "research"
    TargetSpace = 16
    c1 = c1
    c2 = c2
    Hash <- TreeHash
    Header <- MCTreeHeader
    ChainWork <- MCChainWork
    Caller <- Callers2
    FlushResults = {TRUE}
    MayCrash = FALSE
    MaxFuture = 2
    InitialTime = 1
    MaxTime = 3
PROPERTY TipImproves
