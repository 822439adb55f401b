SPECIFICATION Spec
CONSTANTS
    MaxUint = 5
    NodeSize = 2
    Unset = Unset
    InitialDAGSize = Unset
    DAGSizeAlias = Unset
    GrowthPerEpoch = 2
    EpochBlocks = 1
    StrictInitialDAGSize = 4
    DefaultDAGGrowth = 4
    ResearchDAGSize = 2
    StrictEpochBlocks = 3
    DefaultEpochBlocks = 2
    Mode = "research"
    TargetSpace = 16
    c1 = c1
    c2 = c2
    Hash <- AllHash
    Header <- MCAllHeader
    ChainWork <- MCChainWork
    Caller <- Callers1
    FlushResults = {TRUE, FALSE}
    MayCrash = TRUE
    MaxFuture = 2
    InitialTime = 2
    MaxTime = 3
INVARIANTS
    TypeOK
    AckedBlocksDurable
    StoredBlocksValid
    TipBeatsDecided
    DAGSizesFit
    VerifierAgrees
PROPERTIES
    FileKeepsBlocks
    TipOnDiskImproves
    ImplementsBestChain
    ImplementsAtomicInsert
