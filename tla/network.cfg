SPECIFICATION NetworkSpec
CONSTANTS
    MaxUint = 63
    NodeSize = 2
    Unset = Unset
    InitialDAGSize = 2
    DAGSizeAlias = Unset
    GrowthPerEpoch = 2
    EpochBlocks = 2
    StrictInitialDAGSize = 4
    DefaultDAGGrowth = 4
    ResearchDAGSize = 2
    StrictEpochBlocks = 3
    DefaultEpochBlocks = 2
    Mode = "research"
    TargetSpace = 16
    MaxFuture = 1
    Bits = 3
    n1 = n1
    n2 = n2
    NoMessage = NoMessage
    Hash <- MCHash
    Header <- MCHeader
    Node <- TwoNodes
    Bootnodes <- Mutual
    NetworkID = {1}
    MaxConns = 2
    Breaking = {}
    Stopping = {}
    MaxHeight = 2
    Mining <- TwoOrOneEach
    Geneses <- SameGenesis
CHECK_DEADLOCK FALSE
SYMMETRY Symmetry
INVARIANTS
    Agreement
    TipsConverge
