SPECIFICATION FairNetworkSpec
CONSTANTS
    MaxUint = 63
    NodeSize = 2
    Unset = Unset
    InitialDAGSize = 2
    DAGSizeAlias = Unset
    GrowthPerEpoch = 2
    EpochBlocks = 2
    StrictInitialDAGSize = 4
    DefaultDAGGrowth = 4
    ResearchDAGSize = 2
    StrictEpochBlocks = 3
    DefaultEpochBlocks = 2
    Mode = "research"
    TargetSpace = 16
    MaxFuture = 1
    Bits = 3
    n1 = n1
    n2 = n2
    NoMessage = NoMessage
    Hash <- MCHash
    Header <- MCHeader
    Node <- TwoNodes
    Bootnodes <- Joining
    NetworkID = {1, 2}
    MaxConns = 2
    Breaking = {1, 2}
    Stopping <- TwoNodes
    MaxHeight = 0
    Mining <- ToMaxHeight
    Geneses <- SameGenesis
CHECK_DEADLOCK FALSE
INVARIANTS
    ServerTypeOK
    ServedPeersListed
    EntriesLeftBehind
PROPERTIES
    BootnodesRedialled
    ServerStops
