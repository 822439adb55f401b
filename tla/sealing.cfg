SPECIFICATION Spec
CONSTANTS
    h1 = h1
    h2 = h2
    Handlers <- MCHandlers
    Miner = miner
    NodeCount <- MCNodeCount
    WorkerCounts = {1, 4}
    MaxDAGs = 4
SYMMETRY Symmetry
CHECK_DEADLOCK FALSE
INVARIANTS
    SealingTypeOK
    SealedBlockValid
    ReadsWholeDAG
    InUseOpen
    OneDAGPerEpoch
    StrictUsesDeviceMemory
PROPERTIES
    ImplementsDAGTable
