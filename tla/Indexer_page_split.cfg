SPECIFICATION Spec
CONSTANTS
    Contracts = {"world", "token"}
    Parallel = {"world"}
    Tokens = {"token"}
    Shapes <- MCShapes
    Configs <- MCSmallPages
    WorldBlock = 0
    BlocksChunk = 1
    MaxBlocks = 2
    MaxTxs = 3
    MaxFailures = 1
    MaxCrashes = 1
    MaxMessages = 1
CHECK_DEADLOCK FALSE
INVARIANT AllSeenUpToHead
