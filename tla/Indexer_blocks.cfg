SPECIFICATION Spec
CONSTANTS
    Contracts = {"world", "token"}
    Parallel = {"world"}
    Tokens = {"token"}
    Shapes <- MCShapes
    Configs <- MCConfigs
    WorldBlock = 0
    BlocksChunk = 1
    MaxBlocks = 2
    MaxTxs = 3
    MaxFailures = 1
    MaxCrashes = 1
    MaxMessages = 1
INVARIANT PagesExact
 
 
 
 
CHECK_DEADLOCK FALSE
