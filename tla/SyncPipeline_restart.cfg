SPECIFICATION FairSpec
CONSTANTS
    Height = 4
    Chain <- MCChain
    ChunkSize = 3
    BatchSize = 2
    MaxStops = 3
INVARIANT CheckpointsHonest
 
INVARIANT StateExact
PROPERTY CatchesUp
CHECK_DEADLOCK FALSE
