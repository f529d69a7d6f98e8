SPECIFICATION FairSpec
CONSTANTS
    MaxTxs = 4
    BlockCap = 2
    MaxForce = 2
    JobsMayFail = TRUE
 
INVARIANT PoolMatchesNotified
PROPERTY ImplementsLedger
PROPERTY EventuallyTaken
CHECK_DEADLOCK FALSE
