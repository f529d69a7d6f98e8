SPECIFICATION FairSpec
CONSTANTS
    MaxTxs = 3
    BlockTimes = {TRUE, FALSE}
    JobsMayFail = TRUE
    BlockCap <- MCBlockCap
    MaxForce <- MCMaxForce
    FastJobs <- MCFastJobs
INVARIANT PermitHeld
INVARIANT ValidatorInSync
PROPERTY EventuallyExecuted
 
 
PROPERTY MinedLeavePool
 
PROPERTY ImplementsLedger
CHECK_DEADLOCK FALSE
