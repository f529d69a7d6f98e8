SPECIFICATION FairSpec
CONSTANTS
    Modes = {"Ethereum", "Starknet"}
    FromBlock = 0
    MaxBlocks = 1
    Height <- MCHeight
    Sent <- MCSent
    Contracts = {"A", "B"}
    MaxFailures = 1
    MaxLaunches = 2
    Tasks <- MCTasks
    Critical <- MCCritical
INVARIANT GatheredExactly
INVARIANT StopDrains
PROPERTY FailsTogether
PROPERTY GatheredEventually
