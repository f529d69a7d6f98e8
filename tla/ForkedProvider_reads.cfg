SPECIFICATION FairSpec
CONSTANTS
    Threads = {t1, t2}
    Addresses = {"a", "b"}
    Hashes = {1, 3}
    Remote <- MCRemote
    Histories <- MCHistories
    Reads <- MCReads
    MaxReads = 2
    MaxFailures = 1
    Capacity = 1
    HistoryLimit = 2
    MinHistoryLimit = 1
 
INVARIANT WaitersKnown
PROPERTY ReadsReturn
CHECK_DEADLOCK FALSE
