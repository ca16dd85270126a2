SPECIFICATION FairSpec
CONSTANTS
    Versions = {v1}
    Workers = {w1, w2}
    NoWorker = NoWorker
    MaxAcl = 3
    MaxExpiries = 0
    MaxPromotions = 1
    MaxFaults = 1
    MaxLate = 1
PROPERTY SyncCatchesUp
PROPERTY IngestReachesIndex
CHECK_DEADLOCK FALSE
INVARIANT SyncIsOwed
