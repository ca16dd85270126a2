SPECIFICATION FairSpec
CONSTANTS
    Events = {e1, e2}
    Workers = {w1, w2}
    NoWorker = NoWorker
    NoEvent = NoEvent
    MaxAttempts = 2
    BatchSize = 2
    Lease = 2
    EventTime = 1
    MaxFaults = 2
INVARIANT TypeOK
INVARIANT BudgetSpentByFailuresOnly
INVARIANT CompletedWasApplied
INVARIANT OneHandler
PROPERTY EventSettles
