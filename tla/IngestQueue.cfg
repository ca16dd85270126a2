SPECIFICATION FairSpec
CONSTANTS
    Versions = {v1}
    Workers = {w1, w2}
    Schedulers = {s1}
    Malformed = Malformed
    NoJob = NoJob
    NoWorker = NoWorker
    MaxResume = 1
    MaxFaults = 2
INVARIANT TypeOK
INVARIANT CommittedOnce
INVARIANT AttemptsBounded
INVARIANT UnclaimedJobKept
PROPERTY TerminalIsFinal
PROPERTY LatestClaimCommits
PROPERTY ReapedJobSpared
PROPERTY EventuallyTerminal
PROPERTY OrphansDrained
