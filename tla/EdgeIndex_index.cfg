SPECIFICATION Spec
CONSTANTS
    Edges = {e1}
    Models = {m1}
    Routed = {m1}
    Workers = {w1, w2}
    Cleaners = {c1}
    Nobody = Nobody
    NoModel = NoModel
    MaxAttempts = 2
    BatchSize = 2
    MaxVersion = 2
    MaxFaults = 2
SYMMETRY Symm
INVARIANT TypeOK
INVARIANT CompletedIsIndexed
INVARIANT BehindOnlyWhenOvertaken
INVARIANT PointsAccountedFor
PROPERTY IndexedForward
CHECK_DEADLOCK FALSE
