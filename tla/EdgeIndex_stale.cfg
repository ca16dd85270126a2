SPECIFICATION Spec
CONSTANTS
    Edges = {e1}
    Models = {m1}
    Routed = {m1}
    Workers = {w1, w2}
    Cleaners = {c1}
    Nobody = Nobody
    NoModel = NoModel
    MaxAttempts = 2
    BatchSize = 2
    MaxVersion = 2
    MaxFaults = 0
SYMMETRY Symm
CHECK_DEADLOCK FALSE
INVARIANT NoDurableStaleness
