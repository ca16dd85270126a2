SPECIFICATION Spec
CONSTANTS
    Versions = {v1, v2}
    Workers = {w1, w2}
    NoWorker = NoWorker
    MaxAcl = 2
    MaxExpiries = 1
    MaxPromotions = 2
    MaxFaults = 1
    MaxLate = 0
SYMMETRY Symm
INVARIANT TypeOK
INVARIANT NoSilentStaleness
PROPERTY PayloadNeverGoesBack
CHECK_DEADLOCK FALSE
