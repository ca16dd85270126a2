SPECIFICATION Spec
CONSTANTS
    Providers = {"openai_compatible"}
    HasModel = TRUE
    MaxPieces = 0
    Calls = {c1, c2, c3}
    Cap = 2
    Holds = {1, 6}
    Margin = 2
    Gap = 1
    Scale = 1
    Rate = 2
    Burst = 2
    MaxFaults = 0
INVARIANT CapNeverExceeded
