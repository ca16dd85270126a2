SPECIFICATION Spec
CONSTANTS
    Providers = {"openai_compatible", "azure_openai", "anthropic", "gemini"}
    HasModel = TRUE
    MaxPieces = 1
    Calls = {c1, c2}
    Cap = 1
    Holds = {1, 5}
    Margin = 2
    Gap = 1
    Scale = 2
    Rate = 3
    Burst = 2
    MaxFaults = 2
INVARIANT TypeOK
INVARIANT CapHeld
INVARIANT BucketExact
INVARIANT StreamWhole
PROPERTY SlotsReturn
