SPECIFICATION PolicySpec
CONSTANTS
    Channels <- MCChannels
    ProviderNames = {"a", "b", "c"}
    MaxChain = 3
INVARIANTS
    PlanIsPolicy
    PlanIsNeverEmpty
