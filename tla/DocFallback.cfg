SPECIFICATION OrchSpec
CONSTANTS
    Procs = {p1}
    NoRequest = NoRequest
    Channels <- MCChannels
    Requests <- MCRequests
    Registry <- MCRegistry
    RenderOutcomes <- MCRenderOutcomes
INVARIANT
    FallbackOnlyIfEnabled
CHECK_DEADLOCK FALSE
