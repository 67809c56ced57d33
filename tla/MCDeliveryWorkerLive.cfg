SPECIFICATION FairSpec
CONSTANTS
    Procs = {p1, p2}
    NoRequest = NoRequest
    NoMsg = NoMsg
    m1 = m1
    bad = bad
    Msgs = {m1}
    Prefetch = 1
    MaxFaults = 2
    Channels <- LiveChannels
    Requests <- MCRequests
    Registry <- MCRegistry
    RenderOutcomes <- LiveRenderOutcomes
    Body <- MCBody
PROPERTY
    EventuallySettled
CHECK_DEADLOCK FALSE
