SPECIFICATION Spec
CONSTANTS
    Procs = {p1, p2}
    NoRequest = NoRequest
    NoMsg = NoMsg
    m1 = m1
    bad = bad
    Msgs = {m1, bad}
    Prefetch = 2
    MaxFaults = 1
    Channels <- MCChannels
    Requests <- MCRequests
    Registry <- MCRegistry
    RenderOutcomes <- MCRenderOutcomes
    Body <- MCBody
SYMMETRY Symmetry
INVARIANTS
    Conservation
    AckedHasResult
    NoConcurrentHandling
PROPERTIES
    RedeliveryHasCause
    KeepsLedger
CHECK_DEADLOCK FALSE
