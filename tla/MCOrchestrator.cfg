SPECIFICATION FairOrchSpec
CONSTANTS
    Procs = {p1}
    NoRequest = NoRequest
    Channels <- MCChannels
    Requests <- MCRequests
    Registry <- MCRegistry
    RenderOutcomes <- MCRenderOutcomes
INVARIANTS
    OrchTypeOK
    OncePerIncarnation
    SentIsTruthful
    StopAtFirstAnswer
    AnswerMatchesTrail
    NobodyPassedOver
    SelectionRespected
PROPERTY
    HandleTerminates
CHECK_DEADLOCK FALSE
