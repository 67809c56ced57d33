SPECIFICATION Spec
CONSTANTS
    Files <- MCFiles
    Environments <- MCEnvironments
    MaxFaults = 2
INVARIANTS
    TypeOK
    LoadedIsUsable
    NamesResolve
    GreeterIsReady
    DiesOnlyOfWebhook
PROPERTIES
    EventuallyServes
CHECK_DEADLOCK FALSE
