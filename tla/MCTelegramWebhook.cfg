SPECIFICATION FairSpec
CONSTANTS
    ticket = ticket
    bare = bare
    garbled = garbled
    group = group
    Updates = {ticket, bare, group, garbled}
    NoUpdate = NoUpdate
    Update <- MCUpdate
    Calls = {c1, c2}
    MaxCalls <- MCMaxCalls
    MaxFaults = 2
INVARIANTS
    TypeOK
    ConfirmedIsPublished
    WelcomeFollowsEvent
    DuplicateHasCause
PROPERTIES
    EventuallyConfirmed
CHECK_DEADLOCK FALSE
