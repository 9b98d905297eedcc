SPECIFICATION FairSpec
CONSTANTS
    HelloIds <- Ids
    MaxEvents = 3
    MaxLosses = 3
    MaxLogins = 2
INVARIANTS
    DispatchedInOrder
    NoSilentGap
    AlwaysDriven
PROPERTIES
    Reconnects
    EventsArrive
CHECK_DEADLOCK FALSE
