SPECIFICATION PollingSpec
CONSTANTS
    HelloIds <- Ids
    MaxEvents = 2
    MaxLosses = 2
    MaxLogins = 1
INVARIANTS
    PolledOnce
PROPERTIES
    OfflinePostsArrive
CHECK_DEADLOCK FALSE
