SPECIFICATION FairSpec
CONSTANTS
    backend = backend
    window = window
    g1 = g1
    g3 = g3
    w1 = w1
    Connectors = {backend, window}
    Gets = {g1, g3}
    Writes = {w1}
    Home <- BothHomes
    HandlerMayReset = TRUE
    MaxRoutes = 1
    MaxRestarts = 1
    MaxResets = 2
INVARIANTS
    AnsweredOnce
    WrittenOnce
PROPERTIES
    NoStaleAnswer
    AllAnswered
CHECK_DEADLOCK FALSE
