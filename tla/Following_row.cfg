SPECIFICATION Spec
CONSTANTS
    MaxPosts = 2
    Before = 1
    Slots = {s1}
    MaxActs = 2
    MaxEvents = 2
INVARIANTS
    RowTellsServer
    ResumeSkipsNothing
CHECK_DEADLOCK FALSE
