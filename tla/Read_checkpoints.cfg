SPECIFICATION Spec
CONSTANTS
    MaxPosts = 2
    Before = 0
    Own = {1}
    NamesTime = TRUE
    Mentions = {2}
    MaxActs = 1
    MaxRefreshes = 1
    MaxViews = 1
    MaxEvents = 2
INVARIANTS
    TypeOK
    FullReadStands
    MentionsStayRead
    NothingUnreadHides
PROPERTIES
    OnlyMarksRewind
CHECK_DEADLOCK FALSE
