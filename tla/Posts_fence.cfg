SPECIFICATION Spec
CONSTANTS
    rootPost = rootPost
    replyPost = replyPost
    tailPage = tailPage
    threadPage = threadPage
    NoPost = NoPost
    Posts = {rootPost}
    Root <- ThreadRoot
    CreatedAt <- Times
    Pages = {tailPage}
    Covers <- ThreadCovers
    Loads = {c1, c2}
    c1 = c1
    c2 = c2
    MaxChanges = 2
    MaxRequests = 2
    MaxTroubles = 1
SYMMETRY Callers
INVARIANTS
    TypeOK
    FenceHolds
    RowsOutliveNoRemoval
    NoLoadForgotten
CHECK_DEADLOCK FALSE
