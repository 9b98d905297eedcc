SPECIFICATION Spec
CONSTANTS
    a = a
    b = b
    x = x
    t1 = t1
    t2 = t2
    Blank = Blank
    Typing <- TwoTexts
    MaxEvents = 1
    OtherTexts = {x}
    Teams = {t1, t2}
    HomeTeam = t1
    MaxPosts = 2
    MaxActs = 2
    MaxTroubles = 1
INVARIANTS
    DiscardReachesServer
CHECK_DEADLOCK FALSE
