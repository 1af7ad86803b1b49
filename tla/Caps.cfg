SPECIFICATION CapsSpec
CONSTANTS
    s1 = s1
    s2 = s2
    o1 = o1
    o2 = o2
    o3 = o3
    o4 = o4
    o5 = o5
    o6 = o6
    x1 = x1
    x2 = x2
    x3 = x3
    u1 = u1
    u2 = u2
    u3 = u3
    u4 = u4
    u5 = u5
    \* OutboundEmail
    Outreaches <- SixOutreaches
    LeadOf <- FourForOne
    Workers <- TwoSessions
    DailyLimit = 3
    InitialLimit = 1
    MaxFollowups = 1
    MaxPosts = 1
    \* Notifications
    Notices <- NewsAndAlarms
    InfoNotices <- ThreeNews
    Senders <- TwoSessions
    MaxPerHour = 2
    MaxInfoPerDay = 1
    MaxSendRetries = 0
    MaxPosted = 1
VIEW MCView
SYMMETRY MCSymmetry
INVARIANTS
    CapsOvershootBounded
    NoticeCapsOvershootBounded
CHECK_DEADLOCK FALSE
