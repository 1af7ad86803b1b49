SPECIFICATION BusinessSpec
CONSTANTS
    s1 = s1
    s2 = s2
    k1 = k1
    k2 = k2
    k3 = k3
    x1 = x1
    x2 = x2
    urgent = urgent
    income = income
    month = month
    company = company
    \* OutboundEmail
    Outreaches <- TwoKeys
    LeadOf <- SameLead
    Workers <- TwoSessions
    DailyLimit = 2
    InitialLimit = 2
    MaxFollowups = 1
    MaxPosts = 2
    \* Notifications
    Notices <- NewsAndAlarm
    InfoNotices <- News
    Senders <- TwoSessions
    MaxPerHour = 1
    MaxInfoPerDay = 1
    MaxSendRetries = 1
    MaxPosted = 2
    \* AgentRuns
    Runners <- TwoSessions
    RunKeys <- TwoKeys
    Domains <- ThreeThings
    RunsPerDay = 1
    RunLimit = 1
    \* Finance
    Bookers <- TwoSessions
    Costs <- ThreeKeys
    Revenues <- OneIncome
    Metrics <- OneMonth
    Amount <- Amounts
    DayOf <- Dates
    Earlier <- LastWeek
    Cent = 2
    DailyBudget = 10
    MaxSingle = 11
    WarnAt = 5
    \* Delivery
    Tasks <- TwoTasks
    DependsOn <- AfterKickoff
    Sensitive <- HandoffOnly
    Agents <- TwoSessions
    \* Pipeline
    Companies <- OneCompany
    Managers <- TwoSessions
    Contacts <- OneCompany
    Target = 1
    MaxAudits = 1
    MaxDrafts = 1
    QueryLimit = 1
SYMMETRY MCSymmetry
INVARIANTS
    BusinessTypeOK
    PostedAgainOnlyIfLost
    MailedOnce
    SentWasMailedWasApproved
    LimitsOvershootBounded
    NoticedAgainOnlyIfUndone
    PaidOncePerKey
    FiguresAreOfTheLedger
    VerifiedInOrder
    DraftsBounded
PROPERTIES
    OutcomeIsFinal
    CompletedWasVerified
    EvidenceNeverLowersTheScore
CHECK_DEADLOCK FALSE
