SPECIFICATION UnfinishedSpec
CONSTANTS
    a1 = a1
    a2 = a2
    s1 = s1
    s2 = s2
    s3 = s3
    sweeper = sweeper
    Workers <- ThreeSessions
    MaxRetries = 2
    StaleAge = 1
INVARIANTS
    FirstAttemptOnce
    RunsFollowRuns
PROPERTIES
    PendingEnds
CHECK_DEADLOCK FALSE
