SPECIFICATION ProgressSpec
CONSTANTS
    s1 = s1
    s2 = s2
    manager1 = manager1
    c1 = c1
    c2 = c2
    \* OwnerExecutions
    Requests <- TwoSessions
    \* ProviderCalls
    Callers <- TwoSessions
    FailureThreshold = 2
    ResetTimeout = 1
    MaxCallRetries = 1
    \* Pipeline
    Companies <- TwoCompanies
    Managers <- OneManager
    Contacts <- OneContact
    Target = 1
    MaxAudits = 1
    MaxDrafts = 1
    QueryLimit = 1
INVARIANTS
    AgentStartsOnce
    OpenShieldsService
PROPERTIES
    ResultStays
    ExecutionEnds
    BreakerRecovers
    LeadsMoveOn
CHECK_DEADLOCK FALSE
