SPECIFICATION Spec
CONSTANTS
    a1 = a1
    a2 = a2
    s1 = s1
    s2 = s2
    w1 = w1
    Approval <- MCApproval
    Sessions <- MCSessions
    Sweepers <- MCSweepers
    Contents <- MCContents
    ActionOf <- MCActionOf
    RiskOf <- MCRiskOf
    TTL = 1
    MaxTime = 2
SYMMETRY MCSymmetry
INVARIANTS
    NeverBothWays
    ExecutedWasGranted
PROPERTIES
    RefusalIsFinal
    ImplementsLifecycle
CHECK_DEADLOCK FALSE
