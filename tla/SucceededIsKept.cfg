SPECIFICATION Spec
CONSTANTS
    w1 = w1
    w2 = w2
    Workers <- TwoWorkers
    MaxRetries = 1
    StaleAge = 1

PROPERTY SucceededIsKept
