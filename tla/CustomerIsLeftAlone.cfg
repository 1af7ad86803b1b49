SPECIFICATION Spec
CONSTANTS
    w1 = w1
    w2 = w2
    Workers <- MCWorkers
    Events <- MCEvents
    MaxFollowups = 2
INVARIANT CustomerIsLeftAlone
