SPECIFICATION WorkSpec
CONSTANTS
    s1 = s1
    s2 = s2
    w1 = w1
    Sessions <- MCSessions
    Workers <- MCWorkers
    Toggled <- MCToggled
SYMMETRY MCSymmetry
INVARIANTS
    HeldStaysOff
    SafeModeHolds
    HeldThroughoutDenies
