\* Two tasks, each of which may be retried twice.
SPECIFICATION Spec

CONSTANTS
    Places = 2
    MaxTasks = 2
    MaxRetries = 2
    MaxRuntime = 1

INVARIANTS
    EffectsAreCounted
    WorkNeedsAnswer
    CountersAgree
    SucceededIsSettled

PROPERTIES
    SessionEnds
