\* Two tasks end; automatic continuations only, and nothing fails.
CONSTANTS
    Receipt = {1, 2}
    MaxUser = 0
    MaxAuto = 2
    MaxWatch = 0
    MaxFault = 0
    AttemptLimit = 2
    FailureLimit = 1
SPECIFICATION Spec
INVARIANTS
    AckedWasRead
CHECK_DEADLOCK FALSE
