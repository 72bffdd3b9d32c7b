SPECIFICATION Spec
CONSTANTS
    work = work
    collect = collect
    Step = {work, collect}
    DependsOn <- MCDependsOn
    Gate <- MCGate
    TaskMode = {work}
    Repairs = 1
    t1 = t1
    Task = {t1}
    c1 = c1
    c2 = c2
    Slot = {c1, c2}
    RunLimit = 1
    MaxUsers = 2
    MaxWorks = 2
    MaxCalls = 5
    None = None
SYMMETRY CallSymmetry
CONSTRAINT InTime
INVARIANTS
    PassedInOrder
    ResumedKnowingly
CHECK_DEADLOCK FALSE
