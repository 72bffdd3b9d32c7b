SPECIFICATION Spec
CONSTANTS
    work = work
    collect = collect
    Step = {work, collect}
    DependsOn <- MCDependsOn
    Gate <- MCGate
    TaskMode = {work}
    Repairs = 1
    t1 = t1
    Task = {t1}
    c1 = c1
    c2 = c2
    Slot = {c1}
    RunLimit = 2
    MaxUsers = 1
    MaxWorks = 1
    MaxCalls = 4
    None = None
INVARIANTS
    IndexIsAccepted
CHECK_DEADLOCK FALSE
