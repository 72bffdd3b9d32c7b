SPECIFICATION MCSpec
CONSTANTS
    src = src
    comp = comp
    o1 = o1
    o2 = o2
    o3 = o3
    Owner = {o1, o2, o3}
    Path = {src, comp}
    Effects <- MCEffects
    Within <- MCWithin
    Star = Star
    None = None
    MaxWaiters = 2
    MaxTroubles = 2
SYMMETRY OwnerSymmetry
INVARIANTS
    TypeOK
    Forest
    DelegatedAuthority
    WriteExclusion
    NoLostWakeup
    LockCovers
    FlushedIsSettled
PROPERTIES
    AnswerOnRecord
\* A delegation comes to its end.
CHECK_DEADLOCK FALSE
