SPECIFICATION FairSpec
CONSTANTS
    f1 = f1
    f2 = f2
    agents = agents
    Facade = {f1, f2}
    Task = {1, 2}
    Lane = {agents}
    LaneOf <- MCLaneOf
    Rank <- MCRank
    LimitOf <- MCLimitOf
    None = None
    MaxMicrotasks = 2
    MaxResumes = 1
INVARIANTS
    EntriesInHand
    WorkConserving
    NoLostDispatch
PROPERTIES
    StrictestLimit
    EventuallyDispatched
CHECK_DEADLOCK FALSE
