CONSTANTS
    Worker = {"run", "event", "watch", "cancel"}
    MaxTurns = 1
    MaxFaults = 0
    MaxCrashes = 0
    MaxPrompts = 1
    NoRecord = NoRecord
SPECIFICATION VisitedSpec
INVARIANTS
    DelegationAgrees
PROPERTIES
    OvertakenEndsNothing
    CancelEnds
    SlotComesBack
CHECK_DEADLOCK FALSE
