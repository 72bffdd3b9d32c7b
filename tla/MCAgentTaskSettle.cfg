CONSTANTS
    Worker = {"run", "event", "watch"}
    MaxTurns = 1
    MaxFaults = 0
    MaxCrashes = 0
    MaxPrompts = 0
    NoRecord = NoRecord
SPECIFICATION EventSpec
INVARIANTS
    SettlingCovered
CHECK_DEADLOCK FALSE
