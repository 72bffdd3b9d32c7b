CONSTANTS
    Worker = {"run", "event", "cancel", "resolve"}
    MaxTurns = 2
    MaxFaults = 1
    MaxCrashes = 1
    MaxPrompts = 0
    NoRecord = NoRecord
SPECIFICATION CancelOrRetrySpec
INVARIANTS
    Covered
    ClosedTurnIsOver
PROPERTIES
    CancelSticks
    NoStartAfterCancel
    SentOnce
    FinishedForGood
CHECK_DEADLOCK FALSE
