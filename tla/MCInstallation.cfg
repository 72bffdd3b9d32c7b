\* Two commands, the second on what the first has left, and two troubles; two
\* receipts, and one of everything that can happen to them.
SPECIFICATION BothSpec
CONSTANTS
    MaxCommands = 2
    MaxTroubles = 2
    Receipt = {1, 2}
    MaxUser = 1
    MaxAuto = 2
    MaxWatch = 1
    MaxFault = 1
    AttemptLimit = 2
    FailureLimit = 1
INVARIANTS
    OriginalKept
    AllOrNothing
    RegisteredIsThere
    NoThirdLoss
PROPERTIES
    OwnKept
    NotToldTwice
CHECK_DEADLOCK FALSE
