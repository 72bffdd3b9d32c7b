SPECIFICATION LiveSpec
CONSTANTS
    Execution = {1, 2}
    Commands = 2
    Slots = 1
    Calls <- Apart
    MaxStarts = 2
    MaxTrouble = 1
INVARIANTS
    SafeIsStopped
    SlotHeld
    DisposedIsSettled
PROPERTIES
    StartedOnce
    ComesToRest
CHECK_DEADLOCK FALSE
