SPECIFICATION ExecLiveSpec
CONSTANTS
    Member = {"c1", "c2"}
    MaxAsks = 2
INVARIANTS
    StoppedIsGone
    
PROPERTIES
    StopAnswered
    ImplementsPort
CHECK_DEADLOCK FALSE
