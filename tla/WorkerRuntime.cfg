CONSTANTS
    MaxCycles = 2
    MaxBeats = 2
    MaxStarts = 2
SPECIFICATION FairSpec
INVARIANTS
    EndRecorded
    MarkersNewest
    MarkersOfOneCycle
    InterruptedNeverEnded
    OneOpenRunPerProcess
PROPERTY
    ShutdownEnds
CHECK_DEADLOCK FALSE
