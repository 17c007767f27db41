CONSTANTS
    MaxPage = 2
    MaxSlots = 4
    MaxStamp = 2
    Faults = {"process"}
    Durabilities = {}
    CheckpointFrames = 3
    Reorders = FALSE
    MaxCrashes = 1
    MaxCloses = 1
    FailingCalls = {"write", "commit", "fsync", "copy", "header"}
    MaxFailures = 1
SPECIFICATION SessionSpec
INVARIANTS
    SessionTypeOK
    HandledAllOrNothing
    HandledReadsAreStable
    HandledFailuresUndone
PROPERTY
    StatementsEnd
