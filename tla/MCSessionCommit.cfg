CONSTANTS
    MaxPage = 2
    MaxSlots = 5
    MaxStamp = 3
    Faults = {"process"}
    Durabilities = {}
    CheckpointFrames = 3
    Reorders = FALSE
    MaxCrashes = 1
    MaxCloses = 0
    FailingCalls = {"commit"}
    MaxFailures = 1
SPECIFICATION SessionSpec
INVARIANT AllOrNothing
