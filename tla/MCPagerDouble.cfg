CONSTANTS
    MaxPage = 2
    MaxSlots = 3
    MaxStamp = 2
    Faults = {"process", "power"}
    Durabilities = {"full"}
    CheckpointFrames = 9
    Reorders = FALSE
    MaxCrashes = 2
    MaxCloses = 0
SPECIFICATION Spec
INVARIANT RecoveredIsLast
