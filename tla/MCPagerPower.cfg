CONSTANTS
    MaxPage = 2
    MaxSlots = 5
    MaxStamp = 2
    Faults = {"power"}
    Durabilities = {"normal"}
    CheckpointFrames = 3
    Reorders = FALSE
    MaxCrashes = 2
    MaxCloses = 0
SPECIFICATION Spec
INVARIANTS
    RecoveredIsLast
    FramesDurableBeforeCopy
PROPERTY
    PromisesKept
