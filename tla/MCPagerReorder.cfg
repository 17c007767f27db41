CONSTANTS
    MaxPage = 2
    MaxSlots = 4
    MaxStamp = 4
    Faults = {"power"}
    Durabilities = {"full"}
    CheckpointFrames = 4
    Reorders = TRUE
    MaxCrashes = 1
    MaxCloses = 0
SPECIFICATION Spec
PROPERTY PromisesKept
