CONSTANTS
    MaxPage = 2
    MaxSlots = 5
    MaxStamp = 2
    Faults = {"process"}
    Durabilities = {"off"}
    CheckpointFrames = 3
    Reorders = FALSE
    MaxCrashes = 2
    MaxCloses = 1
SPECIFICATION Spec
INVARIANTS
    TypeOK
    Inv
    NeverShort
PROPERTIES
    CommittedFramesStable
    ImplementsAtomicStore
