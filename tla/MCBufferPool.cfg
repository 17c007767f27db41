CONSTANTS
    Capacity = 2
    MaxPage = 3
    MaxStamp = 2
    MaxPins = 1
SPECIFICATION Spec
INVARIANTS
    TypeOK
    PoolInv
    ClockFindsVictim
PROPERTIES
    PinsHold
    ImplementsPageSpace
