CONSTANTS
    Capacity = 2
    MaxPage = 1
    MaxStamp = 2
    MaxPins = 0
SPECIFICATION Spec
INVARIANT NoFalseDoubleFree
