CONSTANTS
    v1 = v1
    v2 = v2
    LeafMax = 2
    InternalMax = 3
    MaxKey = 6
    Values = {v1, v2}
    MaxPage = 12
    Trees <- MCTrees
SPECIFICATION Spec
INVARIANTS
    TypeOK
    NodesFit
    OneTree
    ReadsFind
PROPERTIES
    ImplementsOrderedList
