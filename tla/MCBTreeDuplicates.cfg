CONSTANTS
    v1 = v1
    v2 = v2
    LeafMax = 2
    InternalMax = 3
    MaxKey = 6
    Values = {v1, v2}
    MaxPage = 24
    Trees <- MCLongTrees
SPECIFICATION Spec
INVARIANTS
    SeekFindsFirst
