CONSTANTS
    t1 = t1
    t2 = t2
    a = a
    b = b
    c = c
    w = w
    x = x
    y = y
    z = z
    Null = Null
    PageSize = 7
    HeaderSize = 1
    SlotSize = 1
    Unit <- MCUnit
    MaxPage = 2
    Record <- MCRecord
    Name = {t1, t2}
    Column = {1}
    Row <- MCRow
    OrderKey <- MCOrderKey
    Size <- MCSize
    MaxTables = 2
    MaxRows = 3
    MaxMoves = 1
SPECIFICATION Spec
SYMMETRY TablesAlike
INVARIANTS
    TypeOK
    PagesSound
    PagesOwned
    IndexesAgree
    CountsExact
PROPERTIES
    KeepsRecords
    ImplementsTables
