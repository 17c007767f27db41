CONSTANTS
    MaxInt = 7
    Base = 4
    PrefixLen = 2
    RowsPerPage = 2
    Unbounded = 99
    InitialSlots = 2
    Hash <- MCHash
    Mix <- MCMix
    Databases <- MCDatabases
    Queries <- MCQueries
    BatchRows = {0, 1, 2, 3}
SPECIFICATION Spec
INVARIANTS
    TypeOK
    Delivers
    BatchesHold
    Answered
    PinsBounded
    NoPinOutlives
    TablesSound
    LimitReadsNoMore
PROPERTIES
    QueriesEnd
