SPECIFICATION FairSpec
CONSTANTS
    reader = reader
    writer = writer
    own = own
    shared = shared
    below = below
    wide = wide
    Connections = {reader, writer}
    Readers = {reader}
    NoWork = NoWork
    NoId = NoId
    Ids <- MCIds
    Fetches = {own, shared, below, wide}
    RootFetches <- MCRootFetches
    SubFetches <- MCSubFetches
    FixedBinds <- MCFixedBinds
    MaxBindValues = 3
    Databases <- MCDatabases
CHECK_DEADLOCK FALSE
INVARIANTS
    WithinBindLimit
    ListsWereTrue
    BlockResultIsOneState
PROPERTIES
    SelectsEnd
