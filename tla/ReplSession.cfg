CONSTANTS
    p1 = p1
    p2 = p2
    Connections = {p1, p2}
    NoWork = NoWork
    Names = {"a"}
    Strings = {"'s'"}
    Floats = {"0.5"}
    SmallInts = {"1"}
    HugeInts = {"9223372036854775809"}
    Inputs <- MCInputs
    NothingPending <- MCNothing
    MaxQueries = 5
    MaxInputs <- MCInputsOf
    Arguments <- MCArguments
SPECIFICATION FairSpec
CHECK_DEADLOCK FALSE
INVARIANTS
    TypeOK
    MessagesAreTrue
    PastedBlocksAreWhole
PROPERTIES
    ImplementsContract
    InputsEnd
