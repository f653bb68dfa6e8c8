CONSTANTS
    p1 = p1
    p2 = p2
    Connections = {p1, p2}
    NoWork = NoWork
    MaxFollowUps = 2
    Scripts <- MCRaces
SPECIFICATION Spec
CHECK_DEADLOCK FALSE
INVARIANTS
    TypeOK
    TransitionsValid
    CleanReturn
    SuccessIsCommitted
    BlocksAreIsolated
    ReadsOwnWrites
PROPERTIES
    ImplementsContract
