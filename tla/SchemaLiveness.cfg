CONSTANTS
    p1 = p1
    p2 = p2
    Connections = {p1, p2}
    None = None
    NoWork = NoWork
    NameOrder <- MCNameOrder
    Lowercase <- MCLowercase
    Schemas <- MCTwoSteps
SPECIFICATION FairSpec
PROPERTIES
    CommandsEnd
