CONSTANTS
    p1 = p1
    p2 = p2
    Connections = {p1}
    None = None
    NoWork = NoWork
    NameOrder <- MCNameOrder
    Lowercase <- MCLowercase
    Schemas <- MCEvolution
SPECIFICATION Spec
INVARIANTS
    StoredSchemaVerifies
    PhysicalMatchesCatalog
PROPERTIES
    UnchangedIsTruthful
