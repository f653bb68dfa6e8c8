SPECIFICATION Spec
CONSTANTS
    Names = {"a", "b"}
    Strings = {"'s'"}
    Floats = {"0.5"}
    SmallInts = {"1"}
    HugeInts = {"9223372036854775809"}
    Languages <- OnlyFilters
    Keyboards <- NoKeyboards
CHECK_DEADLOCK FALSE
INVARIANTS
    OpenSelectsStayWhole
