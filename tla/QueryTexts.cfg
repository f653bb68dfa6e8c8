SPECIFICATION Spec
CONSTANTS
    Names = {"a", "b"}
    Strings = {"'s'"}
    Floats = {"0.5"}
    SmallInts = {"1"}
    HugeInts = {"9223372036854775809"}
    Languages <- MCLanguages
    Keyboards <- MCKeyboards
CHECK_DEADLOCK FALSE
INVARIANTS
    SentencesAreUnderstood
    AcceptedTextsAreRead
    StatementsStayWhole
    PastesAreTakenApart
    PromptKeepsText
