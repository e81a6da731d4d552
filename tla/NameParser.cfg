SPECIFICATION Spec
CONSTANTS
    Types <- AllTypes
    Functions <- AllFunctions
    Styles <- AllStyles
INVARIANTS
    TypeOK
    ParserAssertionsHold
    NamesAreUnderstood
    PrintsOutline
CHECK_DEADLOCK FALSE
