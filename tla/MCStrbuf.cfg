SPECIFICATION Spec
CONSTANTS
    INITIAL_CAP = 2
    Chars <- MCChars
    Entity <- MCEntity
    Margin <- MCMargin
    Texts <- MCTexts
    Block = {b1, b2, b3, b4}
    NULL = NULL
    MaxOutput = 3
INVARIANTS
    StrbufTypeOK
    InBounds
    OneOwner
    EscapeReversible
PROPERTIES
    AppendsEnd
    ImplementsSink
CHECK_DEADLOCK FALSE
