SPECIFICATION Spec
CONSTANT
    Shapes <- MCShapes
INVARIANTS
    WhitespaceTypeOK
    OnlyWhitespaceLost
    IndentFits
    LinesAsDocumented
\* A template whose two passes are over stays as it is.
CHECK_DEADLOCK FALSE
