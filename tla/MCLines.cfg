SPECIFICATION Spec
CONSTANT
    Shapes <- CommentShapes
INVARIANTS
    AloneLinesRemoved
\* A template whose two passes are over stays as it is.
CHECK_DEADLOCK FALSE
