SPECIFICATION Spec
CONSTANTS
    Node <- MCDefinedNode
    Job <- MCDefinedJob
INVARIANTS
    DefinedWhenSafe
    CodeAlive
PROPERTIES
    AnswersOnce
CHECK_DEADLOCK FALSE
