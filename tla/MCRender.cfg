SPECIFICATION Spec
CONSTANTS
    Node <- MCNode
    Job <- MCJob
INVARIANTS
    TypeOK
    StackDiscipline
    RefsBalanced
    LoopVariables
PROPERTIES
    FailureStops
    RendersMeaning
CHECK_DEADLOCK FALSE
