SPECIFICATION Spec
CONSTANTS
    Sources <- MCDotSources
    Words <- MCWords
INVARIANTS
    DotIsAnArgument
CHECK_DEADLOCK FALSE
