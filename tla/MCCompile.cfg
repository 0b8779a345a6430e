SPECIFICATION Spec
CONSTANTS
    Sources <- MCSources
    Words <- MCWords
INVARIANTS
    CompileTypeOK
    StaysInside
    TagsBracketed
    EndNotTaken
    NothingLost
    TextKept
    ParsesAsWritten
PROPERTIES
    Compiled
CHECK_DEADLOCK FALSE
