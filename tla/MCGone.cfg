SPECIFICATION Spec
CONSTANTS
    Name <- Names
    MaxRegistrations = 3
    MaxDepth = 1
INVARIANT
    GoneAfterUnregister
CHECK_DEADLOCK FALSE
