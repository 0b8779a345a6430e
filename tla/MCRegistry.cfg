SPECIFICATION Spec
CONSTANTS
    Name <- Names
    MaxRegistrations = 4
    MaxDepth = 2
INVARIANTS
    RegistryTypeOK
    Ordered
    DispatchedAsFound
    ReadsInside
PROPERTIES
    ImplementsTable
CHECK_DEADLOCK FALSE
