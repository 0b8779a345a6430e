SPECIFICATION Spec
CONSTANTS
    Node <- YieldNodes
    Job <- YieldJobs
INVARIANT
    YieldsToCaller
CHECK_DEADLOCK FALSE
