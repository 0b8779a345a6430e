SPECIFICATION Spec
CONSTANTS
    Node <- StrictNodes
    Job <- StrictJobs
PROPERTY
    StrictReported
CHECK_DEADLOCK FALSE
