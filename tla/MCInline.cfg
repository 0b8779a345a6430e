SPECIFICATION Spec
CONSTANTS
    Node <- InlineNodes
    Job <- InlineJobs
INVARIANT
    InlinesAlive
CHECK_DEADLOCK FALSE
