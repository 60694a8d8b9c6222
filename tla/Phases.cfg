CONSTANTS
    SkipRefs = {0, 1}
    WarmupRefs = {0, 1, 3, 4}
    SimRefs = {1, 2, 15}
    Width = 16
    MaxRecords = 6
SPECIFICATION PhasesSpec
CHECK_DEADLOCK FALSE
INVARIANT ClearedAtTail
 
 
