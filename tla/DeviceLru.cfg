CONSTANTS
    NumSets = 1
    Assoc = 3
    Policy = "LRU"
    Blocks = {0, 1, 2, 3}
    Prefetcher = TRUE
    Inclusive = TRUE
    MaxEvictions = 1
    Flushes = TRUE
SPECIFICATION OrderSpec
VIEW Contents
CHECK_DEADLOCK FALSE
INVARIANT LastTagInSync
INVARIANT LruCounterBound
 
