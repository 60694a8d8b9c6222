CONSTANTS
    NumSets = 2
    Assoc = 2
    Policy = "FIFO"
    Blocks = {0, 1, 2, 3, 4}
    Prefetcher = TRUE
    Inclusive = FALSE
    MaxEvictions = 0
    Flushes = FALSE
SPECIFICATION RequestSpec
CHECK_DEADLOCK FALSE
INVARIANT OneFifoPointer
INVARIANT LoadedCountsValid
