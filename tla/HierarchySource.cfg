CONSTANTS
    c1 = c1
    Cores = {c1}
    Lines = {0, 1, 2}
    Geometry <- SmallGeometry
    ReplacePolicy = "LRU"
    DataPrefetcher = TRUE
    Contention = TRUE
SPECIFICATION Spec
VIEW Contents
CHECK_DEADLOCK FALSE
INVARIANT ResultIsSource
