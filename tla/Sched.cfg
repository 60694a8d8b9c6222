CONSTANTS
    t1 = t1
    t2 = t2
    t3 = t3
    p1 = p1
    p2 = p2
    NumCores = 2
    Threads = {t1, t2, t3}
    Cpus = {p1, p2}
    CpuScheduling = TRUE
SPECIFICATION Spec
CHECK_DEADLOCK FALSE
INVARIANT CountsMatch
INVARIANT OnRecordedCpu
