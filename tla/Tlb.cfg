CONSTANTS
    Pids = {0, 1}
    Pages = {0, 1}
    Stride = 4
    Geometry <- SmallTlbs
    Policy = "LFU"
    MaxUses = 2
SPECIFICATION Spec
CONSTRAINT Bounded
VIEW Contents
PROPERTY FoundIsHeld
PROPERTY FoundWasLoaded
PROPERTY TlbsAreDevices
