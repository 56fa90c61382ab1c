SPECIFICATION Spec
CONSTANTS
    p1 = p1
    p2 = p2
    r1 = r1
    Workers <- OnePod
    Recipients <- OneRow
    MaxStep = 1
    MaxAttempts = 1
    MinSamples = 1
    PauseThreshold = 0
    MaxFaults = 0
    Operations <- StatusOps
    Free = Free
    Dead = Dead
    NoRow = NoRow
PROPERTY CancelledIsFinal
