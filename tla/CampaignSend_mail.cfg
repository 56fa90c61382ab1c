SPECIFICATION Spec
CONSTANTS
    p1 = p1
    p2 = p2
    r1 = r1
    Workers <- Pods
    Recipients <- OneRow
    MaxStep = 2
    MaxAttempts = 2
    MinSamples = 1
    PauseThreshold = 0
    MaxFaults = 3
    Operations <- MailOps
    Free = Free
    Dead = Dead
    NoRow = NoRow
SYMMETRY Symmetric
INVARIANT TypeOK
INVARIANT SingleHolder
INVARIANT AtMostOnce
INVARIANT LateMailBound
INVARIANT CompletedIsDrained
INVARIANT OverrunBound
PROPERTY ClosedRowsStayClosed
