SPECIFICATION Spec
CONSTANTS
    p1 = p1
    p2 = p2
    sent1 = sent1
    reply1 = reply1
    bounce1 = bounce1
    Pods <- TwoPods
    Messages <- TwoMails
    Kind <- Kinds2
    Known <- TwoMails
    Faults <- AllFaults
    MaxFaults = 1
SYMMETRY Symmetric
INVARIANT NothingSkipped
PROPERTY SyncedMeansComplete
