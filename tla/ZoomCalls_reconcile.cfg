SPECIFICATION FairSpec
CONSTANTS
    p1 = p1
    p2 = p2
    h1 = h1
    c1 = c1
    c2 = c2
    ann = ann
    ben = ben
    dan = dan
    Handlers <- OneHandler
    Pods <- TwoPods
    Calls <- OneCall
    Customers <- ThreeCustomers
    Staff <- OurDesk
    Caller <- CallerOf1
    Callee <- CalleeOf1
    Direction <- Inbound
    Phone <- ThreePhones
    LastContact <- BenLast
    Parts <- OnePart
    Window = 1
    MaxDeliveries = 2
    MaxFaults = 1
INVARIANT TypeOK
INVARIANT FiledOnceAndRight
INVARIANT RecordingPlays
PROPERTY EveryCallRecorded
