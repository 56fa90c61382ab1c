SPECIFICATION FairSpec
CONSTANTS
    p1 = p1
    p2 = p2
    h1 = h1
    c1 = c1
    c2 = c2
    ann = ann
    ben = ben
    dan = dan
    Handlers <- OneHandler
    Pods <- TwoPods
    Calls <- OneCall
    Customers <- OneCustomer
    Staff <- OurDesk
    Caller <- CallerTokyo
    Callee <- CalleeOf1
    Direction <- Inbound
    Phone <- TokyoPhone
    LastContact <- Never
    Parts <- OnePart
    Window = 1
    MaxDeliveries = 1
    MaxFaults = 0
PROPERTY EveryCallRecorded
