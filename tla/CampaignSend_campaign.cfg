SPECIFICATION FairSpec
CONSTANTS
    p1 = p1
    p2 = p2
    r1 = r1
    Workers <- OnePod
    Recipients <- OneRow
    MaxStep = 2
    MaxAttempts = 2
    MinSamples = 1
    PauseThreshold = 10
    MaxFaults = 1
    Operations <- CampaignOps
    Free = Free
    Dead = Dead
    NoRow = NoRow
INVARIANT StepsInOrder
PROPERTY KeepsPromise
PROPERTY DrainsUnlessBlocked
