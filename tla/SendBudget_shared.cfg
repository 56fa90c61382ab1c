SPECIFICATION Spec
CONSTANTS
    w1 = w1
    w2 = w2
    c1 = c1
    c2 = c2
    m1 = m1
    r1 = r1
    r2 = r2
    r3 = r3
    None = None
    Workers <- TwoWorkers
    Campaigns <- TwoCampaigns
    Mailboxes <- OneMailbox
    Rows <- ThreeRows
    CampaignOf <- RowsOfThree
    Pool <- OnlyPool
    Cap <- TwoCaps
    Warm <- WarmOne
    StartedAt <- Afternoon
    WarmBase = 1
    WarmStep = 1
    LastStep <- FollowUps
    WaitDays = 1
    MaxTime = 3
    MaxFaults = 1
INVARIANT TypeOK
INVARIANT BudgetBound
SYMMETRY LeadersAlike
