SPECIFICATION FairSpec
CONSTANTS
    w1 = w1
    w2 = w2
    b1 = b1
    b2 = b2
    b3 = b3
    t1 = t1
    t2 = t2
    m1 = m1
    Free = Free
    Dead = Dead
    None = None
    Workers <- TwoWorkers
    Books <- ThreeBooks
    Templates <- TwoTemplates
    Since <- FirstSecond
    Matches <- MatchTwo
    Editable <- MatchTwo
    Mailboxes <- OneMailbox
    Pool <- PoolOfOne
    Granted <- PoolOfOne
    Size <- SizeOfThree
    Reachable <- ReachOfThree
    MaxRecipients = 1
    CandidateLimit = 2
    MaxBooksPerTick = 1
    MaxRequests = 1
    MaxFaults = 1
INVARIANT TypeOK
INVARIANT AnnouncesItsOwn
PROPERTY EveryBookDrafted
