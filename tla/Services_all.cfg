SPECIFICATION FairSpec
CONSTANTS
    w1 = w1
    w2 = w2
    u1 = u1
    u2 = u2
    r1 = r1
    r2 = r2
    r3 = r3
    r4 = r4
    p1 = p1
    o1 = o1
    o2 = o2
    sent1 = sent1
    reply1 = reply1
    NoUrl = NoUrl
    Workers <- TwoWorkers
    Urls <- TwoUrls
    MaxIdx = 0
    MaxRows = 2
    MaxFaults = 2
    AccountRequests <- ThreeReqs
    Companies <- TwoOwners
    Company <- CompanyOf
    AccountFaults = 1
    RedialRequests <- FourReqs
    MaxVersion = 3
    RedialFaults = 1
    OfferRows <- TwoReqs
    OfferDays = 3
    Holidays <- Monday5
    LastTabled = 9
    LastDay = 3
    MaxTries = 2
    MaxSlips = 1
    Creations <- TwoReqs
    Owners <- TwoOwners
    Deletions <- OnePod
    MaxMishaps = 2
    Clicks <- TwoReqs
    Window = 2
    MaxSeconds = 2
    MaxPriority = 2
    Connections <- TwoReqs
    HubPods <- OnePod
    PodOf <- PodOfStream
    Slots = 1
    MaxNotices = 3
    Grants <- TwoOwners
    CalendarCalls <- TwoReqs
    MaxRotations = 1
    NoGrant = NoGrant
    Domains <- OnePod
    Askers <- TwoReqs
    Ttl = 1
    MaxHours = 2
    PollPods <- OnePod
    Messages <- TwoMails
    Kind <- MailKinds
    Known <- TwoMails
    Faults <- Restarts
    PollFaults = 1
INVARIANT AllTypesOK
INVARIANT ClickGoesWhereTheMailSaid
INVARIANT CredentialsAgree
INVARIANT NoOrphan
INVARIANT EventMatchesRow
INVARIANT OneDeadline
INVARIANT CreationIsWhole
INVARIANT ClicksCountOnce
INVARIANT NoSendOnClosed
INVARIANT ConnectionIsTheUsers
PROPERTY RefusedOnEvidence
PROPERTY ClientsLeave
PROPERTY EveryMailFiled
CHECK_DEADLOCK FALSE
