SPECIFICATION Spec
CONSTANTS
    p1 = p1
    p2 = p2
    k1 = k1
    k2 = k2
    ann = ann
    ben = ben
    kim = kim
    m1 = m1
    b1 = b1
    b2 = b2
    Pods <- TwoPods
    Clerks <- TwoClerks
    Customers <- TwoCustomers
    Contacts <- OneContact
    Mails <- OneMail
    Owner <- KimOfAnn
    Books <- TwoBooks
    Book <- BookEach
    Exact <- FromBoth
    Alike <- OrAnn
    MaxVersion = 2
    MaxRequests = 3
    MaxFaults = 1
SYMMETRY Sym
CHECK_DEADLOCK FALSE
INVARIANT TypeOK
INVARIANT PastMailShown
INVARIANT IndexMatchesRow
