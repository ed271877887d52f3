SPECIFICATION FairSpec
CONSTANTS
    r1 = r1
    r2 = r2
    o1 = o1
    o2 = o2
    a1 = a1
    a2 = a2
    c1 = c1
    c2 = c2
    c3 = c3
    NoCert = NoCert
    Refusal = Refusal
    NoOrder = NoOrder
    NoAccount = NoAccount
    Free = Free
    Sweeper = Sweeper
    Requests <- BothRequests
    Orders <- OneOrder
    Accounts <- OneAccount
    Certs <- TwoCerts
    MaxFailures = 1
PROPERTIES
    RequestEnds
    ExpiredOrderEnds
