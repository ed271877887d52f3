SPECIFICATION FairSpec
CONSTANTS
    c1 = c1
    c2 = c2
    p1 = p1
    p2 = p2
    p3 = p3
    p4 = p4
    p5 = p5
    o1 = o1
    None = None
    Free = Free
    Certs <- OneCert
    Admins <- OneAdmin
    Syncs <- OneSync
    Workers <- OneWorker
    Fetches <- Nobody
    Responders <- OneResponder
    MaxNumber = 1
    MaxFailures = 0
INVARIANTS
    NoGoodAfterRevocation
PROPERTIES
    RevocationIsListed
    CRLIsRenewed
