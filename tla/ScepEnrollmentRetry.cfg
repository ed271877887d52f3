SPECIFICATION FairSpec
CONSTANTS
    r1 = r1
    r2 = r2
    t1 = t1
    t2 = t2
    s1 = s1
    s2 = s2
    k1 = k1
    k2 = k2
    w1 = w1
    w2 = w2
    c1 = c1
    c2 = c2
    c3 = c3
    None = None
    Free = Free
    Static = Static
    Intune = Intune
    Requests <- BothRequests
    Txs <- OneTx
    CSRs <- OneCSR
    Keys <- TwoKeys
    Challenges <- Nobody
    Certs <- OneCert
    Foreign <- Nobody
    Switches <- SharedSecret
    MaxFailures = 1
PROPERTIES
    RetriesAgree
    RequestEnds
