SPECIFICATION Spec
CONSTANTS
    r1 = r1
    r2 = r2
    t1 = t1
    t2 = t2
    s1 = s1
    s2 = s2
    k1 = k1
    k2 = k2
    w1 = w1
    w2 = w2
    c1 = c1
    c2 = c2
    c3 = c3
    None = None
    Free = Free
    Static = Static
    Intune = Intune
    Requests <- BothRequests
    Txs <- TwoTxs
    CSRs <- OneCSR
    Keys <- OneKey
    Challenges <- OneChallenge
    Certs <- ThreeCerts
    Foreign <- OneCert
    Switches <- Nobody
    MaxFailures = 1
SYMMETRY Interchangeable
INVARIANTS
    OneCertificateEach
    ChallengeSpentOnce
    RenewedHere
    SignedIsKept
