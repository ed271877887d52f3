SPECIFICATION Spec
CONSTANTS
    r1 = r1
    r2 = r2
    n1 = n1
    n2 = n2
    k1 = k1
    k2 = k2
    a1 = a1
    a2 = a2
    e1 = e1
    e2 = e2
    None = None
    Free = Free
    Admin = Admin
    Requests <- BothRequests
    Nonces <- TwoNonces
    Keys <- TwoKeys
    Accounts <- OneAccount
    Creds <- OneCred
    SingleUse <- OneCred
    Operations <- Everything
SYMMETRY Interchangeable
INVARIANTS
    RevocationStops
