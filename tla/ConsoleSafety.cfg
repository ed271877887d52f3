SPECIFICATION Spec
CONSTANTS
    a1 = a1
    a2 = a2
    b1 = b1
    b2 = b2
    w1 = w1
    d1 = d1
    d2 = d2
    d3 = d3
    None = None
    Nobody = Nobody
    Requests <- TwoA
    Links <- TwoB
    Rows = {1, 2, 3}
    Secrets = {1, 2, 3}
    Passkeys <- OnePasskey
    Sessions = {1, 2}
    Menus <- SignInMenus
    MaxAttempts = 2
    Skew = 1
    Grace = 1
    LastStep = 2
    MaxBatch = 2
    MaxCount = 1
    Calls <- TwoA
    People <- TwoB
    Users = {1, 2, 3}
    Trails = {1, 2, 3}
    Invites = {1, 2, 3}
    Callers <- ThreeCallers
    Limit = 2
    Window = 3
    SweepInterval = 2
    MaxBuckets = 2
    LastMoment = 8
    Served <- FourServed
    Nested <- OneNested
    MaxOpenConns = 3
    Parts <- AllParts
SYMMETRY Interchangeable
INVARIANTS
    PoolFlows
PROPERTIES
    FactorsHold
    MembersAreDecided
    BudgetsHoldUnderFlood
CHECK_DEADLOCK FALSE
