SPECIFICATION Spec
CONSTANTS
    x1 = x1
    x2 = x2
    y1 = y1
    y2 = y2
    z1 = z1
    z2 = z2
    NoTitle = NoTitle
    Admins <- TwoX
    Listings = {1, 2, 3}
    Titles <- TwoZ
    Minted = {1, 2}
    Concerns <- ConfigConcerns
    Unset = Unset
    Posts <- TwoX
    AcmeEndpoints = {1, 2}
    AcmeNames <- OneZ
    Kids = {1, 2}
    Accounts <- TwoY
    Leaves = {1}
    LeafKeys <- TwoX
    Affairs <- AcmeAffairs
    Places <- TwoX
    Numbers = {1, 2}
    NonceValues = {1, 2, 3}
    NoOne = NoOne
    Tabs <- TwoX
    Directories <- TwoY
    Nonces = {1, 2, 3}
    NoTenant = NoTenant
    Callers <- TwoX
    Tenants <- TwoZ
    Questions <- ClientQuestions
    Attempts = 2
    CallTime = 1
    Ttl = 4
    Margin = 2
    MaxTicks = 4
    Instances <- TwoX
    Files = {1, 2, 3}
    Builds <- ThreeBuilds
    Unguarded = {3}
    Grace = 2
    Parts <- AllParts
SYMMETRY Interchangeable
INVARIANTS
    ConfigurationHolds
    ActsAsAsked
    StartsAndStopsWhole
PROPERTIES
    OwnersAndEndpointsHold
    FlowIsProved
    CachesAreHonest
CHECK_DEADLOCK FALSE
