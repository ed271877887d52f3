SPECIFICATION Spec
CONSTANTS
    x1 = x1
    x2 = x2
    y1 = y1
    y2 = y2
    z1 = z1
    None = None
    CAs = {1, 2, 3, 4}
    Keys = {1, 2, 3, 4}
    Submitted = {1, 2}
    Requests <- TwoX
    Importers <- TwoY
    Operations <- CAOperations
    MaxEra = 3
    Absent = Absent
    Clients <- TwoX
    Creds = {1, 2, 3}
    Usernames <- TwoY
    Subjects = {1, 2}
    PublicKeys = {1, 2}
    Issues = {1, 2, 3}
    Topics <- EstTopics
    Foreign = Foreign
    ScepEndpoints <- TwoX
    Serials <- TwoY
    Sweepers <- TwoX
    Watched <- OneZ
    Administrators <- TwoY
    MaxTold = 2
    Aspects <- PolicyAspects
    Usages <- FourUsages
    Texts <- TwoTexts
    Named <- FourNamed
    SubjectNames <- FourSubjects
    MaxNow = 14
    Spans = {0, 1, 2}
    Parts <- AllParts
SYMMETRY Interchangeable
INVARIANTS
    KeysFollowCAs
    ImportIsWhole
    AnswersAreTrue
    AlertsReachOnce
PROPERTIES
    DecisionsHold
    IdentityIsKept
    CertificateIsPermitted
CHECK_DEADLOCK FALSE
