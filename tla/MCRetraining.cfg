CONSTANTS
    r1 = r1
    q1 = q1
    other = other
    m1 = m1
    m2 = m2
    Callers = {"operator", "lifecycle", "qualification"}
    Owners = {r1, q1, other}
    Identities = {r1, q1}
    Requests = {r1}
    Quals = {q1}
    Policies = {"p1", "p2"}
    FrozenPolicy = "p1"
    NoIdentity = NoIdentity
    NoOne = NoOne
    NoSnapshot = NoSnapshot
    NoPolicy = NoPolicy
    MaxFaults = 1
    Required = 1
    Limit = 1
    Cooldown = 1
    MaxDay = 1
    MaxAttempts = 2
    MaxAuths = 2
    Parent <- MCParent
    Histories <- MCHistories
    QualRequest <- MCQualRequest
SPECIFICATION Spec
INVARIANTS
    TypeOK
    JournalIsTruthful
    AttemptsAreRecorded
    EachSideKeepsBudget
    EvidenceIsBacked
    AuthorizationUsedOnce
PROPERTIES
    PublishedIsFinal
    HistoryIsDurable
CONSTRAINT Focus
CHECK_DEADLOCK FALSE
