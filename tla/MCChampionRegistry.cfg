\* Two requests of either kind, two appliers, two registry commands.
CONSTANTS
    m1 = m1
    m2 = m2
    m3 = m3
    Models = {m1, m2, m3}
    Requests = {r1, r2}
    Appliers = {a1, a2}
    Writers = {w1}
    MaxWrites = 2
    InitialStatus <- FirstRegistry
    Nobody = Nobody
    NoRequest = NoRequest
SPECIFICATION Spec
SYMMETRY RegistrySymmetry
INVARIANTS
    TypeOK
    OneChampion
    UncommittedIsRecoverable
    CommittedIsComplete
    CommitsFormAChain
PROPERTIES
    CommitIsInForce
    NoModelIsLost
CHECK_DEADLOCK FALSE
