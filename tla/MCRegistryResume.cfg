\* One promotion and the failures between its journal and its version.
CONSTANTS
    m1 = m1
    m2 = m2
    m3 = m3
    Models = {m1, m2, m3}
    Requests = {r1, r2}
    Appliers = {a1}
    Writers = {}
    MaxWrites = 0
    InitialStatus <- FirstRegistry
    Nobody = Nobody
    NoRequest = NoRequest
SPECIFICATION Spec
INVARIANT InterruptedApplyResumes
CHECK_DEADLOCK FALSE
