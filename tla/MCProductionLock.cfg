\* Three runs competing with one detector, crashes and failed writes included.
CONSTANTS
    Runners = {r1, r2, r3}
    Detectors = {d1}
    Nobody = Nobody
    Unreadable = Unreadable
SPECIFICATION FairSpec
INVARIANTS
    TypeOK
    MutualExclusion
    HolderIsActive
    OwnerFileNamesRun
PROPERTIES
    LockIsGivenUp
    ImplementsMutex
CHECK_DEADLOCK FALSE
