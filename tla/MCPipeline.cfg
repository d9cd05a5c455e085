\* Two invocations of any kind for one date, every sort of stage, no retries.
CONSTANTS
    Invocations = {i1, i2}
    Triggers = {"automatic", "explicit", "dry", "full"}
    MaxAttempts = 1
    DailyStages <- MCDaily
    ReportStages <- MCReport
    SoftStages <- MCSoft
    StageNames <- MCStageNames
    NoStage = NoStage
    LoopKeys = {}
    LoopIds = {}
    Unbound = Unbound
    Nobody = Nobody
    NoRun = NoRun
SPECIFICATION FairSpec
INVARIANTS
    TypeOK
    InsideHoldsLock
    SkipIsJustified
    ReportedSuccessIsReal
PROPERTIES
    TerminalRunsFrozen
    SuccessOverOwnFiles
    InvocationsFinish
CHECK_DEADLOCK FALSE
