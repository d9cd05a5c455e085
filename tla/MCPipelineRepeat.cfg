\* Two automatic triggers for one date.
CONSTANTS
    Invocations = {i1, i2}
    Triggers = {"automatic"}
    MaxAttempts = 1
    DailyStages <- MCDaily
    ReportStages <- MCReport
    SoftStages <- MCSoft
    StageNames <- MCStageNames
    NoStage = NoStage
    LoopKeys = {}
    LoopIds = {}
    Unbound = Unbound
    Nobody = Nobody
    NoRun = NoRun
SPECIFICATION FairSpec
PROPERTIES
    NoRepeatedPublication
CHECK_DEADLOCK FALSE
