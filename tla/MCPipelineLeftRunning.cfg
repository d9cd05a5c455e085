\* An error of a manifest write after the work of a soft stage; the process is not killed.
CONSTANTS
    Invocations = {i1, i2}
    Triggers = {"automatic", "explicit"}
    MaxAttempts = 1
    DailyStages <- MCDaily
    ReportStages <- MCReport
    SoftStages <- MCSoft
    StageNames <- MCStageNames
    NoStage = NoStage
    LoopKeys = {}
    LoopIds = {}
    Unbound = Unbound
    Nobody = Nobody
    NoRun = NoRun
SPECIFICATION Spec
INVARIANTS
    OnlyKilledRunsStayRunning
CHECK_DEADLOCK FALSE
