\* Timers and manual runs with one retry each, over the hard stages only.
CONSTANTS
    Invocations = {i1, i2}
    Triggers = {"automatic", "explicit"}
    MaxAttempts = 2
    DailyStages <- NoStages
    ReportStages <- MCReport
    SoftStages <- NoStages
    StageNames <- MCStageNames
    NoStage = NoStage
    LoopKeys = {}
    LoopIds = {}
    Unbound = Unbound
    Nobody = Nobody
    NoRun = NoRun
SPECIFICATION Spec
SYMMETRY InvocationSymmetry
INVARIANTS
    RunningIsAccountedFor
    PendingIsUnpublished
CHECK_DEADLOCK FALSE
