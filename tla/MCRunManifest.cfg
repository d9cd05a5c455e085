\* Three stages and two closed-loop identities, every order of API calls.
CONSTANTS
    StageNames = {s1, s2, s3}
    NoStage = NoStage
    LoopKeys = {monitor_run_id}
    LoopIds = {id1, id2}
    Unbound = Unbound
    NoRun = NoRun
SPECIFICATION Spec
INVARIANTS
    TypeOK
    SuccessIsComplete
    OneStageInProgress
PROPERTIES
    TerminalRunIsFrozen
    ProgressOnly
