\* Two runs and one detector: its probe is enough to refuse a run.
CONSTANTS
    Runners = {r1, r2}
    Detectors = {d1}
    Nobody = Nobody
    Unreadable = Unreadable
SPECIFICATION Spec
INVARIANT RefusedOnlyByActiveRun
CHECK_DEADLOCK FALSE
