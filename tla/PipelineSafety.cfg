SPECIFICATION Spec
CONSTANTS
    None = None
    Calls = {c1, c2}
    Uploaders = {c1, c2}
    TaskIds = {t1, t2}
    RawKeys = {k1}
    Contents = {v1}
    TooLarge = {}
    Untimed = {}
    MaxRetry = 1
    NoVideo = {}
    Low = {v1}
    Height <- Heights
    Segments <- Lengths
    MaxSegments = 1
    Faults = {"error", "abort", "shutdown", "dup", "lost", "latePut"}
    ReaperRuns = TRUE
SYMMETRY Symmetry
INVARIANTS TypeOK NothingMissing LessonMirrorsVideo
PROPERTIES JobsAdvance OnlyDeathStrands WorkerOnlyMovesInProcessing LifecycleSpec
CHECK_DEADLOCK FALSE
