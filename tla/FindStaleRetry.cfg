SPECIFICATION Spec
CONSTANTS
    None = None
    Calls = {c1}
    Uploaders = {c1}
    TaskIds = {t1, t2}
    RawKeys = {k1}
    Contents = {v1, v2}
    TooLarge = {}
    Untimed = {}
    MaxRetry = 1
    NoVideo = {}
    Low = {v1}
    Height <- Heights
    Segments <- Lengths
    MaxSegments = 2
    Faults = {"error"}
    ReaperRuns = FALSE
INVARIANTS ReadyServesCurrentUpload
CHECK_DEADLOCK FALSE
