SPECIFICATION HeldSpec
CONSTANTS
    None = None
    Calls = {c1, c2}
    Uploaders = {c1, c2}
    TaskIds = {t1, t2}
    RawKeys = {k1}
    Contents = {v1, v2}
    TooLarge = {}
    Untimed = {v2}
    NoVideo = {}
    Low = {v2}
    Height <- Heights
    Segments <- Lengths
    MaxSegments = 1
    MaxRetry = 1
    Faults = {"error", "shutdown", "dup", "latePut"}
    ReaperRuns = TRUE
SYMMETRY Symmetry
INVARIANTS ReadyServesCurrentUpload LadderFitsUpload
CHECK_DEADLOCK FALSE
