SPECIFICATION Spec
CONSTANTS
    None = None
    Calls = {c1}
    Uploaders = {c1}
    TaskIds = {t1, t2}
    RawKeys = {k1}
    Contents = {v1, v2}
    TooLarge = {}
    Untimed = {v1, v2}
    MaxRetry = 1
    NoVideo = {}
    Low = {v1}
    Height <- Heights
    Segments <- Lengths
    MaxSegments = 2
    Faults = {"error"}
    ReaperRuns = FALSE
SYMMETRY Symmetry
INVARIANTS PlaylistsAreBacked
CHECK_DEADLOCK FALSE
