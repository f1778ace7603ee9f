SPECIFICATION Spec
CONSTANTS
    None = None
    Calls = {c1, c2}
    Uploaders = {c1, c2}
    TaskIds = {t1}
    RawKeys = {k1}
    Contents = {v1}
    TooLarge = {}
    Untimed = {}
    MaxRetry = 0
    NoVideo = {}
    Low = {v1}
    Height <- Heights
    Segments <- Lengths
    MaxSegments = 2
    Faults = {}
    ReaperRuns = FALSE
PROPERTIES ProcessingNeverReplaced
CHECK_DEADLOCK FALSE
