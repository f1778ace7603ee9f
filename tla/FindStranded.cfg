SPECIFICATION FairSpec
CONSTANTS
    None = None
    Calls = {c1}
    Uploaders = {c1}
    TaskIds = {t1}
    RawKeys = {k1}
    Contents = {v1}
    TooLarge = {}
    Untimed = {}
    MaxRetry = 3
    NoVideo = {}
    Low = {v1}
    Height <- Heights
    Segments <- Lengths
    MaxSegments = 2
    Faults = {"abort"}
    ReaperRuns = FALSE
PROPERTIES ProcessingEnds
CHECK_DEADLOCK FALSE
