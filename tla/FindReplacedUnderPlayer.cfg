SPECIFICATION PublishedSpec
CONSTANTS
    None = None
    Calls = {c1}
    Uploaders = {c1}
    TaskIds = {t1}
    RawKeys = {k1}
    Contents = {v1, v2}
    TooLarge = {}
    Untimed = {v1, v2}
    NoVideo = {}
    Low = {v2}
    Height <- Heights
    Segments <- Lengths
    MaxSegments = 2
    MaxRetry = 0
    Faults = {}
    ReaperRuns = FALSE
    Players = {p1}
    TokenLife = 1
    MaxServe = 1
    MaxClock = 1000
VIEW ClockShift
INVARIANTS StreamIsOfOneUpload
CHECK_DEADLOCK FALSE
