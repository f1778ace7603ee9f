SPECIFICATION FairSpec
CONSTANTS
    None = None
    Calls = {c1}
    Uploaders = {c1}
    TaskIds = {t1, t2}
    RawKeys = {k1}
    Contents = {v1, big}
    TooLarge = {big}
    Untimed = {}
    MaxRetry = 1
    NoVideo = {big}
    Low = {v1}
    Height <- Heights
    Segments <- Lengths
    MaxSegments = 1
    Faults = {"error", "abort", "shutdown", "dup", "lost", "latePut"}
    ReaperRuns = TRUE
PROPERTIES StrictLifecycleSpec ReadsAlwaysHold InProcessingSettles
CHECK_DEADLOCK FALSE
