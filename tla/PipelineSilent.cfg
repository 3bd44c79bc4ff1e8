SPECIFICATION FairSpec
CONSTANTS
    Videos = {v1}
    NoVideo = NoVideo
    Workers = {w1}
    Deleters = {}
    HlsFileCount = 2
    Faults = {"mark_ready"}
    MaxCrashes = 0
PROPERTIES Settles
CHECK_DEADLOCK FALSE
