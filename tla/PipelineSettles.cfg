SPECIFICATION FairSpec
CONSTANTS
    Videos = {v1}
    NoVideo = NoVideo
    Workers = {w1, w2}
    Deleters = {d1}
    HlsFileCount = 2
    Faults <- EncodeFaults
    MaxCrashes = 1
INVARIANTS JobUntilSettled
PROPERTIES Settles
CHECK_DEADLOCK FALSE
