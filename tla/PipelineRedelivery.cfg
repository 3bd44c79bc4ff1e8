SPECIFICATION Spec
CONSTANTS
    Videos = {v1}
    NoVideo = NoVideo
    Workers = {w1, w2}
    Deleters = {}
    HlsFileCount = 2
    Faults = {"slow_encode", "encode"}
    MaxCrashes = 0
PROPERTIES ReadyIsTerminal
CHECK_DEADLOCK FALSE
