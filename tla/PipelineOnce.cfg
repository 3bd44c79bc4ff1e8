SPECIFICATION Spec
CONSTANTS
    Videos = {v1}
    NoVideo = NoVideo
    Workers = {w1, w2}
    Deleters = {d1, d2}
    HlsFileCount = 3
    Faults <- OneDelivery
    MaxCrashes = 0
SYMMETRY Interchangeable
INVARIANTS DeleteOfReadyIsClean
PROPERTIES ReadyIsTerminal
CHECK_DEADLOCK FALSE
