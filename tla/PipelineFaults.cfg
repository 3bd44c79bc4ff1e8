SPECIFICATION Spec
CONSTANTS
    Videos = {v1}
    NoVideo = NoVideo
    Workers = {w1, w2}
    Deleters = {d1}
    HlsFileCount = 3
    Faults <- FaultKinds
    MaxCrashes = 1
SYMMETRY Interchangeable
INVARIANTS TypeOK ReadyIsPlayable ManifestIsLast SettledPushIsStored
PROPERTIES ImplementsLifecycle NoResurrection ProcessingPushIsFirst
CHECK_DEADLOCK FALSE
