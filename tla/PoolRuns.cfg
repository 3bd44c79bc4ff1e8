SPECIFICATION FairSpec
CONSTANTS
    Messages = {m1, m2}
    Workers = {w1, w2}
    NoWorker = NoWorker
    QueueCap = 1
    IdleCap = 2
    BatchSize = 2
    MaxDeliveries = 3
INVARIANTS TypeOK HandOffReady RegisterNeverBlocks JobsAccounted DeletedWasHandled
PROPERTIES EveryJobHandled WorkersStop ImplementsService
CHECK_DEADLOCK FALSE
