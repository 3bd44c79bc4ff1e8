SPECIFICATION FairSpec
CONSTANTS
    Messages = {m1}
    Workers = {w1}
    NoWorker = NoWorker
    QueueCap = 1
    IdleCap = 1
    BatchSize = 1
    MaxDeliveries = 1
PROPERTIES ShutdownCompletes
CHECK_DEADLOCK FALSE
