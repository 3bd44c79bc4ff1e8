SPECIFICATION Spec
CONSTANTS
    Creator = cr
    Patchers = {p1}
    Encoders = {e1}
    Removers = {r1}
    NoWriter = NoWriter
    Consumers = {c1}
    Backfills = {b1}
    MsTicks = 2
    Skew = 1
    MaxReceives = 2
    Faults <- FaultKinds
CONSTRAINT Bounds
INVARIANTS TypeOK FreshUnlessOutstamped DeletedLeavesIndex
PROPERTIES IndexOnlyAdvances
CHECK_DEADLOCK FALSE
