SPECIFICATION Spec
CONSTANTS
    Creator = cr
    Patchers = {p1, p2}
    Encoders = {}
    Removers = {}
    NoWriter = NoWriter
    Consumers = {c1}
    Backfills = {}
    MsTicks = 1
    Skew = 0
    MaxReceives = 5
    Faults = {}
INVARIANTS IndexFollowsStore
CHECK_DEADLOCK FALSE
