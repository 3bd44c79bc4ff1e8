SPECIFICATION Spec
CONSTANTS
    Patchers = {}
    Encoders = {e1}
    Removers = {}
    Readers = {g1, g2}
    NoDoc = NoDoc
    NoPatch = NoPatch
    NoEntry = NoEntry
    Nothing = Nothing
    Faults = {"store"}
INVARIANTS FeedTypeOK ReadyIsStored
PROPERTIES EndOfEncodeSticks PageSettles PlayerUnlessMissed
CHECK_DEADLOCK FALSE
