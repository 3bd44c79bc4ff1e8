SPECIFICATION Spec
CONSTANTS
    Patchers = {}
    Encoders = {e1}
    Removers = {}
    Readers = {g1}
    NoDoc = NoDoc
    NoPatch = NoPatch
    NoEntry = NoEntry
    Nothing = Nothing
    Faults = {}
PROPERTIES PlayerMounts
CHECK_DEADLOCK FALSE
