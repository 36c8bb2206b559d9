SPECIFICATION FairSpec
CONSTANTS
    Writers = {w1, w2}
    Events = {e1, e2, e3}
    ShortWrites = {"torn", "bare"}
    None = None
INVARIANTS ChainIntact
PROPERTIES TornIsFinal LockReleased
CHECK_DEADLOCK FALSE
