SPECIFICATION Spec
CONSTANTS
    Threads = {t1, t2}
    Serial = TRUE
    Uris = {u1}
    PolicyUri = policy
    Keys = {k1, k2}
    Vals = {v1, v2}
    Actors = {a1, a2}
    AllowedLists <- MCAllowed
    Ranks = {0, 1}
    StoreMayFail = TRUE
    MaxTick = 3
    MaxVersion = 3
    MaxBoots = 0
    MaxRollbacks = 0
    None = None
INVARIANTS ReplayMatchesLive PolicyPinned PolicyMonotonic
CHECK_DEADLOCK FALSE
