SPECIFICATION Spec
CONSTANTS
    Threads = {t1, t2}
    Serial = FALSE
    Uris = {u1}
    PolicyUri = policy
    Keys = {k1}
    Vals = {v1, v2}
    Actors = {a1}
    AllowedLists <- MCAllowed
    Ranks = {0}
    StoreMayFail = TRUE
    MaxTick = 1
    MaxVersion = 2
    MaxBoots = 1
    MaxRollbacks = 1
    None = None
INVARIANTS NoPhantomState ReplaySurvivesRestart DoneIsDurable 
CHECK_DEADLOCK FALSE
