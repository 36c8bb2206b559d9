SPECIFICATION Spec
CONSTANTS
    Threads = {t1}
    Serial = TRUE
    Uris = {i1}
    Credentials = {c1}
    Links = {l1}
    MaxTick = 7
    None = None
INVARIANTS LogReduces LiveMatchesLog
PROPERTIES ImplementsLifecycle
CHECK_DEADLOCK FALSE
