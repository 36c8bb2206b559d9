SPECIFICATION FairSceneSpec
CONSTANTS
    Uris = {u1, u2}
    AllowCycle = {FALSE}
    MaxLinks = 1
    Subs <- MCSubs
    Modes = {"block", "drop_oldest", "drop_newest"}
    QueueSize = 1
    MaxEvents = 2
    MaxClosed = 0
    Scopes <- MCScopes
    MaxConns = 2
    None = None
INVARIANTS OnlyTheGapIsMissed NoRepeat
PROPERTIES SceneCatchesUp
CHECK_DEADLOCK FALSE
