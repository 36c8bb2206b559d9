SPECIFICATION FairStreamSpec
CONSTANTS
    Uris = {u1, u2, u3}
    StreamUris = {u1, u2}
    AllowCycle = {FALSE, TRUE}
    MaxLinks = 2
    Subs = {s1}
    Modes = {"block", "drop_oldest", "drop_newest"}
    QueueSize = 1
    MaxEvents = 2
    MaxClosed = 1
    None = None
INVARIANTS NoDuplicates Acyclic
PROPERTIES PublishEnds
CONSTRAINT Bounded
CHECK_DEADLOCK FALSE
