SPECIFICATION StreamSpec
CONSTANTS
    Uris = {u1}
    AllowCycle = {FALSE}
    MaxLinks = 0
    Subs = {s1, s2}
    Modes = {"block", "drop_oldest", "drop_newest"}
    QueueSize = 1
    MaxEvents = 3
    MaxClosed = 1
    None = None
SYMMETRY StreamSymmetry
INVARIANTS NothingLost DroppingKeepsOrder LatestIsKept
CHECK_DEADLOCK FALSE
