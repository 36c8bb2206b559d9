SPECIFICATION Spec
CONSTANTS
    Servers = {s1, s2}
    Chats = {c1, c2}
    Messages = {m1, m2}
    Summary = summary
    SummaryEvery = 2
    AuditEvery = 2
    Modes = {"turns", "races", "fails"}
    MaxOps <- MCMaxOps
    None = None
SYMMETRY SandboxSymmetry
INVARIANTS TurnsReplaySameState TurnsLogReplays TurnsKeepMessages AckedStaysInLog
CHECK_DEADLOCK FALSE
