SPECIFICATION Spec
CONSTANTS
    Servers = {s1, s2}
    Chats = {c1}
    Messages = {m1, m2}
    Summary = summary
    SummaryEvery = 2
    AuditEvery = 2
    Modes = {"races"}
    MaxOps <- MCMaxOps
    None = None
SYMMETRY SandboxSymmetry
INVARIANTS SameState
CHECK_DEADLOCK FALSE
