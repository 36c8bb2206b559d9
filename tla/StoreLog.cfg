SPECIFICATION Spec
CONSTANTS
    Writers = {w1, w2}
    Events = {e1, e2, e3}
    ShortWrites = {"torn"}
    None = None
PROPERTIES ImplementsSharedLog
CHECK_DEADLOCK FALSE
