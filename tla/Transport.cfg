SPECIFICATION Spec
CONSTANTS
    c1 = c1
    c2 = c2
    c3 = c3
    p1 = p1
    p2 = p2
    Processes = {p1, p2}
    Callers = {c1, c2, c3}
    Home <- MCHome
    Workloads <- MCWorkloads
    Policy <- MCPolicy
    MaxCalls <- MCMaxCalls
    Paces = {"turns", "races"}
    None = None
SYMMETRY ThreadSymmetry
INVARIANTS PolicyHeld ModeIsLastSet AuditIsTrue ReturnedIsAudited TurnsHealthOfMode
CHECK_DEADLOCK FALSE
