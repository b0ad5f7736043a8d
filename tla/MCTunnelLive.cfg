SPECIFICATION FairSpec
CONSTANTS
    c1 = c1  c2 = c2
    p1 = p1  p2 = p2  p3 = p3
    NoProc = NoProc
    Run = Run
    Callers = {c1}
    Procs = {p1, p2}
    MaxAttempts = 2
    MaxRungs = 1
    MaxCommands = 3
    MaxFaults = 1
PROPERTIES
    CallsReturn
    ThreadObeysStop
    AttemptsEnd
CHECK_DEADLOCK FALSE
