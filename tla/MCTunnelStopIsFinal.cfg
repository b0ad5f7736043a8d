SPECIFICATION Spec
CONSTANTS
    c1 = c1  c2 = c2
    p1 = p1  p2 = p2  p3 = p3
    NoProc = NoProc
    Run = Run
    Callers <- MCCallers
    Procs <- MCProcs
    MaxAttempts = 2
    MaxRungs = 2
    MaxCommands = 3
    MaxFaults = 1
SYMMETRY MCSymmetry
INVARIANT
    StopIsFinal
CHECK_DEADLOCK FALSE
