SPECIFICATION SwitchSpec
CONSTANTS
    c1 = c1  c2 = c2
    p1 = p1  p2 = p2
    NoProc = NoProc
    Run = Run
    Callers <- MCCallers
    Procs <- MCProcs
    MaxAttempts = 2
    MaxRungs = 1
    MaxCommands = 2
    MaxFaults = 1
    MaxUpsets = 1
INVARIANTS
    DropIsBlocked
CHECK_DEADLOCK FALSE
