SPECIFICATION ServerSpec
CONSTANTS
    Callers = {c1, c2}
    MaxCommands = 3
    MaxFaults = 1
    MaxBreaks = 2
    Absent = Absent
    Cut = Cut
    Ports = {443, 8443}
    WgPorts = {wg1, wg2}
    CaddyPort = 443
    MaxOps = 3
    MaxBreakdowns = 1
    Requests = {q1, q2}
    Addresses = {ip}
    MaxFailures = 2
    Window = 2
    Lockout = 2
    Ttl = 2
    MaxTime = 5
    MaxLogins = 1
INVARIANTS
    PortChangeServes
SYMMETRY MCSymmetry
CHECK_DEADLOCK FALSE
