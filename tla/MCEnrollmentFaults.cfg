SPECIFICATION Spec
CONSTANTS
    admin = admin  other = other
    n1 = n1  n2 = n2
    k1 = k1  k2 = k2
    t1 = t1  t2 = t2
    Listener = Listener
    NoName = NoName  NoKey = NoKey  NoToken = NoToken
    Admins <- MCTwoAdmins
    Names <- MCNames
    Keys <- MCKeys
    Tokens <- MCTokens
    PoolSize = 2
    MaxCommands = 2
    MaxFaults = 1
SYMMETRY MCSymmetryTwo
INVARIANTS
    InStep
    TokensHaveSlots
    PendingCanEnroll
    GoneIsOff
CHECK_DEADLOCK FALSE
