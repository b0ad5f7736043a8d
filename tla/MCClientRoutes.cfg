SPECIFICATION ClientSpec
CONSTANTS
    Bad = Bad  TextNumber = TextNumber  None = None
    Documents <- MCDocuments
    Patches <- MCPatches
    Stored <- MCStored
    Callers = {c1, c2}
    OwnKeys <- MCOwnKeys
    Today = 10
    MaxCalls = 2
    MaxFaults = 1
    Profiles <- MCProfiles
    Networks <- MCNetworks
    MaxMoves = 2
    Width = 3
    Entries <- MCEntries
    MaxEntries = 3
    Updates = {u1, u2}
    Releases <- MCReleases
    Current <- MCCurrent
    MaxPublished = 1
    P = 13
    Q = 5
    D = 6
    GY = 8
    Hashes = {0, 3, 6}
    Bits = 4
    Closed = Closed
    Capacity = 2
    FileLines = 2
    MaxLines = 6
    Writers = {w1, w2}
    Readers = {r1}
    Contents = {a, b}
    Initial = a
    Torn = Torn
    Inodes = {i1, i2, i3}
    FirstInode = i1
    NoInode = NoInode
INVARIANTS
    EveryListHasRoutes
SYMMETRY MCSymmetry
CHECK_DEADLOCK FALSE
