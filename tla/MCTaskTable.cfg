SPECIFICATION TaskSpec
CONSTANTS
    Threads = {a, b, c, d}
    MAX_PROCESSES = 4
    MAX_USER_PROCESSES = 1
    Queues = {q1, q2}
    Waiters = {a, b}
    MaxEntries = 2
    NULL = NULL
    Idle = Idle
SYMMETRY TaskSymmetry
INVARIANTS
    PidsOwned
    AllocPidComplete
    TableHasRoom
    BlockedIsQueued
