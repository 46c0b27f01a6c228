SPECIFICATION SchedSpec
CONSTANTS
    Tasks = {idle, ta, tb}
    Idle = idle
    NoTask = NoTask
    Priorities = {0}
    CFS_MIN_GRANULARITY = 1
    CFS_LATENCY = 2
    LoadWords = 65536
    MaxClock = 3
    MaxCalls = 3
INVARIANTS
    NoTaskStarves
CHECK_DEADLOCK FALSE
