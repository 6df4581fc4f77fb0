\* Two messages in three ticks, over three windows.
CONSTANTS
    k1 = k1
    Keys <- OneSocket
    Max = 2
    WindowMs = 3
    Horizon = 9
SPECIFICATION Spec
INVARIANTS TypeOK BurstsBounded RefusedForAReason
CHECK_DEADLOCK FALSE
