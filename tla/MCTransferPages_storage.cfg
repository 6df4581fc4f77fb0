\* Every key, and any two of the faults and user actions.
CONSTANTS
    TotalChunks = 3
    RequestCap = 1
    Keys = {"right", "wrong", "absent"}
    Budget <- AllButPause
    MostFaults = 2
SPECIFICATION PagesSpec
INVARIANTS ToldTheTruth NoFalseAlarm NeverForgotten
PROPERTIES Completes VerdictStays
CHECK_DEADLOCK FALSE
