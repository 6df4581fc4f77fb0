\* Faults and user actions in every order.
CONSTANTS
    TotalChunks = 2
    RequestCap = 1
    Keys = {"right", "wrong", "absent"}
    Budget <- Everything
SPECIFICATION Spec
INVARIANTS TypeOK PairingUnambiguous ResumeIsSound OneVerdict
PROPERTIES CancelStopsLoops DeliverySpec
CHECK_DEADLOCK FALSE
