\* One drop that both ends notice.
CONSTANTS
    MaxAttempts = 2
    Drops = 1
    Noticing <- BothEnds
    Flaps = FALSE
    StaleTimers = 0
SPECIFICATION Spec
INVARIANT QuietMeansAgreed
CHECK_DEADLOCK FALSE
