\* Two drops that either end, or both, may notice, in whatever order they come.
CONSTANTS
    MaxAttempts = 1
    Drops = 2
    Noticing <- AnyEnds
    Flaps = TRUE
    StaleTimers = 1
SPECIFICATION FairSpec
INVARIANTS CandidatesKept EveryOfferAnswered OneRestartAgrees
PROPERTY Recovers
CHECK_DEADLOCK FALSE
