\* Two guests: one retries beside the other, or twice alone.
CONSTANTS
    g1 = g1
    g2 = g2
    Host = Host
    None = None
    Guests <- TwoGuests
    MostJoins = 3
    Scenarios <- TwoScenarios
SPECIFICATION FairSpec
INVARIANTS TypeOK SlotsFollowTheRoom AnswersMatch DisposedLeavesNothing PageShowsTheSlots
PROPERTIES ServedOrTold
CHECK_DEADLOCK FALSE
