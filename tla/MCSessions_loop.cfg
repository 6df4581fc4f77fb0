\* A guest, and a signaling connection that drops.
CONSTANTS
    g1 = g1
    g2 = g2
    Host = Host
    None = None
    Guests <- TwoGuests
    MostJoins = 1
    Scenarios <- DropScenario
SPECIFICATION FairSpec
PROPERTY OutOfTheLoop
CHECK_DEADLOCK FALSE
