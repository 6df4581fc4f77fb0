\* Three receivers of one browser, one after the other or at once.
CONSTANTS
    None = None
    MostReceivers = 3
    AtOnce = 2
    TotalChunks = 2
SPECIFICATION FairSpec
INVARIANTS TypeOK ListedCanBeAssembled
PROPERTIES ResumesFromTheDatabase Finishes
CHECK_DEADLOCK FALSE
