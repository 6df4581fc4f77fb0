\* Three loops, each with up to three chunks.
CONSTANTS
    run = run  resend1 = resend1  resend2 = resend2
    Loops <- ThreeLoops
    Main = run
    MostChunks = 3
    ChunkSize = 2
    High = 4
    Low = 1
SPECIFICATION FairSpec
INVARIANTS BufferBounded NoLostDrain
PROPERTY LoopsEnd
CHECK_DEADLOCK FALSE
