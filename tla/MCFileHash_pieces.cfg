\* Blocks of six cells, the last two of which hold the length.
CONSTANTS
    BlockSize = 6
    WordValues = 32
    FileSizes <- SomeSizes
    ChunkSizes <- SomeChunks
    MinWindow = 4
SPECIFICATION Spec
INVARIANTS NothingLost HashOfTheFile
CHECK_DEADLOCK FALSE
