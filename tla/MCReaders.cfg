SPECIFICATION ReadersSpec
CONSTANTS
    Images <- ImageSet
    Paths <- PathSet
    EXT2_NDIR_BLOCKS = 3
    ADDR_PER_BLOCK = 2
INVARIANTS LookupExact CopyExact UnderstoodAsSent WordsAsTyped
CHECK_DEADLOCK FALSE
