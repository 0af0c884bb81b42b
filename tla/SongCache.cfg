CONSTANTS
    Readers = {r1, r2}
    Warming = {r2}
    Keys = {k1, k2}
    NoKey = NoKey
    MaxSpan = 2
    block_limit = 1
    hot_limit = 1
    PARALLEL = 1
    Objects = {1, 2}
SPECIFICATION FairSpec
INVARIANTS FileIsThere DiskIsBounded NothingIsLeft
PROPERTIES OthersPin KeepsBlocks EveryReadEnds
CHECK_DEADLOCK FALSE
