CONSTANTS
    Inputs <- MCInputs
    BUFFERED = 2
    movie_scale = 4
    Starts = {0, 1, 2, 3}
    InitSize = 5
    Edges = {0, 19, 24, 40}
    Seconds = {0, 1, 2, 3}
    BLOCK_BYTES = 1
    WARMUP = 4
SPECIFICATION Spec
INVARIANTS AnswersAreExact HeaderTellsTheTruth PlaysWithoutJumps WarmsFromKeyframe OnlyBrokenFilesAreRefused MuxIsWhole LengthIsHonest DurationIsTrue
CHECK_DEADLOCK FALSE
