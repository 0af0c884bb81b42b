CONSTANTS
    LastSong = 2
    Directions = {"next"}
    MaxMoves = 1
    MaxEdits = 0
    MIN_CURRENT = 0
    END_MARGIN_SECS = 0
    HARDWARE = TRUE
    LENGTH <- LongerFirst
    PROBED = 1
    Pollers = {p1, p2}
    Driving = {p1}
    Prefilled = {1}
    MaxRecasts = 0
    PlayMayFail = FALSE
    RecastMayTimeOut = FALSE
    AllowSeek = FALSE
SPECIFICATION Spec
INVARIANT OneMovePerTrigger
PROPERTIES AutoNextIsEarned ShownIsOfSong KeepsPromise
CHECK_DEADLOCK FALSE
