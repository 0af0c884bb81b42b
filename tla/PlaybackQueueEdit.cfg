CONSTANTS
    LastSong = 2
    Directions = {"next"}
    MaxMoves = 0
    MaxEdits = 1
    MIN_CURRENT = 0
    END_MARGIN_SECS = 0
    HARDWARE = TRUE
    LENGTH <- LongerFirst
    PROBED = 1
    Pollers = {p1}
    Driving = {p1}
    Prefilled = {1, 2}
    MaxRecasts = 0
    PlayMayFail = FALSE
    RecastMayTimeOut = FALSE
    AllowSeek = FALSE
SPECIFICATION FairSpec
PROPERTIES ListIsSung
CHECK_DEADLOCK FALSE
