CONSTANTS
    LastSong = 2
    Directions = {"next"}
    MaxMoves = 1
    MaxEdits = 1
    MIN_CURRENT = 0
    END_MARGIN_SECS = 0
    HARDWARE = FALSE
    LENGTH <- OneTickEach
    PROBED = 1
    Pollers = {p1}
    Driving = {p1}
    Prefilled = {1, 2}
    MaxRecasts = 1
    PlayMayFail = TRUE
    RecastMayTimeOut = TRUE
    AllowSeek = TRUE
SPECIFICATION Spec
INVARIANTS PlaybackInv TrustedSongIsOnDevice OneLiveRetry
CHECK_DEADLOCK FALSE
