CONSTANTS
    s1 = s1
    s2 = s2
    Seekers = {s1, s2}
    Getters = {h1}
    Preparers <- AllPreparers
    MaxPlays = 2
    MaxSwitches = 1
    MaxSeeks = 2
    MaxToggles = 1
    MaxStreams = 2
    MaxGeneration = 3
    Kinds = {"direct", "seekable"}
    PrepareMayFail = TRUE
    CommandMayFail = TRUE
    PlayMayBeDropped = TRUE
SYMMETRY Seeks
CONSTRAINT SeeksOrSwitches
SPECIFICATION Spec
INVARIANTS NoOldCache SeekIsOnItsSong FreshStreamsSurvive
PROPERTY OkIsPlaying
CHECK_DEADLOCK FALSE
