CONSTANTS
    ui = ui
    callback = callback
    Callers = {ui, callback}
    Duties <- TwoThreads
    Kinds = {"dlna", "bilibili"}
    Candidates = 1
    MaxSecs = 2
    MaxCommands <- TwoEach
SPECIFICATION Spec
INVARIANTS ClockIsHonest ToggleIsTrue SettingIsTrue VolumeIsRaisedOnce
CHECK_DEADLOCK FALSE
