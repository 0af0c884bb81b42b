CONSTANTS
    ui = ui
    callback = callback
    Callers = {ui, callback}
    Duties <- TwoThreads
    Kinds = {"dlna"}
    Candidates = 4
    MaxSecs = 0
    MaxCommands <- TwoEach
SPECIFICATION Spec
INVARIANTS BackInTime
CHECK_DEADLOCK FALSE
