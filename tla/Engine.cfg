CONSTANTS
    Starts = {s1, s2}
    Resets = {r1}
    Callers = {c1}
    NoEngine = NoEngine
SPECIFICATION FairSpec
INVARIANTS ServerIsUp OwnersKeepRuntime
PROPERTIES CallsReturn OldEnginesEnd
CHECK_DEADLOCK FALSE
