CONSTANTS
    Starts = {s1, s2}
    Resets = {}
    Callers = {c1}
    NoEngine = NoEngine
SPECIFICATION Spec
INVARIANT NeverPoisoned
CHECK_DEADLOCK FALSE
