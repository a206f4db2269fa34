SPECIFICATION Spec
CONSTANTS
    Null = Null
    Cur = Cur
    Funs = {f1, f2}
    MAX_TRACES = 2
    MIN_VECSZ = 2
    MAX_SIDE = 1
    TRYSIDE = 1
    PENALTY_SLOTS = 1
    PENALTY_MIN = 1
    PENALTY_MAX = 2
    EXITS = 1
CHECK_DEADLOCK FALSE
PROPERTY
    FailuresEnd
