SPECIFICATION RunSpec
CONSTANTS
    CountSpace = 16
    Period = 4
    NCPU = 3
    Limits = {0, 1, 6, 8}
INVARIANT CountIsExact
PROPERTY RunsEnd
CHECK_DEADLOCK FALSE
