CONSTANTS
    Length = 16
    max_history_length = 7
    DateLength = 3
SPECIFICATION Spec
INVARIANT StepsBackWithinRing
CHECK_DEADLOCK FALSE
