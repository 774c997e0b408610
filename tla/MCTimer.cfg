SPECIFICATION Spec
CONSTANTS
    Base = 6
    Periods = {2, 9}
    Reenables = FALSE
    MaxTime = 24
INVARIANTS ReadIsTime TicksNotEarly DueIsPending
CHECK_DEADLOCK FALSE
