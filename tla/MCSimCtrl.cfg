SPECIFICATION Spec
CONSTANTS
    Delay = 1
    Duration = 2
    Possible = TRUE
    Timeouts = {2, 5, 7}
    Failures = {0, 1, 3}
    Values = 8
    MaxArgs = 2
    MaxSignals = 2
    MaxTime = 16
INVARIANTS ExitCodeTrue CyclesExact TraceClosed
PROPERTIES TimeoutEnds
CHECK_DEADLOCK FALSE
