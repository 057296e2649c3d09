\* Two tasks with intervals of zero to two ticks, a stop and a restart.
CONSTANTS
    Intervals = {0, 1, 2}
    MaxTasks = 2
    MaxStarts = 2
SPECIFICATION Spec
INVARIANTS
    NeverOversleeps
    AtMostOneLateRun
PROPERTIES
    RunsForever
    StopReturns
CHECK_DEADLOCK FALSE
