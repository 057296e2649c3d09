\* Two clients of the admin channel, both platforms; one more push may begin while
\* stop() waits for the callback's lock.
CONSTANTS
    c1 = c1
    c2 = c2
    Clients = {c1, c2}
    MaxLatePushes = 1
SPECIFICATION Spec
INVARIANT
    NothingRunsLate
PROPERTIES
    ShutdownEnds
    CommandsAreAnswered
CHECK_DEADLOCK FALSE
