\* Fair threads, a lock that prefers writers.
CONSTANTS
    p1 = p1 p2 = p2 service = service temp = temp
    Pushers = {p1}
    Service = service
    Tags = {temp}
    Conns = {1}
    MaxVersion = 2
    MaxRequests = 2
    MaxEvents = 0
    MaxStarts = 1
    WriterPreferring = TRUE
SPECIFICATION FairSpec
PROPERTY
    StopReturns
CHECK_DEADLOCK FALSE
