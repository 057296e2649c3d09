\* An event while the server stops.
CONSTANTS
    p1 = p1 p2 = p2 service = service temp = temp
    Pushers = {p1}
    Service = service
    Tags = {temp}
    Conns = {1}
    MaxVersion = 2
    MaxRequests = 2
    MaxEvents = 1
    MaxStarts = 1
    WriterPreferring = FALSE
SPECIFICATION Spec
INVARIANT
    NoEventCallbackLate
CHECK_DEADLOCK FALSE
