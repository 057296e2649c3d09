\* Two publishers, three events for a queue of two, one subscription that refuses the
\* second event, a stop and a restart.
CONSTANTS
    Producers = {p1, p2}
    Consumers = {d}
    e1 = e1
    e2 = e2
    e3 = e3
    Items = {e1, e2, e3}
    Capacity = 2
    Severity <- MCSeverity
    Category <- MCCategory
    Filters <- MCFilters
    Agenda <- MCAgenda
    MaxSubs = 1
    MaxStarts = 2
SPECIFICATION Spec
INVARIANTS
    DeliveredInOrder
    AtMostOneLateCall
    StopDrainsWhenCalm
PROPERTIES
    EventuallyDelivered
    StopReturns
CHECK_DEADLOCK FALSE
