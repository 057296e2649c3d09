\* Two producers and two consumers on two cells, twice round the ring.
CONSTANTS
    Producers = {p1, p2}
    Consumers = {c1, c2}
    Items = {u, v}
    Capacity <- MCCapacity
    MaxPos = 4
SPECIFICATION QueueSpec
INVARIANTS
    NoCellRace
PROPERTIES
    FailuresAreJustified
    ImplementsFifo
SYMMETRY QueueSymmetry
