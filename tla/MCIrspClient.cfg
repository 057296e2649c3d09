\* Either client, four calls on one connection: HELLO and three more, one of which may be BYE.
CONSTANT MaxCalls = 4
SPECIFICATION Spec
INVARIANTS
    RepliesGoToTheirRequest
    ByeLosesNothing
PROPERTY
    EveryCallEnds
CHECK_DEADLOCK FALSE
