\* A pusher, a client with three requests, among them SETs that push too, an event, a stop
\* and a restart; fair threads, a lock that prefers readers.
CONSTANTS
    p1 = p1 p2 = p2 service = service temp = temp
    Pushers = {p1}
    Service = service
    Tags = {temp}
    Conns = {1}
    MaxVersion = 2
    MaxRequests = 3
    MaxEvents = 1
    MaxStarts = 2
    WriterPreferring = FALSE
SPECIFICATION FairSpec
INVARIANTS
    PushesNeverGoBack
    RepliesInOrder
    RepliesBeforeClose
    NoForgottenFrame
    NoTagCallbackLate
PROPERTIES
    SubscriberConverges
    StopReturns
CHECK_DEADLOCK FALSE
