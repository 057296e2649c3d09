\* Two writing threads; two incarnations of one library.  Plugins
\* register writers at any time, from createPlugin on.
CONSTANTS
    Threads = {t1, t2}
    Ctxs <- MCCtxs
    Prefixes <- MCPrefixes
    Names <- MCNames
    MaxOwner = 2
    Paths = {a}
    Ids = {x}
    IdOf <- MCSameId
    CreateRegisters = TRUE
    LateRegister = TRUE
SPECIFICATION Spec
INVARIANTS
    InflightExact
    NoOwnedCallIntoClosedLibrary
    NoCallOnUnloadedPlugin
    OwnersAccounted
    NoResidue
PROPERTIES
    DiscoveryLoadsOnce
    OperationsEnd
    ImplementsHotUnload
CHECK_DEADLOCK FALSE
