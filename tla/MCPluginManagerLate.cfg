\* A plugin that registers a writer at run time, from a thread of its own.
CONSTANTS
    Threads = {t1}
    Ctxs <- MCCtxs
    Prefixes <- MCPrefixes
    Names <- MCNames
    MaxOwner = 2
    Paths = {a, b}
    Ids = {a, b}
    IdOf <- MCOwnId
    CreateRegisters = FALSE
    LateRegister = TRUE
SPECIFICATION Spec
INVARIANTS
    NoCallIntoClosedLibrary
CHECK_DEADLOCK FALSE
