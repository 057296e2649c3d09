\* Two sessions; argument lists with valid patterns that overlap and bad ones.
CONSTANTS
    Literals <- MCLiterals
    Patterns <- MCPatterns
    Topics <- MCTopics
    Arguments <- MCArguments
    Subscribers = {1, 2}
    Severities = {0}
    Categories = {"alarm"}
SPECIFICATION DSpec
INVARIANTS
    IndexCovers
    MatchIsExact
    OnlyReadyAreRouted
    ZeroMeansSilence
PROPERTIES
    OnlyAskedRoutesChange
CHECK_DEADLOCK FALSE
