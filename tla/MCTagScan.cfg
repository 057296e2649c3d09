\* Five names, one of them "0", two shards, pages of one or two names or of all.
CONSTANTS
    Names = {1, 2, 3, 4, 5}
    Zero = 2
    Shards = 2
    ShardOf <- MCShardOf
    Patterns <- MCPatterns
    Counts = {0, 1, 2}
SPECIFICATION Spec
INVARIANTS
    ListedOnce
    ScanComplete
