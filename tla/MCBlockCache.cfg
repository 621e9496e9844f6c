SPECIFICATION Spec
CONSTANTS
    MaxRound = 4
    Hashes = {a, b}
    Histories <- Chains
    MaxCacheSize = 3
    PruningStep = 1
SYMMETRY HashSymmetry
CONSTRAINT OneRequest
INVARIANT CacheHoldsNewest
INVARIANT CachedTxIsStored
INVARIANT CachedLogsExact
INVARIANT AnnouncedServable
