SPECIFICATION Spec
CONSTANTS
    MaxRound = 4
    Chains <- EpochChains
    IndexingStart = 0
    IndexingEnd = 3
    EnablePruning = TRUE
    PruningStep = 1
    Env = {"source", "storage", "lostAck", "nodePrune", "crash"}
INVARIANT TipIsNewestBlock
INVARIANT NoAvoidableGap
INVARIANT EndMeansComplete
INVARIANT CachedTipIsFresh
INVARIANT ParametersOfOwnEpoch
PROPERTY PruneKeepsWindow
PROPERTY WindowSpec
