SPECIFICATION FairSpec
CONSTANTS
    MaxRound = 4
    Chains <- NormalChains
    IndexingStart = 0
    IndexingEnd = 0
    EnablePruning = TRUE
    PruningStep = 2
    Env = {"source", "storage", "lookup", "nodePrune"}
PROPERTY CatchesUp
