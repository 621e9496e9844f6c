SPECIFICATION MCSpec
CONSTANTS
    MaxRound = 4
    Hashes = {a, b}
    Histories <- MixedHistories
    PruningStep = 1
    Failures = TRUE
    MaxBatch = 3
    TxHashes = {a, b}
    EventLists <- SomeEvents
    GasLimits = {2}
    Prices = {1, 2}
INVARIANT SuccessKept
INVARIANT RowsHaveBlocks
INVARIANT ModelsConsistent
PROPERTY StoresAll
