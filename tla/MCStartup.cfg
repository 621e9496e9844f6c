SPECIFICATION MCSpec
CONSTANTS
    old = old
    new = new
    None = None
    Instances = {old, new}
    Runner = new
    Version <- OldAndNew
    Env = {"truncate"}
    MaxStarts = 3
    batchSize = 2
    MaxRound = 5
    MaxStops = 2
    LogTables <- SmallTables
    LogTips <- SmallTips
    LogsBatchSize = 2
INVARIANT ExactlyOnce
INVARIANT AllFixed
INVARIANT FixerOnLatestSchema
INVARIANT LogsRenumbered
PROPERTY MigrateReturns
PROPERTY WalkEnds
CHECK_DEADLOCK FALSE
