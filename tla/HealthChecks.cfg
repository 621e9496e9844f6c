SPECIFICATION FairSpec
CONSTANTS
    MaxRound = 3
    IndexingEnds = {0, 2}
    DriftThreshold = 1
    UnhealthyThreshold = 3
    NodeCaches = {TRUE, FALSE}
INVARIANT IndexerNotInFront
INVARIANT OasisHealthIsRecent
PROPERTY HealthRecovers
PROPERTY OutageReported
CHECK_DEADLOCK FALSE
