SPECIFICATION WatchedFairSpec
CONSTANTS
    Readers = {r1, r2}
    Callers = {r1, r2}
    FirstTip = 1
    LastTip = 2
    Failures = TRUE
    MaxRound = 2
    NodeCache = TRUE
    Outages = TRUE
    Deployments <- SmallDeployments
INVARIANT NeverAhead
INVARIANT AnswersNamedBlock
INVARIANT MissingOnlyIfGone
PROPERTY RequestsEnd
