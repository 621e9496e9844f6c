SPECIFICATION MCSpec
CONSTANTS
    MaxRound = 4
    WindowSize = 2
    FeeHistorySize = 3
    Prices <- PricesOrNone
    MaxJump = 1
    QueryFailures = TRUE
    MaxTxs = 3
    Amounts = {1, 3}
    Percentiles = {0, 30, 60, 100, 101}
    MaxQueryLimit = 2
INVARIANT ComputedIsWindowMax
INVARIANT FeeHistoryAnswers
INVARIANT RewardsArePercentiles
PROPERTY NodePriceNeverOlder
CHECK_DEADLOCK FALSE
