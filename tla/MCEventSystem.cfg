SPECIFICATION MCSpec
CONSTANTS
    MaxRound = 3
    chainEvChanSize = 2
    h1 = h1
    l1 = l1
    HeadSubs = {h1}
    LogSubs = {l1}
    Matches <- EvenRounds
    FilterRounds = {1, 2, 3}
    Addresses = {x, y}
    Topics = {A, B}
    MaxTopics = 2
    GetLogsMaxRounds = 0
INVARIANT ReceivesWhatIsTaken
INVARIANT FiltersAgree
PROPERTY UnsubscribeReturns
PROPERTY EventsAreTaken
CHECK_DEADLOCK FALSE
