SPECIFICATION FairSpec
CONSTANTS
    Readers = {r1, r2}
    FirstTip = 1
    LastTip = 2
    Failures = FALSE
PROPERTY CallsReturn
