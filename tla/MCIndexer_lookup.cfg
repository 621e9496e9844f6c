SPECIFICATION Spec
CONSTANTS
    MaxRound = 3
    Chains <- NormalChains
    IndexingStart = 0
    IndexingEnd = 0
    EnablePruning = FALSE
    PruningStep = 0
    Env = {"lookup"}
INVARIANT NoAvoidableGap
