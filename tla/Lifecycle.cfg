SPECIFICATION ProcessFairSpec
CONSTANT Configs <- Config
PROPERTY StopsCleanlyAfterFixer
PROPERTY ErrorStopsProcess
CHECK_DEADLOCK FALSE
