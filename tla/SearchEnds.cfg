SPECIFICATION MctsFairSpec
CONSTANTS
    MctsCommand = {"a"}
    MaxSimulations = 2
    MaxDepth = 2
    BranchFactor = 1
PROPERTY SearchEnds
CHECK_DEADLOCK FALSE
