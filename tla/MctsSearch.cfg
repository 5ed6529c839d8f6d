SPECIFICATION MctsFairSpec
CONSTANTS
    MctsCommand = {"a", "b"}
    MaxSimulations = 3
    MaxDepth = 3
    BranchFactor = 2
INVARIANT MctsSound
PROPERTY SearchEndsOrSticks
CHECK_DEADLOCK FALSE
