SPECIFICATION FairSpec
CONSTANTS
    Capacity = 1
    MaxList = 1
    Faults = {"die"}
PROPERTY AnsweredOrTold
CHECK_DEADLOCK FALSE
