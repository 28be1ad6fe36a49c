SPECIFICATION FairSpec
CONSTANTS
    Capacity = 2
    MaxList = 2
    Faults = {"close", "die", "stop", "kill", "ctrlc"}
INVARIANT TypeOK
INVARIANT InStep
INVARIANT ExecutesWhole
INVARIANT PromptIsClean
PROPERTY EndsOrOrphaned
PROPERTY WorkerFollowsClient
CHECK_DEADLOCK FALSE
