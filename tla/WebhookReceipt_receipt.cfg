SPECIFICATION LiveSpec
CONSTANTS
    Events = {1, 2}
    None = None
    Secrets = {1, 2, 3, 4, 5, 6, 7}
    Tolerance = 1
    Skews <- MCSkews
    MaxAttempts = 2
    DisableAfter = 2
    Limit = 1
    MaxRetries = 1
    MaxCalls = 1
    MaxFaults = 2
    MaxDrops = 1
    MaxTime = 1
INVARIANTS
    TypeOK
    ReturnedSecretIsCurrent
PROPERTIES
    OnlyRecentIsProcessed
    PromptIsDelivered
    EveryEventIsProcessed
CHECK_DEADLOCK FALSE
