CONSTANTS
    Runs = {c1}
    MaxSubs = 1
    MaxIntents = 5
    MaxDay = 6
    MaxRollbacks = 0
    MaxOthers = 0
    FirstExpiry = 2
    Lead = 2
    Grace = 3
    Cycle = 5
    KeyLife = 1
    Cards = {"visa"}
    Replies = {"declined"}
    PanelCalls = FALSE
    DailyCron = TRUE
    SlowWebhooks = FALSE
    Retry <- MCRetry
SPECIFICATION Spec
CHECK_DEADLOCK FALSE
INVARIANTS RetriesAreBounded
