CONSTANTS
    Runs = {c1}
    MaxSubs = 1
    MaxIntents = 4
    MaxDay = 10
    MaxRollbacks = 1
    MaxOthers = 0
    FirstExpiry = 2
    Lead = 2
    Grace = 3
    Cycle = 5
    KeyLife = 1
    Cards = {"visa"}
    Replies = {"succeeded", "declined", "processing", "requires_action"}
    PanelCalls = FALSE
    DailyCron = TRUE
    SlowWebhooks = TRUE
    Retry <- MCRetry
SPECIFICATION Spec
CHECK_DEADLOCK FALSE
INVARIANTS PeriodsInOrderAreTried GraceAnchored ChargesAreKept
