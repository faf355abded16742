CONSTANTS
    Runs = {c1, c2}
    MaxSubs = 2
    MaxIntents = 2
    MaxDay = 3
    MaxRollbacks = 0
    MaxOthers = 1
    FirstExpiry = 2
    Lead = 2
    Grace = 3
    Cycle = 5
    KeyLife = 1
    Cards = {"visa", "no_card"}
    Replies = {"succeeded", "requires_action", "declined", "unreachable"}
    PanelCalls = TRUE
    DailyCron = FALSE
    SlowWebhooks = FALSE
    Retry <- MCRetry
SPECIFICATION Spec
SYMMETRY RunSymmetry
CHECK_DEADLOCK FALSE
INVARIANTS TypeOK ChargedOncePerPeriod
PROPERTIES ChargeOnlyWhenDue EveryPaymentExtendsOnce
