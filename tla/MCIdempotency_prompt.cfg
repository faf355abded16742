CONSTANTS
    r1 = r1
    r2 = r2
    r3 = r3
    Requests <- MCRequests
    Payloads <- MCPayloads
    StaleAfter = 3
    TTL = 6
    MaxClock = 5
    MaxCrashes = 0
    Prompt = TRUE
SPECIFICATION Spec
SYMMETRY Symmetry
CHECK_DEADLOCK FALSE
INVARIANTS MutualExclusion CachedAnswersMatchPayload
PROPERTIES CompletedIsStable OneExecutionPerKey
