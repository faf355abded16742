CONSTANTS
    r1 = r1
    r2 = r2
    r3 = r3
    Requests <- MCRequests
    Payloads <- MCPayloads
    StaleAfter = 2
    TTL = 4
    MaxClock = 5
    MaxCrashes = 1
    Prompt = FALSE
SPECIFICATION Spec
SYMMETRY Symmetry
CHECK_DEADLOCK FALSE
INVARIANTS FailuresNeverCached
