CONSTANTS
    Deliveries = {d1, d2, d3}
    MaxErrors = 2
    MaxAborts = 1
SPECIFICATION Spec
CHECK_DEADLOCK FALSE
INVARIANTS AcknowledgedIsApplied RepeatsNeedErrors
PROPERTY EventuallyAcknowledged
