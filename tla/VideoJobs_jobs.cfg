\* Two complimentary videos, or a paid one; the cache loses one output.
CONSTANTS
    Job = {j1, j2}
    Attempts = 2
    Tries = 2
    Earlier = 1
    MaxFaults = 1
    Idle = Idle
SPECIFICATION MCSpec
INVARIANTS TypeOK OneRunning RefundedOnce OutputIsDelivered QuotaIsExact
CHECK_DEADLOCK FALSE
PROPERTY CapturesEnd
