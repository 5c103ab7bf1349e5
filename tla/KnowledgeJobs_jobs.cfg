\* Two versions of a source, two workers, two requests of the owner, one fault.
CONSTANTS
    Document = {v1, v2}
    Worker = {w1, w2}
    Enabled = {"embedding", "hierarchy"}
    Attempts = 2
    Request = {q1, q2}
    MaxFaults = 1
    None = None
SPECIFICATION MCSpec
INVARIANTS TypeOK PaidOnce StageMatchesCharge AnswersAreCharged ReadyIsSearchable
CHECK_DEADLOCK FALSE
PROPERTY JobsEnd
