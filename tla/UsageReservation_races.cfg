\* Two creators of one request id race, for every kind of charge; the
\* stale recovery is scheduled.
CONSTANTS
    Request = {r1}
    Caller = {c1, c2}
    Kinds = {"paid", "exempt", "free"}
    Holds = {1, 2}
    Costs = {0, 1, 3}
    Expansions = {e1}
    Limits = {NoLimit}
    InitialBalance = 3
    MaxAttempts = 2
    MaxPeriods = 1
    NoLimit = NoLimit
    NoRow = NoRow
    Idle = Idle
SPECIFICATION FairSpec
INVARIANT LedgerNeverOverstates
PROPERTY ReservationsEnd
\* With every charge closed and the last attempt made, nothing is left to do.
CHECK_DEADLOCK FALSE
