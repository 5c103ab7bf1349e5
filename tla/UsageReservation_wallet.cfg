\* One creator at a time: the ordinary life of two paid charges that share
\* a wallet and a monthly limit.
CONSTANTS
    Request = {r1, r2}
    Caller = {c1}
    Kinds = {"paid"}
    Holds = {1, 2}
    Costs = {0, 1, 3}
    Expansions = {e1}
    Limits = {NoLimit, 2}
    InitialBalance = 3
    MaxAttempts = 2
    MaxPeriods = 2
    NoLimit = NoLimit
    NoRow = NoRow
    Idle = Idle
SPECIFICATION Spec
SYMMETRY RequestSymmetry
INVARIANTS TypeOK HoldsMatchCharges LedgerExplainsBalance LedgerExplainsHolds
PROPERTIES LimitHolds ClosedIsFinal
