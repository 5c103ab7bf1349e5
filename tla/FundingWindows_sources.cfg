\* Two requests, two windows of which the last is prorated, two tester weeks.
CONSTANTS
    Request = {r1, r2}
    Caller = {c1, c2}
    Overlap = FALSE
    Holds = {1, 2}
    Costs = {0, 1, 3}
    Expansions = {e1}
    Weeks = 2
    FullAllowance = 3
    LastAllowance = 1
    TesterAllowances = {0, 2}
    InitialBalance = 2
    MaxAttempts = 2
    MaxHold = 3
    NoRow = NoRow
    Idle = Idle
SPECIFICATION Spec
SYMMETRY RequestSymmetry
INVARIANTS TypeOK HoldsAreBacked WeekFits UseIsExplained
CHECK_DEADLOCK FALSE
