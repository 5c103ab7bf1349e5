\* A referred user with two orders, the referrer with one, two transactions.
SPECIFICATION MCSpec
CONSTANTS
    a = a
    b = b
    a1 = a1
    a2 = a2
    b1 = b1
    Users = {a, b}
    Orders = {a1, a2, b1}
    Owner <- MCOwner
    Handlers = {h1, h2}
    Length = 2
    RewardLength = 1
    Gross = 2
    MaxTime = 1
    None = None
SYMMETRY Symmetry
INVARIANTS TypeOK PeriodsDisjoint RefundsTakeBack RewardedOnce
CHECK_DEADLOCK FALSE
