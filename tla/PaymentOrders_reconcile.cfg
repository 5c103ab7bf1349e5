\* The operator reconciles a refunded order, and the webhook of the refund
\* comes after; no handler of the order overlaps with the reconciliation.
CONSTANTS
    Order = {o1}
    ProviderOrder = {p1}
    Payment = {x1}
    Refund = {f1, f2}
    Caller = {c1}
    Gross = 2
    Credit = 3
    RefundPaise = 1
    Uses = {}
    MaxSpent = 0
    MaxRuns = 1
    Overlap = FALSE
    None = None
    Idle = Idle
SPECIFICATION Spec
SYMMETRY RefundSymmetry
INVARIANT RefundsReversedOnce
\* Once every order is paid and refunded, nothing is left to do.
CHECK_DEADLOCK FALSE
