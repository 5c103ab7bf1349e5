\* One order, two provider orders and two payments of it, refunded in two
\* parts; the operator reconciles while no handler of the order runs.
CONSTANTS
    Order = {o1}
    ProviderOrder = {p1, p2}
    Payment = {x1, x2}
    Refund = {f1, f2}
    Caller = {c1}
    Gross = 2
    Credit = 3
    RefundPaise = 1
    Uses = {1, 2}
    MaxSpent = 2
    MaxRuns = 1
    Overlap = FALSE
    None = None
    Idle = Idle
SPECIFICATION FairSpec
INVARIANTS TypeOK LedgerExplainsBalance CreditsAreCaptured WebhooksReverseOnce StatusMatchesAmounts
PROPERTY PaidIsCredited
\* Once every order is paid and refunded, nothing is left to do.
CHECK_DEADLOCK FALSE
