\* A version that was replaced while its job waits, and the owner's requests.
CONSTANTS
    Document = {v1, v2}
    Worker = {w1}
    Enabled = {}
    Attempts = 2
    Request = {q1, q2}
    MaxFaults = 0
    None = None
SPECIFICATION Spec
INVARIANT ReplacedStaysOut
CHECK_DEADLOCK FALSE
