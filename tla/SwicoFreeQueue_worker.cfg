\* One worker that crashes once, two requests, one of which may be cancelled.
CONSTANTS
    Request = {r1, r2}
    Worker = {w1}
    Cancellable = {r1}
    MaxPosts = 2
    MaxCrashes = 1
    None = None
SPECIFICATION FairSpec
INVARIANTS TypeOK OneRunning
PROPERTIES JobsEnd KeepsPromise
