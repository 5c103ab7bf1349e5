\* Two workers, of an old and a new instance: a job may have two generations.
CONSTANTS
    Request = {r1, r2}
    Worker = {w1, w2}
    Cancellable = {r1}
    MaxPosts = 2
    MaxCrashes = 0
    None = None
SPECIFICATION Spec
SYMMETRY WorkerSymmetry
INVARIANTS CompletedIsAnswered AnsweredIsSettled
