\* One paid video, without faults.
CONSTANTS
    Job = {j1}
    Attempts = 1
    Tries = 1
    Earlier = 0
    MaxFaults = 0
    Idle = Idle
SPECIFICATION FairSpec
INVARIANT CapturedIsCompensated
CHECK_DEADLOCK FALSE
