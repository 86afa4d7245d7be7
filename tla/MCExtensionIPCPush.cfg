\* What reconcile pushes against its comment: expected to be violated.
CONSTANTS
    MaxCommands = 1
    Polls = {p1}
    Loops = {l1}
    NoLoop = NoLoop
    Stopped = Stopped
    NoPoll = NoPoll
    MaxFaults = 1
SPECIFICATION IPCSpec
INVARIANTS
    PushNewUnknown
CHECK_DEADLOCK FALSE
