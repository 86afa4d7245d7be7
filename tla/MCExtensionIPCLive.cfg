\* The wake lock is released; two polls at once, one fault.
CONSTANTS
    MaxCommands = 1
    Polls = {p1, p2}
    Loops = {l1}
    NoLoop = NoLoop
    Stopped = Stopped
    NoPoll = NoPoll
    MaxFaults = 1
SPECIFICATION IPCFairSpec
PROPERTIES
    WakeLockReleased
CHECK_DEADLOCK FALSE
