\* One command through every interleaving of a poll, two loops, one wake and any
\* two faults.
CONSTANTS
    MaxCommands = 1
    Polls = {p1}
    Loops = {l1, l2}
    NoLoop = NoLoop
    Stopped = Stopped
    NoPoll = NoPoll
    MaxFaults = 2
SPECIFICATION IPCSpec
SYMMETRY IPCSymmetry
INVARIANTS
    IPCTypeOK
    
    ReplayBound
    EffectBound

    
CHECK_DEADLOCK FALSE
