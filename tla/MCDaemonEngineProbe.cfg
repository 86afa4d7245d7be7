\* A daemon that dies may close a connection without an error.
CONSTANTS
    Calls = {c1}
    Traces = {}
    Slots = {k1}
    Agent = agent
    None = none
    Big = {}
    Bound = 1
    SilentCuts = TRUE
SPECIFICATION FairSpec
PROPERTIES
    ProbesEnd
CHECK_DEADLOCK FALSE
