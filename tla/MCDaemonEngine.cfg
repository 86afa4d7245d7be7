\* Two commands, one of them too big for the TCP server, and one trace id that
\* either of them may take.
CONSTANTS
    Calls = {c1, c2}
    Traces = {t1}
    Slots = {k1, k2}
    Agent = agent
    None = none
    Big = {c2}
    Bound = 1
    SilentCuts = FALSE
SPECIFICATION FairSpec
INVARIANTS
    PendingMatches
    OneChild
PROPERTIES
    KeepsPromise
    CallSettles
CHECK_DEADLOCK FALSE
