\* One call at a time, one failure opens the circuit.
CONSTANTS
    FailureThreshold = 1
    EngineErrorThreshold = 2
    Calls = {c1}
    Kinds = {"script"}
    Mine = {t1}
    Theirs = {u1}
    NoTab = NoTab
    host = host
    nohost = nohost
    Domains = {host, nohost}
    DomainOf <- OneHost
    DaemonAvailable = TRUE
    Movers = {t1}
    SnapshotFails = FALSE
    MaxErrors = 2
    MaxCalls = 2
    MaxMoves = 1
SPECIFICATION Spec
INVARIANTS
    ProbeOutstanding
CHECK_DEADLOCK FALSE
