\* Two calls together, three in all: a circuit opens, cools, lets a probe in and meets
\* the next call.  Or four one by one, with two tabs of the agent, of which one navigates
\* by itself.
CONSTANTS
    FailureThreshold = 1
    EngineErrorThreshold = 2
    c1 = c1
    c2 = c2
    t2 = t2
    Calls = {c1, c2}
    Kinds = {"script", "shot", "click", "blind", "navigate", "closeTab", "newTab", "stop"}
    Mine = {t1, t2}
    Theirs = {u1}
    NoTab = NoTab
    host = host
    nohost = nohost
    Domains = {host, nohost}
    DomainOf <- OneHost
    DaemonAvailable = TRUE
    Movers = {t1}
    SnapshotFails = FALSE
    MaxErrors = 2
    MaxCalls = 4
    MaxMoves = 1
SPECIFICATION ScenarioSpec
INVARIANTS
    TypeOK
    OneProbePerOpening
    KillSwitchCounts
    
    
    

    
    
CHECK_DEADLOCK FALSE
