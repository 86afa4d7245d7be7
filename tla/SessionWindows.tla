--------------------------- MODULE SessionWindows ---------------------------
(***************************************************************************)
(* The life of MCP servers that share one Safari and one daemon            *)
(* (src/index.ts, SafariPilotServer.start, recoverSession and shutdown in  *)
(* src/server.ts, the session registry of HealthStore.swift).              *)
(*                                                                         *)
(* Every server opens one dashboard window.  All of them bear the same     *)
(* title, so a server that closes windows by title must know whether other *)
(* servers are alive: the registry of the daemon tells it when it starts,  *)
(* a count of windows when it stops.  An action is the code between two    *)
(* awaits; a script run by osascript is one action, since it blocks.       *)
(***************************************************************************)
EXTENDS Naturals, FiniteSets

CONSTANTS
    Servers,    \* server processes, started at most once each
    Windows,    \* dashboard windows, opened at most once each
    Calls,      \* tool calls under way at a time in a server
    None,
    Faults      \* bound: scripts and requests that fail, windows users close

ASSUME SessionWindowsAssumption ==
    /\ None \notin Servers \cup Windows
    /\ "start" \notin Calls
    /\ Faults \in Nat

Threads == {"start"} \cup Calls

VARIABLES
    life,       \* off, starting, serving, stopping; ended clean, cut or dead
    step,       \* where a server's threads are
    stop,       \* where its shutdown is
    windowId,   \* _sessionWindowId
    others,     \* is _otherSessionsAtStart > 0
    lastOne,    \* shutdown's guess that no other session is alive
    opener,     \* who opened a window; None if not opened or closed again
    spent,      \* windows that have been opened
    titled,     \* windows whose dashboard page has loaded
    registry,   \* the daemon's entry of a session, "stale" after 60 s
    faults,     \* how many faults so far
    busy,       \* history: servers told to stop while a thread was under way
    failed      \* history: servers of whose scripts or requests one failed

windowVars == <<opener, spent, titled>>
vars == <<life, step, stop, windowId, others, lastOne, windowVars, registry, faults, busy, failed>>

Init ==
    /\ life = [s \in Servers |-> "off"]
    /\ step = [s \in Servers |-> [t \in Threads |-> "idle"]]
    /\ stop = [s \in Servers |-> "no"]
    /\ windowId = [s \in Servers |-> None]
    /\ others = [s \in Servers |-> FALSE]
    /\ lastOne = [s \in Servers |-> FALSE]
    /\ opener = [w \in Windows |-> None] /\ spent = {} /\ titled = {}
    /\ registry = [s \in Servers |-> "absent"]
    /\ faults = 0
    /\ busy = {} /\ failed = {}

Running(s) == life[s] \in {"starting", "serving", "stopping"}

Goto(s, t, where) == step' = [step EXCEPT ![s][t] = where]

\* A script or a request of a server fails, or times out.
Fault(s) == faults < Faults /\ faults' = faults + 1 /\ failed' = failed \cup {s}

\* Something happens to the server from outside.
Accident == faults < Faults /\ faults' = faults + 1 /\ UNCHANGED failed

Works == UNCHANGED <<faults, failed>>

Open(w) == opener[w] # None

-----------------------------------------------------------------------------
\* The registry (HealthStore.swift).

\* Whoever reads the count drops the stale entries first.
Pruned(r) == [s \in Servers |-> IF r[s] = "stale" THEN "absent" ELSE r[s]]

\* A session that was dropped is not put back by its next status request.
Touched(s) == Pruned([registry EXCEPT ![s] = IF @ = "absent" THEN @ ELSE "fresh"])

OthersRegistered(s, r) == \E x \in Servers \ {s} : r[x] = "fresh"

SixtySeconds(s) ==
    /\ registry[s] = "fresh"
    /\ registry' = [registry EXCEPT ![s] = "stale"]
    /\ UNCHANGED <<life, step, stop, windowId, others, lastOne, windowVars, faults, busy, failed>>

-----------------------------------------------------------------------------
\* Windows.

\* Closing every window of the session title, whoever opened it.
CloseTitled ==
    opener' = [w \in Windows |-> IF w \in titled THEN None ELSE opener[w]]

PageLoads(w) ==
    /\ Open(w) /\ w \notin titled
    /\ titled' = titled \cup {w}
    /\ UNCHANGED <<life, step, stop, windowId, others, lastOne, opener, spent, registry, faults, busy, failed>>

UserCloses(w) ==
    /\ Open(w) /\ Accident
    /\ opener' = [opener EXCEPT ![w] = None]
    /\ UNCHANGED <<life, step, stop, windowId, others, lastOne, spent, titled, registry, busy>>

\* checkWindowExists: a script that fails counts as a missing window.
Exists(s) == windowId[s] # None /\ Open(windowId[s])

-----------------------------------------------------------------------------
\* start and recoverSession.

Launch(s) ==
    /\ life[s] = "off"
    /\ life' = [life EXCEPT ![s] = "starting"]
    /\ Goto(s, "start", "register")
    /\ UNCHANGED <<stop, windowId, others, lastOne, windowVars, registry, faults, busy, failed>>

\* registerWithDaemon as start and recoverSession call it; an error counts as
\* no other session, and only start keeps the number.
Register(s, t) ==
    /\ Running(s) /\ step[s][t] = "register"
    /\ Goto(s, t, IF t = "start" THEN "sweep" ELSE "idle")
    /\ LET now == Pruned([registry EXCEPT ![s] = "fresh"])
           Keep(any) == others' = IF t = "start" THEN [others EXCEPT ![s] = any] ELSE others IN
       \/ Works /\ registry' = now /\ Keep(OthersRegistered(s, now))
       \/ Fault(s) /\ UNCHANGED registry /\ Keep(FALSE)
    /\ UNCHANGED <<life, stop, windowId, lastOne, windowVars, busy>>

\* The health gate of a tool call: a status request and a look at the window.
\* Without the window, or without the extension, the session is recovered.
Gate(s, c) ==
    /\ life[s] = "serving" /\ step[s][c] = "idle"
    /\ registry' = Touched(s)
    /\ \/ Works /\ (\/ ~Exists(s) /\ Goto(s, c, "check")
                    \/ Exists(s) /\ \E n \in {"check", "idle"} : Goto(s, c, n))
       \/ Fault(s) /\ Goto(s, c, "check")
    /\ UNCHANGED <<life, stop, windowId, others, lastOne, windowVars, busy>>

\* ensureSessionWindow returns at once if there is a window.
Check(s, c) ==
    /\ Running(s) /\ step[s][c] = "check"
    /\ \/ Works /\ Exists(s) /\ Goto(s, c, "poll") /\ UNCHANGED windowId
       \/ /\ \/ Works /\ ~Exists(s)
             \/ Fault(s)
          /\ windowId' = [windowId EXCEPT ![s] = None]
          /\ Goto(s, c, "sweep")
    /\ UNCHANGED <<life, stop, others, lastOne, windowVars, registry, busy>>

MaySweep(s) == ~others[s]

\* closeOrphanedSessionWindows.
Sweep(s, t) ==
    /\ Running(s) /\ step[s][t] = "sweep"
    /\ Goto(s, t, "open")
    /\ \/ MaySweep(s) /\ CloseTitled /\ Works
       \/ ~MaySweep(s) /\ UNCHANGED opener /\ Works
       \/ MaySweep(s) /\ UNCHANGED opener /\ Fault(s)
    /\ UNCHANGED <<life, stop, windowId, others, lastOne, spent, titled, registry, busy>>

\* The window is opened.  If the script fails, start lets the process die, and
\* a tool call is refused.
OpenWindow(s, t) ==
    /\ Running(s) /\ step[s][t] = "open"
    /\ \/ /\ Works
          /\ \E w \in Windows \ spent :
                /\ opener' = [opener EXCEPT ![w] = s]
                /\ spent' = spent \cup {w}
                /\ windowId' = [windowId EXCEPT ![s] = w]
          /\ Goto(s, t, "poll")
          /\ UNCHANGED life
       \/ /\ Fault(s)
          /\ Goto(s, t, "idle")
          /\ life' = IF t = "start" THEN [life EXCEPT ![s] = "dead"] ELSE life
          /\ UNCHANGED <<opener, spent, windowId>>
    /\ UNCHANGED <<stop, others, lastOne, titled, registry, busy>>

\* The polls for the extension: it answers, or they fail, or the call does not
\* need it.  After those of start the server serves with or without it.
Poll(s, t) ==
    /\ Running(s) /\ step[s][t] = "poll"
    /\ registry' = Touched(s)
    /\ IF t = "start"
       THEN /\ Goto(s, t, "idle")
            /\ life' = [life EXCEPT ![s] = IF @ = "starting" THEN "serving" ELSE @]
       ELSE /\ \E n \in {"register", "idle"} : Goto(s, t, n)
            /\ UNCHANGED life
    /\ UNCHANGED <<stop, windowId, others, lastOne, windowVars, faults, busy, failed>>

-----------------------------------------------------------------------------
\* gracefulShutdown and shutdown; the daemon and sudden death.

\* SIGINT, SIGTERM or the end of stdin; only the first one counts.
Stop(s) ==
    /\ life[s] \in {"starting", "serving"}
    /\ life' = [life EXCEPT ![s] = "stopping"]
    /\ stop' = [stop EXCEPT ![s] = "count"]
    /\ busy' = IF \E t \in Threads : step[s][t] # "idle" THEN busy \cup {s} ELSE busy
    /\ UNCHANGED <<step, windowId, others, lastOne, windowVars, registry, faults, failed>>

OpenTitled == {w \in titled : Open(w)}

\* A failed count counts as none.
CountTitled(s) ==
    /\ life[s] = "stopping" /\ stop[s] = "count"
    /\ stop' = [stop EXCEPT ![s] = "close"]
    /\ \/ Works /\ lastOne' = [lastOne EXCEPT ![s] = Cardinality(OpenTitled) <= 1]
       \/ Fault(s) /\ lastOne' = [lastOne EXCEPT ![s] = TRUE]
    /\ UNCHANGED <<life, step, windowId, others, windowVars, registry, busy>>

\* Mutant: the id is given up without closing the window.
ClosesForgotten(s) == [opener EXCEPT ![windowId[s]] = opener[windowId[s]]]

Closes(s) == [opener EXCEPT ![windowId[s]] = None]

CloseOwn(s) ==
    /\ life[s] = "stopping" /\ stop[s] = "close"
    /\ stop' = [stop EXCEPT ![s] = "sweep"]
    /\ windowId' = [windowId EXCEPT ![s] = None]
    /\ \/ windowId[s] = None /\ Works /\ UNCHANGED opener
       \/ windowId[s] # None /\ Works /\ opener' = Closes(s)
       \/ windowId[s] # None /\ Fault(s) /\ UNCHANGED opener
    /\ UNCHANGED <<life, step, others, lastOne, spent, titled, registry, busy>>

SweepRemaining(s) ==
    /\ life[s] = "stopping" /\ stop[s] = "sweep"
    /\ stop' = [stop EXCEPT ![s] = "engines"]
    /\ \/ lastOne[s] /\ CloseTitled /\ Works
       \/ ~lastOne[s] /\ UNCHANGED opener /\ Works
       \/ lastOne[s] /\ UNCHANGED opener /\ Fault(s)
    /\ UNCHANGED <<life, step, windowId, others, lastOne, spent, titled, registry, busy>>

Ended(s, how) ==
    /\ life' = [life EXCEPT ![s] = how]
    /\ step' = [step EXCEPT ![s] = [t \in Threads |-> "idle"]]
    /\ stop' = [stop EXCEPT ![s] = "no"]
    /\ windowId' = [windowId EXCEPT ![s] = None]
    /\ others' = [others EXCEPT ![s] = FALSE] /\ lastOne' = [lastOne EXCEPT ![s] = FALSE]
    /\ UNCHANGED <<windowVars, registry, busy>>

\* The engines are shut down, and the process exits.
Exit(s) == life[s] = "stopping" /\ stop[s] = "engines" /\ Ended(s, "clean") /\ Works

\* The 3 s of gracefulShutdown are over before that.
ThreeSeconds(s) == life[s] = "stopping" /\ Ended(s, "cut") /\ Works

Killed(s) == Running(s) /\ Ended(s, "dead") /\ Accident

DaemonRestarts ==
    /\ \E s \in Servers : registry[s] # "absent"
    /\ Accident
    /\ registry' = [s \in Servers |-> "absent"]
    /\ UNCHANGED <<life, step, stop, windowId, others, lastOne, windowVars, busy>>

-----------------------------------------------------------------------------
ThreadStep(s, t) == Register(s, t) \/ Sweep(s, t) \/ OpenWindow(s, t) \/ Poll(s, t)

CallStep(s, c) == Gate(s, c) \/ Check(s, c)

StopStep(s) == Stop(s) \/ CountTitled(s) \/ CloseOwn(s) \/ SweepRemaining(s) \/ Exit(s) \/ ThreeSeconds(s)

Next ==
    \/ \E s \in Servers :
        \/ Launch(s) \/ StopStep(s) \/ Killed(s) \/ SixtySeconds(s)
        \/ \E t \in Threads : ThreadStep(s, t)
        \/ \E c \in Calls : CallStep(s, c)
    \/ \E w \in Windows : PageLoads(w) \/ UserCloses(w)
    \/ DaemonRestarts

Spec == Init /\ [][Next]_vars

-----------------------------------------------------------------------------
\* Properties.

\* A server that exits by itself leaves no dashboard window behind, whatever
\* users, other servers and the daemon did meanwhile, if it was told to stop
\* between two calls, its scripts worked and its calls came one at a time
\* (index.ts:26-51, server.ts:1836-1873).
CleanExitLeavesNothing ==
    \A s \in Servers :
        life[s] = "clean" /\ s \notin busy \cup failed => \A w \in Windows : opener[w] # s

\* _otherSessionsAtStart's comment: the cleanup must be skipped when there are
\* other sessions, for it "would close the live other sessions' dashboard
\* windows".  So a window of a live server is closed by itself or its user.
OthersWindowsStand ==
    [][\A s \in Servers, t \in Threads :
        Sweep(s, t) => \A w \in Windows :
            Open(w) /\ opener[w] # s /\ life[opener[w]] = "serving" => opener'[w] = opener[w]]_vars
=============================================================================
