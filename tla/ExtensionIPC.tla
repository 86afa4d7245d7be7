---------------------------- MODULE ExtensionIPC ----------------------------
(***************************************************************************)
(* The command pipeline of the extension engine, end to end: the daemon's  *)
(* bridge (ExtensionBridge), the HTTP exchanges /poll, /connect and        *)
(* /result, the event page of extension/background.js with its poll loops, *)
(* wake sequence and stored command entries, the storage bus, and the      *)
(* content script that runs the command in a document.                     *)
(*                                                                         *)
(* The event page may be killed at any moment and is loaded again by its   *)
(* alarm.  The daemon may be restarted.  A document may be replaced under  *)
(* a running command.  Messages in flight then reach nobody.               *)
(***************************************************************************)
EXTENDS ExtensionBridge, FiniteSetsExt

CONSTANTS
    Loops,             \* incarnations of pollLoop that can be busy at a time
    NoLoop,            \* no poll loop was started since the page was loaded
    Stopped,           \* the last poll loop returned after too many failures
    NoPoll,            \* the current loop has no fetch in flight
    MaxFaults          \* bound: disconnects, page deaths, navigations and
                       \* daemon restarts in a behaviour, taken together

ASSUME IPCAssumption ==
    /\ {NoLoop, Stopped} \cap Loops = {} /\ NoLoop # Stopped /\ NoPoll \notin Polls
    /\ MaxFaults \in Nat

\* What executes commands in the event page: the poll loops (a superseded one
\* finishes its batch) and the wake sequence with its pushed commands.
Runners == Loops \cup {"wake"}

VARIABLES
    up,            \* the event page is loaded
    loop,          \* the loop pollLoopController belongs to
    fetch,         \* the poll that loop awaits (inflightPoll)
    backlog,       \* commands received by a runner and not begun
    cur,           \* the command a runner is executing, 0 for none
    wake,          \* progress of wakeSequence
    report,        \* ids sent in POST /connect
    reply,         \* the reconcile response
    store,         \* status of the command's entry in storage.local
    saved,         \* result kept in that entry
    bus,           \* commands whose sp_cmd_ key is in storage.local
    processed,     \* processedCommandIds of the current document
    running,       \* commands the document is executing
    posted,        \* results in flight to POST /result
    selfTest,      \* the daemon has its start-up self-test still to do
    starts,        \* history: executeCommand calls for the command
    effects,       \* history: times a document ran the command's script
    count          \* history: faults so far, by kind

pageVars == <<up, loop, fetch, backlog, cur>>
wakeVars == <<wake, report, reply>>
entryVars == <<store, saved>>
documentVars == <<bus, processed, running>>
histVars == <<starts, effects>>
extensionVars ==
    <<pageVars, wakeVars, entryVars, documentVars, posted, selfTest, histVars, count>>
ipcVars == <<bridgeVars, extensionVars>>

Faults == {"disconnect", "navigation", "crash"}

\* One more fault of this kind.
Fault(kind) ==
    /\ count["disconnect"] + count["navigation"] + count["crash"] < MaxFaults
    /\ count' = [count EXCEPT ![kind] = @ + 1]

NoReport == [executed |-> {}, executing |-> {}]
NoReply == [acked |-> {}, uncertain |-> {}, pushNew |-> {}]

IPCTypeOK ==
    /\ up \in BOOLEAN
    /\ loop \in Loops \cup {NoLoop, Stopped}
    /\ fetch \in Polls \cup {NoPoll}
    /\ backlog \in [Runners -> SUBSET Commands]
    /\ cur \in [Runners -> 0 .. MaxCommands]
    /\ wake \in {"idle", "connecting", "reconciled", "pushing"}
    /\ report \in [executed : SUBSET Commands, executing : SUBSET Commands]
    /\ reply \in [acked : SUBSET Commands, uncertain : SUBSET Commands, pushNew : SUBSET Commands]
    /\ store \in [Commands -> {"absent", "executing", "completed"}]
    /\ saved \in [Commands -> {"none", "value", "error"}]
    /\ \A c \in Commands : store[c] = "completed" => saved[c] # "none"
    /\ bus \subseteq Commands
    /\ running \subseteq processed /\ processed \subseteq Commands
    /\ posted \in [Commands -> SUBSET {"value", "error"}]
    /\ selfTest \in BOOLEAN
    /\ starts \in [Commands -> Nat]
    /\ effects \in [Commands -> Nat]
    /\ count \in [Faults -> 0 .. MaxFaults]
    /\ ~up => /\ loop = NoLoop /\ fetch = NoPoll /\ wake = "idle"
              /\ \A r \in Runners : cur[r] = 0 /\ backlog[r] = {}

IPCInit ==
    /\ Init
    /\ up = FALSE
    /\ loop = NoLoop
    /\ fetch = NoPoll
    /\ backlog = [r \in Runners |-> {}]
    /\ cur = [r \in Runners |-> 0]
    /\ wake = "idle"
    /\ report = NoReport
    /\ reply = NoReply
    /\ store = [c \in Commands |-> "absent"]
    /\ saved = [c \in Commands |-> "none"]
    /\ bus = {}
    /\ processed = {}
    /\ running = {}
    /\ posted = [c \in Commands |-> {}]
    /\ selfTest = TRUE
    /\ starts = [c \in Commands |-> 0]
    /\ effects = [c \in Commands |-> 0]
    /\ count = [k \in Faults |-> 0]

-----------------------------------------------------------------------------
\* pollLoop.

Idle(r) == cur[r] = 0 /\ backlog[r] = {}

\* httpPoll: the loop has one fetch in flight, also while it executes.  The
\* step is the arrival of GET /poll at the daemon.
LoopFetch(p) ==
    /\ loop \in Loops /\ fetch = NoPoll
    /\ PollDrain(p, TRUE)
    /\ fetch' = p
    /\ UNCHANGED <<up, loop, backlog, cur, wakeVars, entryVars, documentVars, posted,
                   selfTest, histVars, count>>

\* The loop awaits its fetch only when the previous batch is done.
LoopReceive ==
    /\ loop \in Loops /\ fetch # NoPoll
    /\ Idle(loop)
    /\ phase[fetch] = "answered"
    /\ backlog' = [backlog EXCEPT ![loop] = batch[fetch]]
    /\ PollReturn(fetch)
    /\ fetch' = NoPoll
    /\ UNCHANGED <<up, loop, cur, wakeVars, entryVars, documentVars, posted, selfTest,
                   histVars, count>>

\* The fetch fails (its 10 s signal, or a connection the daemon dropped): the
\* loop fetches again, or after five failures in a row leaves it to the alarm.
LoopRetry ==
    /\ loop \in Loops /\ fetch # NoPoll
    /\ Idle(loop)
    /\ phase[fetch] # "answered"
    /\ fetch' = NoPoll
    /\ loop' \in IF phase[fetch] = "broken" THEN {loop, Stopped} ELSE {loop}
    /\ UNCHANGED <<bridgeVars, up, backlog, cur, wakeVars, entryVars, documentVars,
                   posted, selfTest, histVars, count>>

\* While a command executes, a bare fetch of /poll every 10 s keeps the event
\* page alive.  Nobody reads its response.
KeepAlivePoll(p) ==
    /\ \E r \in Runners : cur[r] # 0
    /\ p # fetch
    /\ PollDrain(p, TRUE)
    /\ UNCHANGED extensionVars

\* A response whose client is gone: a keep-alive, an aborted or timed out
\* fetch, a page that died.
ResponseUnread(p) ==
    /\ p # fetch
    /\ PollReturn(p)
    /\ UNCHANGED extensionVars

-----------------------------------------------------------------------------
\* executeCommand.

\* Mutant of Complete: the entry is marked completed without its result.
CompleteWithoutResult(S, c, result) ==
    /\ cur' = [r \in Runners |-> IF r \in S THEN 0 ELSE cur[r]]
    /\ store' = [store EXCEPT ![c] = "completed"]
    /\ posted' = [posted EXCEPT ![c] = @ \cup {result}]
    /\ UNCHANGED saved

\* The runners of S are done with c: the entry is completed with the result,
\* the bus keys are removed, and postResult sends the result.
Complete(S, c, result) ==
    /\ cur' = [r \in Runners |-> IF r \in S THEN 0 ELSE cur[r]]
    /\ store' = [store EXCEPT ![c] = "completed"]
    /\ saved' = [saved EXCEPT ![c] = result]
    /\ posted' = [posted EXCEPT ![c] = @ \cup {result}]

\* Commands of a batch are executed one after the other, in order.  The entry
\* is marked executing and keeps whatever result an earlier execution left.
Begin(r) ==
    /\ cur[r] = 0 /\ backlog[r] # {}
    /\ LET c == Min(backlog[r]) IN
        /\ cur' = [cur EXCEPT ![r] = c]
        /\ backlog' = [backlog EXCEPT ![r] = @ \ {c}]
        /\ store' = [store EXCEPT ![c] = "executing"]
        /\ starts' = [starts EXCEPT ![c] = @ + 1]
        /\ bus' = bus \cup {c}
    /\ UNCHANGED <<bridgeVars, up, loop, fetch, wakeVars, saved, processed, running,
                   posted, selfTest, effects, count>>

\* Mutant of BusTimeout: silence is taken for an empty value.
BusTimeoutAsValue(r) ==
    /\ cur[r] # 0
    /\ Complete({r}, cur[r], "value")
    /\ bus' = bus \ {cur[r]}
    /\ UNCHANGED <<bridgeVars, up, loop, fetch, backlog, wakeVars, processed, running,
                   selfTest, histVars, count>>

\* Mutant of BusTimeout: the timer is cleared once the document has the command.
BusTimeoutUnlessRunning(r) ==
    /\ cur[r] \notin running \cup {0}
    /\ Complete({r}, cur[r], "error")
    /\ bus' = bus \ {cur[r]}
    /\ UNCHANGED <<bridgeVars, up, loop, fetch, backlog, wakeVars, processed, running,
                   selfTest, histVars, count>>

\* No reply for 30 s (or no tab to run it in): the command ends in an error.
BusTimeout(r) ==
    /\ cur[r] # 0
    /\ Complete({r}, cur[r], "error")
    /\ bus' = bus \ {cur[r]}
    /\ UNCHANGED <<bridgeVars, up, loop, fetch, backlog, wakeVars, processed, running,
                   selfTest, histVars, count>>

\* A storage call throws: the rest of the batch is abandoned.  The loop counts
\* a failed attempt and replaces the fetch in flight, whose response is lost.
ExecuteThrows(r) ==
    /\ cur[r] # 0
    /\ cur' = [cur EXCEPT ![r] = 0]
    /\ backlog' = [backlog EXCEPT ![r] = {}]
    /\ fetch' = IF r = loop THEN NoPoll ELSE fetch
    /\ UNCHANGED <<bridgeVars, up, loop, wakeVars, entryVars, documentVars, posted,
                   selfTest, histVars, count>>

-----------------------------------------------------------------------------
\* The content script.

\* Mutant of ContentRun: no processedCommandIds.
ContentRunAgain(c) ==
    /\ c \in bus
    /\ effects[c] <= MaxFaults + 1
    /\ processed' = processed \cup {c}
    /\ running' = running \cup {c}
    /\ effects' = [effects EXCEPT ![c] = @ + 1]
    /\ UNCHANGED <<bridgeVars, pageVars, wakeVars, entryVars, bus, posted, selfTest,
                   starts, count>>

\* The document finds the command on the bus (onChanged, or the scan when it
\* loads) and runs it, unless it has processed that id before: then it says
\* nothing, not even the result it got.
ContentRun(c) ==
    /\ c \in bus \ processed
    /\ processed' = processed \cup {c}
    /\ running' = running \cup {c}
    /\ effects' = [effects EXCEPT ![c] = @ + 1]
    /\ UNCHANGED <<bridgeVars, pageVars, wakeVars, entryVars, bus, posted, selfTest,
                   starts, count>>

\* The document writes the result (the page's value or error, or the 10 s MAIN
\* world timeout); every runner with a listener for c takes it.
ContentReply(c, result) ==
    /\ c \in running
    /\ running' = running \ {c}
    /\ LET S == {r \in Runners : cur[r] = c} IN
        IF S = {} THEN UNCHANGED <<cur, entryVars, posted, bus>>
        ELSE Complete(S, c, result) /\ bus' = bus \ {c}
    /\ UNCHANGED <<bridgeVars, up, loop, fetch, backlog, wakeVars, processed, selfTest,
                   histVars, count>>

\* The tab shows another document: nothing is left of the previous one.
Navigate ==
    /\ Fault("navigation")
    /\ processed' = {}
    /\ running' = {}
    /\ UNCHANGED <<bridgeVars, pageVars, wakeVars, entryVars, bus, posted, selfTest, histVars>>

-----------------------------------------------------------------------------
\* POST /result.

PostArrives(c, result) ==
    /\ result \in posted[c]
    /\ posted' = [posted EXCEPT ![c] = @ \ {result}]
    /\ IF c \in pending THEN HandleResult(c, result) ELSE UNCHANGED bridgeVars
    /\ UNCHANGED <<pageVars, wakeVars, entryVars, documentVars, selfTest, histVars, count>>

\* postResult does not retry.
PostFails(c, result) ==
    /\ result \in posted[c]
    /\ posted' = [posted EXCEPT ![c] = @ \ {result}]
    /\ UNCHANGED <<bridgeVars, pageVars, wakeVars, entryVars, documentVars, selfTest,
                   histVars, count>>

-----------------------------------------------------------------------------
\* initialize, wakeSequence, connectAndReconcile.

\* The alarm fires (loading the page if need be) and no wake is running: the
\* stored entries are read and POST /connect is sent.
WakeStart ==
    /\ wake = "idle"
    /\ up' = TRUE
    /\ wake' = "connecting"
    /\ report' = [executed |-> {c \in Commands : store[c] = "completed"},
                  executing |-> {c \in Commands : store[c] = "executing"}]
    /\ UNCHANGED <<bridgeVars, loop, fetch, backlog, cur, reply, entryVars, documentVars,
                   posted, selfTest, histVars, count>>

\* The daemon handles POST /connect.
WakeConnect ==
    /\ wake = "connecting"
    /\ Connect(report.executing)
    /\ wake' = "reconciled"
    /\ reply' = [acked |-> Acked(report.executed, executedLog'),
                 uncertain |-> Uncertain(report.executed, executedLog'),
                 pushNew |-> PushNew(report.executing)]
    /\ UNCHANGED <<pageVars, report, entryVars, documentVars, posted, selfTest, histVars, count>>

\* handleReconcileResponse: drop the acknowledged entries, post the uncertain
\* results again, and execute the pushed commands (as runner "wake").
WakeReconcile ==
    /\ wake = "reconciled"
    /\ wake' = "pushing"
    /\ store' = [c \in Commands |-> IF c \in reply.acked THEN "absent" ELSE store[c]]
    /\ saved' = [c \in Commands |-> IF c \in reply.acked THEN "none" ELSE saved[c]]
    /\ posted' = [c \in Commands |->
                    IF c \in reply.uncertain /\ store'[c] = "completed"
                    THEN posted[c] \cup {saved[c]} ELSE posted[c]]
    /\ backlog' = [backlog EXCEPT !["wake"] = reply.pushNew]
    /\ report' = NoReport
    /\ reply' = NoReply
    /\ UNCHANGED <<bridgeVars, up, loop, fetch, cur, documentVars, selfTest, histVars, count>>

\* POST /connect fails or its response is lost: the step is skipped.
WakeConnectFails ==
    /\ wake \in {"connecting", "reconciled"}
    /\ wake' = "pushing"
    /\ report' = NoReport
    /\ reply' = NoReply
    /\ UNCHANGED <<bridgeVars, pageVars, entryVars, documentVars, posted, selfTest,
                   histVars, count>>

\* gcPendingStorage: completed entries older than 10 minutes.  A command's
\* caller is answered within 90 s of its queueing, and it is executed later.
Expired == {c \in Commands : store[c] = "completed" /\ answer[c] # "none"}

\* The end of the wake: gc, cleanupStaleStorageBus, then supersedePollLoop.
\* If a loop polled within 30 s, even one that has returned since, nothing is
\* done; otherwise it is aborted, its fetch with it, and another starts.  Its
\* batch, if it has one, goes on.
WakeFinish ==
    /\ wake = "pushing" /\ Idle("wake")
    /\ wake' = "idle"
    /\ \E old \in SUBSET Expired :
        /\ store' = [c \in Commands |-> IF c \in old THEN "absent" ELSE store[c]]
        /\ saved' = [c \in Commands |-> IF c \in old THEN "none" ELSE saved[c]]
    /\ bus' = {c \in bus : store[c] = "executing"}
    /\ \/ /\ loop # NoLoop
          /\ UNCHANGED <<loop, fetch>>
       \/ /\ \E l \in Loops : l # loop /\ Idle(l) /\ loop' = l
          /\ fetch' = NoPoll
    /\ UNCHANGED <<bridgeVars, up, backlog, cur, report, reply, processed, running,
                   posted, selfTest, histVars, count>>

\* Safari kills the event page.  Storage and requests already sent remain.
PageDies ==
    /\ up
    /\ Fault("crash")
    /\ up' = FALSE
    /\ loop' = NoLoop
    /\ fetch' = NoPoll
    /\ backlog' = [r \in Runners |-> {}]
    /\ cur' = [r \in Runners |-> 0]
    /\ wake' = "idle"
    /\ report' = NoReport
    /\ reply' = NoReply
    /\ UNCHANGED <<bridgeVars, entryVars, documentVars, posted, selfTest, histVars>>

\* A content script's keepalive message: the page posts the __keepalive__
\* sentinel to /result, which handleResult takes as a sign of life.
KeepAlivePing ==
    /\ up
    /\ HandleConnected
    /\ UNCHANGED extensionVars

-----------------------------------------------------------------------------
\* The daemon.

\* checkDisconnect: no HTTP request for 25 s from an extension thought connected.
CheckDisconnect ==
    /\ connected
    /\ Fault("disconnect")
    /\ HandleDisconnected
    /\ UNCHANGED <<pageVars, wakeVars, entryVars, documentVars, posted, selfTest, histVars>>

\* onReady: 200 ms after it starts serving, the daemon posts /connect to itself
\* with nothing to report and looks at the status of the answer only.
SelfTest ==
    /\ selfTest
    /\ selfTest' = FALSE
    /\ Connect({})
    /\ UNCHANGED <<pageVars, wakeVars, entryVars, documentVars, posted, histVars, count>>

DaemonRestart ==
    /\ Fault("crash")
    /\ Restart
    /\ selfTest' = TRUE
    /\ UNCHANGED <<pageVars, wakeVars, entryVars, documentVars, posted, histVars>>

\* Steps of the bridge the extension takes no part in.
BridgeStep ==
    /\ \/ HandleExecute
       \/ \E c \in Commands : CommandTimeout(c) \/ RecordExecuted(c)
       \/ \E p \in Polls : PollSuspend(p) \/ PollTimeout(p)
    /\ UNCHANGED extensionVars

-----------------------------------------------------------------------------

IPCNext ==
    \/ \E p \in Polls : LoopFetch(p) \/ KeepAlivePoll(p) \/ ResponseUnread(p)
    \/ LoopReceive \/ LoopRetry
    \/ \E r \in Runners : Begin(r) \/ BusTimeout(r) \/ ExecuteThrows(r)
    \/ \E c \in Commands :
        \/ ContentRun(c)
        \/ \E result \in {"value", "error"} :
            ContentReply(c, result) \/ PostArrives(c, result) \/ PostFails(c, result)
    \/ Navigate
    \/ WakeStart \/ WakeConnect \/ WakeReconcile \/ WakeConnectFails \/ WakeFinish
    \/ PageDies \/ KeepAlivePing
    \/ CheckDisconnect \/ SelfTest \/ DaemonRestart
    \/ BridgeStep

IPCSpec == IPCInit /\ [][IPCNext]_ipcVars

\* The timers of a wake: httpPost gives up after 10 s, a command's storage bus
\* after 30 s, and the awaits between them resolve while the page lives.
WakeFairness ==
    /\ WF_ipcVars(WakeConnectFails)
    /\ WF_ipcVars(Begin("wake"))
    /\ WF_ipcVars(BusTimeout("wake"))
    /\ WF_ipcVars(WakeFinish)

IPCFairSpec == IPCSpec /\ WakeFairness

-----------------------------------------------------------------------------
\* Properties.

\* A caller is told the page's value only if a document really ran the script,
\* however often the result was saved, lost and posted again.
ValueMeansExecuted ==
    \A c \in Commands : answer[c] = "value" \/ saved[c] = "value" => effects[c] > 0

\* A command is begun again only because the daemon declared the extension
\* gone: polls, pushes, keep-alives and superseded loops never repeat one.
ReplayBound == \A c \in Commands : starts[c] <= 1 + count["disconnect"]

\* A document runs a command at most once, however often it is delivered.
EffectBound == \A c \in Commands : effects[c] <= 1 + count["navigation"]

\* A completed result is forgotten only when its caller is answered.
CompletedKeptUntilAnswered ==
    [][\A c \in Commands :
        store[c] = "completed" /\ store'[c] = "absent" => answer[c] # "none"]_ipcVars

\* isWakeRunning is always released: no wake holds off the later ones for ever.
WakeLockReleased == wake # "idle" ~> wake = "idle"

\* handleReconcile's comment: pushNew holds commands the extension does not
\* know about.  A command it reported as executed is one it knows.
PushNewUnknown == reply.pushNew \cap (report.executed \cup report.executing) = {}
=============================================================================
