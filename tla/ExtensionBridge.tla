--------------------------- MODULE ExtensionBridge ---------------------------
(***************************************************************************)
(* The daemon's command queue between the MCP server's extension_execute   *)
(* calls and the browser extension's HTTP polls                            *)
(* (daemon/Sources/SafariPilotdCore/ExtensionBridge.swift).                *)
(*                                                                         *)
(* Every mutation of the bridge runs inside a queue.sync block, so each    *)
(* action below is one such block; a handler that takes the queue twice    *)
(* (handlePoll, handleResult) is two actions, and anything may run between *)
(* them.  A continuation is resumed right after the block that chose it:   *)
(* nothing else can reach it, so resuming belongs to the block's action.   *)
(*                                                                         *)
(* Command ids are unique; a command is named by its place in arrival      *)
(* order, so pendingCommands (appended at the tail, removed anywhere) is   *)
(* the set `pending' read in increasing order.                             *)
(***************************************************************************)
EXTENDS Naturals, Sequences, SequencesExt

CONSTANTS
    MaxCommands,    \* bound: extension_execute calls in a behaviour
    Polls           \* poll requests that can be in the daemon at a time

ASSUME BridgeAssumption == MaxCommands \in Nat

Commands == 1 .. MaxCommands

Answers == {"value", "error", "timeout", "dropped"}

VARIABLES
    connected,      \* _isConnected
    issued,         \* commands accepted by handleExecute so far
    pending,        \* ids in pendingCommands
    delivered,      \* those of them with delivered = true
    answer,         \* what the caller's continuation was resumed with
    recording,      \* answered by handleResult, not yet in executedLog
    executedLog,    \* executedLog, oldest entry first
    waiting,        \* waitingPolls
    phase,          \* where each poll request is
    batch,          \* the commands in the response of an answered poll
    handouts        \* history: hand-outs of a command since the last disconnect

queueVars == <<issued, pending, delivered, answer>>
logVars == <<recording, executedLog>>
pollVars == <<waiting, phase, batch>>
bridgeVars == <<connected, queueVars, logVars, pollVars, handouts>>

-----------------------------------------------------------------------------
\* State.

Undelivered == pending \ delivered

\* idle -> drained (found nothing, not yet in waitingPolls) -> waiting ->
\* answered; broken when the daemon died under the request.
Phases == {"idle", "drained", "waiting", "answered", "broken"}

TypeOK ==
    /\ connected \in BOOLEAN
    /\ issued \in 0 .. MaxCommands
    /\ pending \subseteq 1 .. issued
    /\ delivered \subseteq pending
    /\ answer \in [Commands -> Answers \cup {"none"}]
    /\ recording \subseteq Commands
    /\ executedLog \in Seq(Commands)
    /\ waiting \in Seq(Polls)
    /\ phase \in [Polls -> Phases]
    /\ batch \in [Polls -> SUBSET Commands]
    /\ handouts \in [Commands -> Nat]

Init ==
    /\ connected = FALSE
    /\ issued = 0
    /\ pending = {}
    /\ delivered = {}
    /\ answer = [c \in Commands |-> "none"]
    /\ recording = {}
    /\ executedLog = <<>>
    /\ waiting = <<>>
    /\ phase = [p \in Polls |-> "idle"]
    /\ batch = [p \in Polls |-> {}]
    /\ handouts = [c \in Commands |-> 0]

\* The commands of S leave the daemon inside a response.
HandOut(S) ==
    handouts' = [c \in Commands |-> IF c \in S THEN handouts[c] + 1 ELSE handouts[c]]

\* The continuation of poll p is resumed with the commands of S.
AnswerPoll(p, S) ==
    /\ phase' = [phase EXCEPT ![p] = "answered"]
    /\ batch' = [batch EXCEPT ![p] = S]

\* A caller's continuation is resumed and its command leaves the queue.
AnswerCaller(c, a) ==
    /\ pending' = pending \ {c}
    /\ delivered' = delivered \ {c}
    /\ answer' = [answer EXCEPT ![c] = a]

-----------------------------------------------------------------------------
\* Mutants: the ways the handlers below could plausibly have been written wrong.
\* No action uses them; they show which property notices which mistake.

\* The fast path answers the poll and forgets to queue the command.
HandleExecuteUnqueued ==
    LET c == issued + 1 IN
    /\ c \in Commands
    /\ issued' = c
    /\ \/ /\ waiting = <<>>
          /\ pending' = pending \cup {c}
          /\ UNCHANGED <<delivered, handouts, pollVars>>
       \/ /\ waiting # <<>>
          /\ delivered' = delivered \cup {c}
          /\ waiting' = Tail(waiting)
          /\ AnswerPoll(Head(waiting), {c})
          /\ HandOut({c})
          /\ UNCHANGED pending
    /\ UNCHANGED <<connected, answer, logVars>>

\* The timeout task resumes the caller and leaves the command queued.
CommandTimeoutKeepsEntry(c) ==
    /\ c \in pending
    /\ answer' = [answer EXCEPT ![c] = "timeout"]
    /\ UNCHANGED <<connected, issued, pending, delivered, logVars, pollVars, handouts>>

\* Only commands nobody has picked up time out.
CommandTimeoutUndelivered(c) ==
    /\ c \in Undelivered
    /\ AnswerCaller(c, "timeout")
    /\ UNCHANGED <<connected, issued, logVars, pollVars, handouts>>

\* The drain forgets the delivered flags.
PollDrainUnmarked(p, mayWait) ==
    /\ phase[p] = "idle"
    /\ IF Undelivered = {} /\ mayWait
       THEN /\ phase' = [phase EXCEPT ![p] = "drained"]
            /\ UNCHANGED <<batch, handouts>>
       ELSE AnswerPoll(p, Undelivered) /\ HandOut(Undelivered)
    /\ UNCHANGED <<connected, issued, pending, delivered, answer, logVars, waiting>>

\* The poll's timeout resumes it without taking it out of waitingPolls.
PollTimeoutKeepsEntry(p) ==
    /\ \E i \in 1 .. Len(waiting) : waiting[i] = p
    /\ AnswerPoll(p, {})
    /\ UNCHANGED <<connected, queueVars, logVars, waiting, handouts>>

\* A late result, whose command is gone, is recorded all the same.
HandleResultRecordsLate(c, verdict) ==
    /\ c <= issued /\ recording' = recording \cup {c}
    /\ IF c \in pending
       THEN AnswerCaller(c, verdict)
       ELSE UNCHANGED <<pending, delivered, answer>>
    /\ UNCHANGED <<connected, issued, executedLog, pollVars, handouts>>

\* The disconnect empties waitingPolls and resumes nobody.
HandleDisconnectedStrandsPolls ==
    /\ connected' = FALSE
    /\ delivered' = {}
    /\ waiting' = <<>>
    /\ handouts' = [c \in Commands |-> 0]
    /\ UNCHANGED <<issued, pending, answer, logVars, phase, batch>>

\* Reconcile acknowledges whatever the extension says it executed.
AckedUnchecked(executedIds, log) == executedIds

\* Reconcile pushes commands without looking at their delivered flag.
PushNewDelivered(pendingIds) == pending \ pendingIds

-----------------------------------------------------------------------------
\* handleExecute and its timeout task.

\* Queue the command; if a poll is suspended, the oldest one leaves with this
\* command alone.  A request without a script never gets here (INVALID_PARAMS).
HandleExecute ==
    LET c == issued + 1 IN
    /\ c \in Commands
    /\ issued' = c
    /\ pending' = pending \cup {c}
    /\ \/ /\ waiting = <<>>
          /\ UNCHANGED <<delivered, handouts, pollVars>>
       \/ /\ waiting # <<>>
          /\ delivered' = delivered \cup {c}
          /\ waiting' = Tail(waiting)
          /\ AnswerPoll(Head(waiting), {c})
          /\ HandOut({c})
    /\ UNCHANGED <<connected, answer, logVars>>

\* 90 s after it was queued, delivered or not, the command is given up.
CommandTimeout(c) ==
    /\ c \in pending
    /\ AnswerCaller(c, "timeout")
    /\ UNCHANGED <<connected, issued, logVars, pollVars, handouts>>

-----------------------------------------------------------------------------
\* handlePoll: drain, then (in a later block) suspend.

\* First block: take everything undelivered.  An empty-handed poll returns at
\* once when its waitTimeout is 0 (extension_poll over TCP) and otherwise goes
\* on to suspend (GET /poll, 5 s).
PollDrain(p, mayWait) ==
    /\ phase[p] = "idle"
    /\ IF Undelivered = {} /\ mayWait
       THEN /\ phase' = [phase EXCEPT ![p] = "drained"]
            /\ UNCHANGED <<delivered, batch, handouts>>
       ELSE /\ AnswerPoll(p, Undelivered)
            /\ HandOut(Undelivered)
            /\ delivered' = pending
    /\ UNCHANGED <<connected, issued, pending, answer, logVars, waiting>>

\* Second block: the poll joins waitingPolls, whatever was queued meanwhile.
PollSuspend(p) ==
    /\ phase[p] = "drained"
    /\ phase' = [phase EXCEPT ![p] = "waiting"]
    /\ waiting' = Append(waiting, p)
    /\ UNCHANGED <<connected, queueVars, logVars, batch, handouts>>

\* The suspended poll's timeout finds it still in waitingPolls.
PollTimeout(p) ==
    /\ \E i \in 1 .. Len(waiting) :
        /\ waiting[i] = p
        /\ waiting' = RemoveAt(waiting, i)
    /\ AnswerPoll(p, {})
    /\ UNCHANGED <<connected, queueVars, logVars, handouts>>

\* The client has its response, or the error of a broken connection.
PollReturn(p) ==
    /\ phase[p] \in {"answered", "broken"}
    /\ phase' = [phase EXCEPT ![p] = "idle"]
    /\ batch' = [batch EXCEPT ![p] = {}]
    /\ UNCHANGED <<connected, queueVars, logVars, waiting, handouts>>

-----------------------------------------------------------------------------
\* handleResult.

\* First block: the command is taken out of the queue and its caller resumed
\* with the page's value or error.  A result for a command that is no longer
\* pending is acknowledged and changes nothing: it is not even recorded.
HandleResult(c, verdict) ==
    /\ c \in pending
    /\ AnswerCaller(c, verdict)
    /\ recording' = recording \cup {c}
    /\ UNCHANGED <<connected, issued, executedLog, pollVars, handouts>>

\* pruneExpiredEntries: entries older than 5 min are dropped.  They are in time
\* order, so the n dropped ones are the oldest; n depends on the clock only.
PruneExpiredEntries(n) == SubSeq(executedLog, n + 1, Len(executedLog))

\* Second block: prune, then enter the command in the executed log.
RecordExecuted(c) ==
    /\ c \in recording
    /\ recording' = recording \ {c}
    /\ \E n \in 0 .. Len(executedLog) :
        executedLog' = Append(PruneExpiredEntries(n), c)
    /\ UNCHANGED <<connected, queueVars, pollVars, handouts>>

-----------------------------------------------------------------------------
\* Connection state and reconciliation.

\* extension_connected, and the __keepalive__ sentinel of handleResult.
HandleConnected ==
    /\ connected' = TRUE
    /\ UNCHANGED <<queueVars, logVars, pollVars, handouts>>

\* Delivered commands become undelivered again; suspended polls return empty.
HandleDisconnected ==
    /\ connected' = FALSE
    /\ delivered' = {}
    /\ waiting' = <<>>
    /\ phase' = [p \in Polls |-> IF phase[p] = "waiting" THEN "answered" ELSE phase[p]]
    /\ handouts' = [c \in Commands |-> 0]
    /\ UNCHANGED <<issued, pending, answer, logVars, batch>>

\* The five classes of handleReconcile, for what the extension reports and the
\* log left after pruning.
Acked(executedIds, log) == executedIds \cap ToSet(log)
Uncertain(executedIds, log) == executedIds \ ToSet(log)
ReQueued(pendingIds) == pendingIds \cap Undelivered
InFlight(pendingIds) == pendingIds \cap delivered
PushNew(pendingIds) == Undelivered \ pendingIds

\* handleReconcile: the log is pruned and the pushed commands leave with the
\* response; nothing else of the queue changes.
ReconcilePush(pendingIds) ==
    /\ \E n \in 0 .. Len(executedLog) : executedLog' = PruneExpiredEntries(n)
    /\ delivered' = delivered \cup PushNew(pendingIds)
    /\ HandOut(PushNew(pendingIds))
    /\ UNCHANGED <<issued, pending, answer, recording, pollVars>>

\* POST /connect: handleConnected, then handleReconcile.
Connect(pendingIds) ==
    /\ connected' = TRUE
    /\ ReconcilePush(pendingIds)

\* extension_reconcile over TCP: no change of the connection state.
Reconcile(pendingIds) ==
    /\ connected' = connected
    /\ ReconcilePush(pendingIds)

\* healthSnapshot, and the debug status that reads executedLogSize.
HealthSnapshot ==
    /\ \E n \in 0 .. Len(executedLog) : executedLog' = PruneExpiredEntries(n)
    /\ UNCHANGED <<connected, queueVars, recording, pollVars, handouts>>

\* The daemon process exits and launchd starts a new one: the queue and the log
\* live in memory only.  Callers and polls see their connections break.
Restart ==
    /\ connected' = FALSE
    /\ pending' = {}
    /\ delivered' = {}
    /\ answer' = [c \in Commands |-> IF c \in pending THEN "dropped" ELSE answer[c]]
    /\ recording' = {}
    /\ executedLog' = <<>>
    /\ waiting' = <<>>
    /\ phase' = [p \in Polls |-> IF phase[p] = "idle" THEN "idle" ELSE "broken"]
    /\ batch' = [p \in Polls |-> {}]
    /\ handouts' = [c \in Commands |-> 0]
    /\ UNCHANGED issued

-----------------------------------------------------------------------------

Next ==
    \/ HandleExecute
    \/ \E c \in Commands :
        \/ CommandTimeout(c)
        \/ \E verdict \in {"value", "error"} : HandleResult(c, verdict)
        \/ RecordExecuted(c)
    \/ \E p \in Polls :
        \/ \E mayWait \in BOOLEAN : PollDrain(p, mayWait)
        \/ PollSuspend(p)
        \/ PollTimeout(p)
        \/ PollReturn(p)
    \/ HandleConnected
    \/ HandleDisconnected
    \/ \E ids \in SUBSET (1 .. issued) : Connect(ids) \/ Reconcile(ids)
    \/ HealthSnapshot
    \/ Restart

\* The timers of the daemon fire: the command timeout task and the poll timeout
\* task are Swift Tasks of their own, and handleResult runs to its end.
Fairness ==
    /\ \A c \in Commands : WF_bridgeVars(CommandTimeout(c)) /\ WF_bridgeVars(RecordExecuted(c))
    /\ \A p \in Polls : WF_bridgeVars(PollSuspend(p)) /\ WF_bridgeVars(PollTimeout(p))

Spec == Init /\ [][Next]_bridgeVars

FairSpec == Spec /\ Fairness

-----------------------------------------------------------------------------
\* Properties.

\* Every accepted command is either in the queue with its caller suspended, or
\* its caller was resumed: no continuation is leaked and none is resumed while
\* the command can still be resumed again (CheckedContinuation traps on that).
CallerConservation ==
    \A c \in Commands :
        /\ c \in pending <=> c <= issued /\ answer[c] = "none"
        /\ c > issued => answer[c] = "none"

\* A poll is suspended exactly when it is in waitingPolls, once: the fast path,
\* the poll timeout and the disconnect never resume the same continuation twice.
PollConservation ==
    /\ \A p \in Polls : phase[p] = "waiting" <=> \E i \in 1 .. Len(waiting) : waiting[i] = p
    /\ \A i, j \in 1 .. Len(waiting) : waiting[i] = waiting[j] => i = j

\* Between two disconnects a command is handed to the extension at most once,
\* and the delivered flag is true exactly of the pending commands that were:
\* nothing is marked delivered without having left in a response.
HandedOutOnce ==
    /\ \A c \in Commands : handouts[c] \in {0, 1} /\ (c > issued => handouts[c] = 0)
    /\ delivered = {c \in pending : handouts[c] = 1}

\* The executed log (what reconcile acknowledges) names only commands whose
\* caller was resumed with the extension's own result, each once: a timed out or
\* dropped command is never acknowledged as processed.
LogMeansResult ==
    /\ \A i \in 1 .. Len(executedLog) :
        /\ answer[executedLog[i]] \in {"value", "error"}
        /\ executedLog[i] \notin recording
    /\ \A i, j \in 1 .. Len(executedLog) : executedLog[i] = executedLog[j] => i = j
    /\ \A c \in recording : answer[c] \in {"value", "error"}

\* A suspended poll is resumed: no client waits on GET /poll for ever.
PollAnswered == \A p \in Polls : phase[p] = "waiting" ~> phase[p] # "waiting"

\* What a caller sees of its call.
CallOf(c) ==
    IF c > issued THEN "unissued" ELSE IF answer[c] = "none" THEN "open" ELSE answer[c]

\* The promise of CommandExchange: every call is answered, once and for good.
Exchange == INSTANCE CommandExchange WITH call <- [c \in Commands |-> CallOf(c)]

CallsAnsweredOnce == Exchange!Spec
=============================================================================
