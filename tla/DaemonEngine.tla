---------------------------- MODULE DaemonEngine ----------------------------
(***************************************************************************)
(* The MCP server's client of the daemon (src/engines/daemon.ts), the      *)
(* ExtensionEngine that sends its commands through it, and the two front   *)
(* doors of the daemon: the TCP server, one task per connection            *)
(* (ExtensionSocketServer.swift), and the loop over stdin, one line after  *)
(* another (CommandDispatcher.swift).                                      *)
(*                                                                         *)
(* A command first makes sure there is a daemon: up to three probes of the *)
(* TCP port, then a child process.  Then it is sent, on a connection of    *)
(* its own or as a line to the child, and waits for an answer, an error or *)
(* its timer.  An action is the code between two awaits, or one event.     *)
(***************************************************************************)
EXTENDS Naturals, Sequences, SequencesExt

CONSTANTS
    Calls,      \* commands sent through the engine, by any tool
    Traces,     \* trace ids the pipeline leaves in the engine's slot
    Slots,      \* the child processes that may exist at a time
    Agent,      \* the daemon launchd runs
    None,
    Big,        \* commands of more than 4 MB (a staged file)
    Bound,      \* bound: how often a daemon or its connections die
    SilentCuts  \* may a peer's death close a connection without an error

ASSUME DaemonEngineAssumption ==
    /\ Big \subseteq Calls /\ Bound \in Nat /\ SilentCuts \in BOOLEAN
    /\ Calls \cap Traces = {}
    /\ Agent \notin Slots
    /\ None \notin Calls \cup Traces \cup Slots \cup {Agent}

Probes == 3

\* A command's id is the trace id in the slot, or one of its own (nextId).
Ids == Calls \cup Traces

VARIABLES
    useTcp, proc, shuttingDown, traceId,    \* the fields of the engine
    pending,    \* the request map: id -> the command waiting for it
    unused,     \* trace ids not yet put into the slot
    stage,      \* where each command is
    probe,      \* the probe it is at
    ident,      \* the id it was sent with, on stdin
    sock,       \* its connection
    outcome,    \* how it ended
    child,      \* per slot: life, stdin, the command being served, stdout
    owner,      \* who listens on the TCP port
    deaths,     \* how many deaths so far
    ran         \* history: commands a daemon has carried out

engineVars == <<useTcp, proc, shuttingDown, traceId, pending>>
callVars == <<stage, probe, ident, sock, outcome>>
daemonVars == <<child, owner, deaths, ran>>
vars == <<engineVars, unused, callVars, daemonVars>>

NoChild == [life |-> "none", stdin |-> <<>>, serving |-> None, stdout |-> <<>>]

Line == [id : Ids, call : Calls]

TypeOK ==
    /\ useTcp \in BOOLEAN /\ shuttingDown \in BOOLEAN
    /\ proc \in Slots \cup {None}
    /\ traceId \in Traces \cup {None}
    /\ unused \subseteq Traces
    /\ pending \in [Ids -> Calls \cup {None}]
    /\ stage \in [Calls -> {"idle", "probing", "ready", "stdio", "tcp", "done"}]
    /\ probe \in [Calls -> 0 .. Probes]
    /\ ident \in [Calls -> Ids]
    /\ sock \in [Calls -> {"none", "connecting", "open", "answered", "reset", "closed"}]
    /\ outcome \in [Calls -> {"none", "own", "other", "refused", "failed", "timeout"}]
    /\ child \in [Slots -> [life : {"none", "starting", "running", "exited"}, stdin : Seq(Line),
                            serving : Line \cup {None}, stdout : Seq(Line)]]
    /\ owner \in Slots \cup {None, Agent}
    /\ deaths \in 0 .. Bound
    /\ ran \in SUBSET Calls

Init ==
    /\ useTcp = FALSE /\ shuttingDown = FALSE
    /\ proc = None
    /\ traceId = None /\ unused = Traces
    /\ pending = [i \in Ids |-> None]
    /\ stage = [c \in Calls |-> "idle"]
    /\ probe = [c \in Calls |-> 0]
    /\ ident = [c \in Calls |-> c]
    /\ sock = [c \in Calls |-> "none"]
    /\ outcome = [c \in Calls |-> "none"]
    /\ child = [k \in Slots |-> NoChild]
    /\ owner \in {None, Agent}
    /\ deaths = 0
    /\ ran = {}

-----------------------------------------------------------------------------
\* How a promise is settled.

\* The commands in C end with outcome o; a promise ignores a second settling.
Settle(C, o) ==
    /\ stage' = [c \in Calls |-> IF c \in C THEN "done" ELSE stage[c]]
    /\ outcome' = [c \in Calls |-> IF c \in C THEN o ELSE outcome[c]]
    /\ sock' = [c \in Calls |-> IF c \in C THEN "none" ELSE sock[c]]
    /\ UNCHANGED <<probe, ident>>

Waiters == {pending[i] : i \in Ids} \ {None}

RejectAllPending ==
    /\ Settle(Waiters, "failed")
    /\ pending' = [i \in Ids |-> None]

-----------------------------------------------------------------------------
\* ensureRunning.

SetTraceId(t) ==
    /\ t \in unused
    /\ traceId' = t
    /\ unused' = unused \ {t}
    /\ UNCHANGED <<useTcp, proc, shuttingDown, pending, callVars, daemonVars>>

\* proc.killed is only set by shutdown, which clears proc in the same step.
Begin(c) ==
    /\ stage[c] = "idle"
    /\ IF useTcp \/ proc # None
       THEN /\ stage' = [stage EXCEPT ![c] = "ready"]
            /\ UNCHANGED <<probe, sock>>
       ELSE /\ stage' = [stage EXCEPT ![c] = "probing"]
            /\ probe' = [probe EXCEPT ![c] = 1]
            /\ sock' = [sock EXCEPT ![c] = "connecting"]
    /\ UNCHANGED <<engineVars, unused, ident, outcome, daemonVars>>

\* The connection of a probe or of a command is accepted.
Connect(c) ==
    /\ sock[c] = "connecting"
    /\ owner # None
    /\ sock' = [sock EXCEPT ![c] = "open"]
    /\ UNCHANGED <<engineVars, unused, stage, probe, ident, outcome, daemonVars>>

ProbeAnswered(c) ==
    /\ stage[c] = "probing" /\ sock[c] = "open"
    /\ useTcp' = TRUE
    /\ stage' = [stage EXCEPT ![c] = "ready"]
    /\ sock' = [sock EXCEPT ![c] = "none"]
    /\ UNCHANGED <<proc, shuttingDown, traceId, pending, unused, probe, ident, outcome, daemonVars>>

Spawned(k) == [child EXCEPT ![k] = [NoChild EXCEPT !.life = "starting"]]

\* Mutant: a fourth probe.
LastProbeOffByOne(c) == probe[c] > Probes

LastProbe(c) == probe[c] >= Probes

\* Mutant: the probe's timer is not set.
ProbeOverUntimed(c) == sock[c] \in {"connecting", "reset"}

\* A probe is over: refused, reset, or after its 200, 500 or 1000 ms.  The
\* socket's timer dies with the socket, so a connection the peer has closed
\* without a word (sock = "closed") raises no event at all.
ProbeOver(c) == sock[c] \in {"connecting", "open", "reset"}

\* Mutant: proc is not looked at again after the probes.
NeedsChildUnchecked == TRUE

NeedsChild == proc = None

\* After the third probe a child is spawned, unless another command did that.
ProbeFails(c) ==
    /\ stage[c] = "probing" /\ ProbeOver(c)
    /\ IF LastProbe(c)
       THEN /\ stage' = [stage EXCEPT ![c] = "ready"]
            /\ sock' = [sock EXCEPT ![c] = "none"]
            /\ UNCHANGED probe
            /\ IF NeedsChild
               THEN \E k \in Slots :
                        /\ child[k].life = "none"
                        /\ proc' = k
                        /\ child' = Spawned(k)
               ELSE UNCHANGED <<proc, child>>
       ELSE /\ probe' = [probe EXCEPT ![c] = @ + 1]
            /\ sock' = [sock EXCEPT ![c] = "connecting"]
            /\ UNCHANGED <<stage, proc, child>>
    /\ UNCHANGED <<useTcp, shuttingDown, traceId, pending, unused, ident, outcome, owner, deaths, ran>>

-----------------------------------------------------------------------------
\* sendCommand and sendCommandViaTcp.

\* The first command to be sent takes the slot, whoever filled it.
IdOf(c) == IF traceId = None THEN c ELSE traceId

\* stdin is writable from the spawn until the exit event; what is written to a
\* child that is already dead is lost.
Writable == proc # None /\ child[proc].life # "none"

Send(c) ==
    /\ stage[c] = "ready"
    /\ traceId' = None
    /\ IF useTcp
       THEN /\ stage' = [stage EXCEPT ![c] = "tcp"]
            /\ sock' = [sock EXCEPT ![c] = "connecting"]
            /\ UNCHANGED <<pending, probe, ident, outcome, child>>
       ELSE IF Writable
       THEN /\ pending' = [pending EXCEPT ![IdOf(c)] = c]
            /\ ident' = [ident EXCEPT ![c] = IdOf(c)]
            /\ stage' = [stage EXCEPT ![c] = "stdio"]
            /\ child' = [child EXCEPT ![proc].stdin = Append(@, [id |-> IdOf(c), call |-> c])]
            /\ UNCHANGED <<probe, sock, outcome>>
       ELSE /\ pending' = [pending EXCEPT ![IdOf(c)] = None]
            /\ Settle({c}, "failed")
            /\ UNCHANGED child
    /\ UNCHANGED <<useTcp, proc, shuttingDown, unused, owner, deaths, ran>>

\* Mutant: the timer leaves its entry in the map.
StdioTimeoutKeepsEntry(c) ==
    /\ stage[c] = "stdio"
    /\ Settle({c}, "timeout")
    /\ UNCHANGED <<engineVars, unused, daemonVars>>

\* The timer of a command on stdin deletes the entry of its id.
StdioTimeout(c) ==
    /\ stage[c] = "stdio"
    /\ pending' = [pending EXCEPT ![ident[c]] = None]
    /\ Settle({c}, "timeout")
    /\ UNCHANGED <<useTcp, proc, shuttingDown, traceId, unused, daemonVars>>

\* The timer of a command on TCP runs until data or an error arrives.
TcpTimeout(c) ==
    /\ stage[c] = "tcp"
    /\ useTcp' = FALSE
    /\ Settle({c}, "timeout")
    /\ UNCHANGED <<proc, shuttingDown, traceId, pending, unused, daemonVars>>

\* An error event of the socket: refused, or reset by the peer.
TcpError(c) ==
    /\ stage[c] = "tcp"
    /\ \/ sock[c] = "connecting" /\ owner = None
       \/ sock[c] = "reset"
    /\ useTcp' = FALSE
    /\ Settle({c}, "failed")
    /\ UNCHANGED <<proc, shuttingDown, traceId, pending, unused, daemonVars>>

TcpData(c) ==
    /\ stage[c] = "tcp" /\ sock[c] = "answered"
    /\ Settle({c}, IF c \in Big THEN "refused" ELSE "own")
    /\ UNCHANGED <<engineVars, unused, daemonVars>>

\* Mutant: answers are matched in the order of the requests, not by id.
DispatchResponseInOrder(k) ==
    /\ child[k].stdout # <<>>
    /\ child' = [child EXCEPT ![k].stdout = Tail(@)]
    /\ IF Waiters = {}
       THEN UNCHANGED <<callVars, pending>>
       ELSE \E i \in Ids :
                /\ pending[i] # None
                /\ pending' = [pending EXCEPT ![i] = None]
                /\ Settle({pending[i]}, IF Head(child[k].stdout).call = pending[i] THEN "own" ELSE "other")
    /\ UNCHANGED <<useTcp, proc, shuttingDown, traceId, unused, owner, deaths, ran>>

\* _dispatchResponse: a line of the child's stdout, in order.
DispatchResponse(k) ==
    /\ child[k].stdout # <<>>
    /\ child' = [child EXCEPT ![k].stdout = Tail(@)]
    /\ LET line == Head(child[k].stdout)
           c == pending[line.id] IN
       IF c = None
       THEN UNCHANGED <<callVars, pending>>
       ELSE /\ pending' = [pending EXCEPT ![line.id] = None]
            /\ Settle({c}, IF line.call = c THEN "own" ELSE "other")
    /\ UNCHANGED <<useTcp, proc, shuttingDown, traceId, unused, owner, deaths, ran>>

-----------------------------------------------------------------------------
\* The daemon.

\* One connection, one line, one task: answers come in any order.  A line of
\* more than 4 MB is refused before it is read to its end, and closing on
\* unread data may reset the connection under the refusal.
TcpServe(c) ==
    /\ stage[c] = "tcp" /\ sock[c] = "open"
    /\ IF c \in Big
       THEN /\ \E s \in {"answered", "reset"} : sock' = [sock EXCEPT ![c] = s]
            /\ UNCHANGED ran
       ELSE /\ sock' = [sock EXCEPT ![c] = "answered"]
            /\ ran' = ran \cup {c}
    /\ UNCHANGED <<engineVars, unused, stage, probe, ident, outcome, child, owner, deaths>>

\* The loop over stdin awaits each answer before it reads the next line.
ChildTakes(k) ==
    /\ child[k].life = "running" /\ child[k].serving = None /\ child[k].stdin # <<>>
    /\ child' = [child EXCEPT ![k].stdin = Tail(@), ![k].serving = Head(child[k].stdin)]
    /\ ran' = ran \cup {Head(child[k].stdin).call}
    /\ UNCHANGED <<engineVars, unused, callVars, owner, deaths>>

ChildAnswers(k) ==
    /\ child[k].life = "running" /\ child[k].serving # None
    /\ child' = [child EXCEPT ![k].serving = None, ![k].stdout = Append(@, child[k].serving)]
    /\ UNCHANGED <<engineVars, unused, callVars, owner, deaths, ran>>

\* A started child listens too, if the port is free; a child that finds it taken
\* does not own it and will exit, sooner or later.
ChildStarts(k) ==
    /\ child[k].life = "starting"
    /\ child' = [child EXCEPT ![k].life = "running"]
    /\ owner' = IF owner = None THEN k ELSE owner
    /\ UNCHANGED <<engineVars, unused, callVars, deaths, ran>>

AgentStarts ==
    /\ owner = None
    /\ deaths < Bound
    /\ owner' = Agent
    /\ UNCHANGED <<engineVars, unused, callVars, child, deaths, ran>>

\* Every connection to the port breaks: the peer sees an error, or only the end.
Break ==
    \E how \in [Calls -> {"reset"} \cup (IF SilentCuts THEN {"closed"} ELSE {})] :
        sock' = [c \in Calls |-> IF sock[c] = "open" THEN how[c] ELSE sock[c]]

AgentDies ==
    /\ owner = Agent
    /\ deaths < Bound
    /\ deaths' = deaths + 1
    /\ owner' = None
    /\ Break
    /\ UNCHANGED <<engineVars, unused, stage, probe, ident, outcome, child, ran>>

Dead(k) == [child[k] EXCEPT !.life = "exited", !.stdin = <<>>, !.serving = None]

ChildDies(k) ==
    /\ child[k].life \in {"starting", "running"}
    /\ owner \in {k, None} => deaths < Bound
    /\ deaths' = IF owner \in {k, None} THEN deaths + 1 ELSE deaths
    /\ child' = [child EXCEPT ![k] = Dead(k)]
    /\ IF owner = k THEN owner' = None /\ Break ELSE UNCHANGED <<owner, sock>>
    /\ UNCHANGED <<engineVars, unused, stage, probe, ident, outcome, ran>>

\* The exit event: what is left in stdout reaches nobody who waits for it.
ChildExit(k) ==
    /\ child[k].life = "exited"
    /\ child' = [child EXCEPT ![k] = NoChild]
    /\ IF shuttingDown
       THEN UNCHANGED <<proc, pending, callVars>>
       ELSE RejectAllPending /\ proc' = None
    /\ UNCHANGED <<useTcp, shuttingDown, traceId, unused, owner, deaths, ran>>

\* shutdown: on TCP it forgets the mode and nothing else.  The line it writes
\* to a child has no id, so only the signal stops it.
Shutdown ==
    /\ ~shuttingDown \/ useTcp \/ proc # None
    /\ shuttingDown' = TRUE
    /\ IF useTcp
       THEN /\ useTcp' = FALSE
            /\ UNCHANGED <<proc, pending, callVars, child, owner>>
       ELSE /\ stage' = [c \in Calls |-> IF c \in Waiters THEN "done" ELSE stage[c]]
            /\ outcome' = [c \in Calls |-> IF c \in Waiters THEN "failed" ELSE outcome[c]]
            /\ pending' = [i \in Ids |-> None]
            /\ proc' = None
            /\ IF proc # None /\ child[proc].life \in {"starting", "running"}
               THEN /\ child' = [child EXCEPT ![proc] = Dead(proc)]
                    /\ IF owner = proc THEN owner' = None /\ Break ELSE UNCHANGED <<owner, sock>>
               ELSE UNCHANGED <<child, owner, sock>>
            /\ UNCHANGED <<useTcp, probe, ident>>
    /\ UNCHANGED <<traceId, unused, deaths, ran>>

-----------------------------------------------------------------------------
\* The specification.

ClientStep(c) ==
    \/ Begin(c) \/ ProbeAnswered(c) \/ ProbeFails(c) \/ Send(c)
    \/ StdioTimeout(c) \/ TcpTimeout(c) \/ TcpError(c) \/ TcpData(c)

ChildStep(k) ==
    \/ DispatchResponse(k) \/ ChildExit(k)
    \/ ChildTakes(k) \/ ChildAnswers(k) \/ ChildStarts(k) \/ ChildDies(k)

Next ==
    \/ \E t \in Traces : SetTraceId(t)
    \/ \E c \in Calls : ClientStep(c) \/ Connect(c) \/ TcpServe(c)
    \/ \E k \in Slots : ChildStep(k)
    \/ AgentStarts \/ AgentDies \/ Shutdown

Spec == Init /\ [][Next]_vars

\* Timers fire and events of the engine's own process are delivered; nothing is
\* assumed of any daemon.
Fairness ==
    /\ \A c \in Calls :
        /\ WF_vars(ProbeFails(c)) /\ WF_vars(Send(c))
        /\ WF_vars(StdioTimeout(c)) /\ WF_vars(TcpTimeout(c))
    /\ \A k \in Slots : WF_vars(ChildExit(k))

FairSpec == Spec /\ Fairness

-----------------------------------------------------------------------------
\* Properties.

\* The request map holds exactly the commands that wait on stdin, each under
\* one id: an entry left behind would never be removed, and a command missing
\* from it could not be answered or rejected (daemon.ts:398-420, 482-516).
PendingMatches ==
    /\ {c \in Calls : stage[c] = "stdio"} = Waiters
    /\ \A i, j \in Ids : pending[i] # None /\ pending[i] = pending[j] => i = j

\* However many commands find no daemon at once, one child is spawned: a second
\* one would find the ports taken.  Only a child that was told to stop may still
\* be dying when the next one starts (daemon.ts:294-296).
OneChild ==
    \A k, l \in Slots :
        child[k].life \in {"starting", "running"} /\ child[l].life \in {"starting", "running"} => k = l

RequestOf(c) ==
    CASE stage[c] = "idle" -> "none"
      [] stage[c] = "done" -> IF outcome[c] \in {"own", "other"} THEN outcome[c] ELSE "failed"
      [] OTHER -> "open"

\* The engine keeps RequestReply's promise: no command is carried out twice, and
\* none gets another one's answer, by whatever way its request goes.
Requests == INSTANCE RequestReply WITH request <- [c \in Calls |-> RequestOf(c)]

KeepsPromise == Requests!SafeSpec

\* Every command that was begun ends, although no daemon ever answers.
CallSettles == \A c \in Calls : stage[c] # "idle" ~> stage[c] = "done"

\* ensureRunning's comment: the three probes take at most 1.7 s before a local
\* daemon is spawned.
ProbesEnd == \A c \in Calls : stage[c] = "probing" ~> stage[c] # "probing"
=============================================================================
