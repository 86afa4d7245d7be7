-------------------------- MODULE DaemonEngineProofs --------------------------
(***************************************************************************)
(* The daemon's client, for any commands, trace ids and child processes:   *)
(* its request map, its one child, and the promise of RequestReply.        *)
(***************************************************************************)
EXTENDS DaemonEngine, SequenceTheorems, TLAPS

-----------------------------------------------------------------------------
\* The inductive invariant.

\* A child that runs is the engine's own, and before a shutdown there is no other.
ChildOfProc ==
    /\ \A k \in Slots : child[k].life \in {"starting", "running"} => proc = k
    /\ ~shuttingDown => \A k \in Slots : child[k].life # "none" => proc = k

\* A trace id leaves the slot once, so that no two commands share an id.
IdsUnique ==
    /\ traceId \notin unused
    /\ \A c \in Calls : ident[c] = c \/ (ident[c] \in Traces \ unused /\ ident[c] # traceId)
    /\ \A c, d \in Calls : ident[c] = ident[d] => c = d

EntriesMatch ==
    /\ \A i \in Ids : pending[i] # None => stage[pending[i]] = "stdio" /\ ident[pending[i]] = i
    /\ \A c \in Calls : stage[c] = "stdio" => pending[ident[c]] = c

SentLine(line) == line.id = ident[line.call] /\ stage[line.call] \in {"stdio", "done"}

\* What is on its way to a child has not been carried out, and what comes from
\* it has.
LinesSent ==
    \A k \in Slots :
        /\ \A i \in 1..Len(child[k].stdin) :
                SentLine(child[k].stdin[i]) /\ child[k].stdin[i].call \notin ran
        /\ child[k].serving # None => SentLine(child[k].serving) /\ child[k].serving.call \in ran
        /\ \A i \in 1..Len(child[k].stdout) :
                SentLine(child[k].stdout[i]) /\ child[k].stdout[i].call \in ran

QueuedOnce ==
    \A k, l \in Slots : \A i \in 1..Len(child[k].stdin), j \in 1..Len(child[l].stdin) :
        child[k].stdin[i].call = child[l].stdin[j].call => k = l /\ i = j

RanOnce ==
    \A c \in Calls :
        /\ c \in ran => stage[c] \in {"stdio", "tcp", "done"}
        /\ stage[c] = "tcp" => (c \in ran <=> sock[c] = "answered" /\ c \notin Big)

NeverAnothers == \A c \in Calls : outcome[c] # "other"

EngineInv ==
    /\ TypeOK /\ ChildOfProc /\ IdsUnique /\ EntriesMatch
    /\ LinesSent /\ QueuedOnce /\ RanOnce /\ NeverAnothers

-----------------------------------------------------------------------------
\* Types.

Children ==
    [life : {"none", "starting", "running", "exited"}, stdin : Seq(Line),
     serving : Line \cup {None}, stdout : Seq(Line)]

LEMMA EngineTypeInit == Init => TypeOK
<1> SUFFICES ASSUME Init PROVE TypeOK
    OBVIOUS
<1> USE DaemonEngineAssumption DEF Init
<1>1. child \in [Slots -> Children]
    BY DEF NoChild, Children
<1>2. pending \in [Ids -> Calls \cup {None}] /\ ident \in [Calls -> Ids]
    BY DEF Ids
<1>3. /\ stage \in [Calls -> {"idle", "probing", "ready", "stdio", "tcp", "done"}]
      /\ probe \in [Calls -> 0 .. Probes]
      /\ sock \in [Calls -> {"none", "connecting", "open", "answered", "reset", "closed"}]
      /\ outcome \in [Calls -> {"none", "own", "other", "refused", "failed", "timeout"}]
    BY DEF Probes
<1>4. owner \in Slots \cup {None, Agent} /\ deaths \in 0 .. Bound /\ ran \in SUBSET Calls
    OBVIOUS
<1>5. /\ useTcp \in BOOLEAN /\ shuttingDown \in BOOLEAN /\ proc \in Slots \cup {None}
      /\ traceId \in Traces \cup {None} /\ unused \subseteq Traces
    OBVIOUS
<1>. HIDE DEF Init
<1>. QED  BY <1>1, <1>2, <1>3, <1>4, <1>5 DEF TypeOK, Children

LEMMA NewChildTypes == [NoChild EXCEPT !.life = "starting"] \in Children
<1>1. <<>> \in Seq(Line)
    BY EmptySeq
<1>2. [NoChild EXCEPT !.life = "starting"]
        = [life |-> "starting", stdin |-> <<>>, serving |-> None, stdout |-> <<>>]
    BY DEF NoChild
<1>. QED  BY <1>1, <1>2 DEF Children

LEMMA DeadTypes == ASSUME TypeOK, NEW k \in Slots PROVE Dead(k) \in Children
<1>1. <<>> \in Seq(Line)
    BY EmptySeq
<1>2. child[k] \in Children
    BY DEF TypeOK, Children
<1>. QED  BY <1>1, <1>2 DEF Dead, Children

LEMMA SettleTypes ==
    ASSUME TypeOK, NEW C \in SUBSET Calls, NEW o \in {"own", "other", "refused", "failed", "timeout"},
           Settle(C, o)
    PROVE  /\ stage' \in [Calls -> {"idle", "probing", "ready", "stdio", "tcp", "done"}]
           /\ outcome' \in [Calls -> {"none", "own", "other", "refused", "failed", "timeout"}]
           /\ sock' \in [Calls -> {"none", "connecting", "open", "answered", "reset", "closed"}]
           /\ probe' \in [Calls -> 0 .. Probes] /\ ident' \in [Calls -> Ids]
    BY DEF Settle, TypeOK

LEMMA BreakTypes ==
    ASSUME TypeOK, Break
    PROVE  sock' \in [Calls -> {"none", "connecting", "open", "answered", "reset", "closed"}]
    BY DEF Break, TypeOK

\* The steps of one command that leave the children alone.
LEMMA CallTypes ==
    ASSUME TypeOK, NEW c \in Calls,
           \/ Begin(c) \/ Connect(c) \/ ProbeAnswered(c) \/ StdioTimeout(c)
           \/ TcpTimeout(c) \/ TcpError(c) \/ TcpData(c) \/ TcpServe(c)
    PROVE  TypeOK'
<1> USE DEF engineVars, callVars, daemonVars
<1>1. CASE Begin(c)
    <2>1. /\ stage' \in [Calls -> {"idle", "probing", "ready", "stdio", "tcp", "done"}]
          /\ sock' \in [Calls -> {"none", "connecting", "open", "answered", "reset", "closed"}]
        BY <1>1 DEF Begin, TypeOK
    <2>2. probe' \in [Calls -> 0 .. Probes]
        BY <1>1 DEF Begin, TypeOK, Probes
    <2>. QED  BY <1>1, <2>1, <2>2 DEF Begin, TypeOK
<1>2. CASE Connect(c) \/ ProbeAnswered(c)
    BY <1>2 DEF Connect, ProbeAnswered, TypeOK
<1>3. CASE StdioTimeout(c)
    <2>1. pending' \in [Ids -> Calls \cup {None}]
        BY <1>3 DEF StdioTimeout, TypeOK
    <2>. QED  BY <1>3, <2>1, SettleTypes DEF StdioTimeout, TypeOK
<1>4. CASE TcpTimeout(c) \/ TcpError(c) \/ TcpData(c)
    <2>1. useTcp' \in BOOLEAN /\ UNCHANGED <<proc, shuttingDown, traceId, pending, unused, daemonVars>>
        BY <1>4 DEF TcpTimeout, TcpError, TcpData, TypeOK
    <2>2. \E o \in {"own", "refused", "failed", "timeout"} : Settle({c}, o)
        BY <1>4 DEF TcpTimeout, TcpError, TcpData
    <2>. QED  BY <2>1, <2>2, SettleTypes DEF TypeOK
<1>5. CASE TcpServe(c)
    BY <1>5 DEF TcpServe, TypeOK
<1>. QED  BY <1>1, <1>2, <1>3, <1>4, <1>5

LEMMA ProbeFailsTypes == ASSUME TypeOK, NEW c \in Calls, ProbeFails(c) PROVE TypeOK'
<1>1. /\ UNCHANGED <<useTcp, shuttingDown, traceId, pending, unused, ident, outcome, owner, deaths, ran>>
      /\ stage' \in [Calls -> {"idle", "probing", "ready", "stdio", "tcp", "done"}]
      /\ sock' \in [Calls -> {"none", "connecting", "open", "answered", "reset", "closed"}]
    BY DEF ProbeFails, TypeOK
<1>2. probe' \in [Calls -> 0 .. Probes]
    BY DEF ProbeFails, LastProbe, TypeOK, Probes
<1>3. proc' \in Slots \cup {None} /\ child' \in [Slots -> Children]
    <2>1. \/ UNCHANGED <<proc, child>>
          \/ \E k \in Slots : proc' = k /\ child' = [child EXCEPT ![k] = [NoChild EXCEPT !.life = "starting"]]
        BY DEF ProbeFails, Spawned
    <2>2. proc \in Slots \cup {None} /\ child \in [Slots -> Children]
        BY DEF TypeOK, Children
    <2>3. ASSUME NEW k \in Slots, NEW r \in Children, proc' = k, child' = [child EXCEPT ![k] = r]
          PROVE  proc' \in Slots \cup {None} /\ child' \in [Slots -> Children]
        BY <2>2, <2>3
    <2>. QED  BY <2>1, <2>2, <2>3, NewChildTypes
<1>. QED  BY <1>1, <1>2, <1>3 DEF TypeOK, Children

LEMMA SendTypes == ASSUME TypeOK, NEW c \in Calls, Send(c) PROVE TypeOK'
<1>1. IdOf(c) \in Ids
    BY DEF IdOf, Ids, TypeOK
<1>2. traceId' = None /\ UNCHANGED <<useTcp, proc, shuttingDown, unused, owner, deaths, ran>>
    BY DEF Send
<1>3. CASE useTcp
    BY <1>2, <1>3 DEF Send, TypeOK
<1>4. CASE ~useTcp /\ Writable
    <2>1. proc \in Slots
        BY <1>4 DEF Writable, TypeOK
    <2>2. [id |-> IdOf(c), call |-> c] \in Line
        BY <1>1 DEF Line
    <2>3. Append(child[proc].stdin, [id |-> IdOf(c), call |-> c]) \in Seq(Line)
        BY <2>1, <2>2, AppendProperties DEF TypeOK
    <2> DEFINE r == [child[proc] EXCEPT !.stdin = Append(@, [id |-> IdOf(c), call |-> c])]
    <2>4. child' \in [Slots -> Children]
        <3>1. r \in Children
            BY <2>1, <2>3 DEF TypeOK, Children
        <3>2. child' = [child EXCEPT ![proc] = r]
            BY <1>4, <2>1 DEF Send, TypeOK
        <3>. QED  BY <3>1, <3>2, <2>1 DEF TypeOK, Children
    <2>. QED  BY <1>1, <1>2, <1>4, <2>4 DEF Send, TypeOK, Children
<1>5. CASE ~useTcp /\ ~Writable
    <2>1. pending' = [pending EXCEPT ![IdOf(c)] = None] /\ Settle({c}, "failed") /\ child' = child
        BY <1>5 DEF Send
    <2>. QED  BY <1>2, <2>1, SettleTypes DEF TypeOK
<1>. QED  BY <1>3, <1>4, <1>5

LEMMA ChildTypes == ASSUME TypeOK, NEW k \in Slots, ChildStep(k) PROVE TypeOK'
<1> USE DEF engineVars, callVars
<1>0. /\ child \in [Slots -> Children] /\ child[k] \in Children
      /\ child[k].stdin \in Seq(Line) /\ child[k].stdout \in Seq(Line)
    BY DEF TypeOK, Children
<1>1. CASE DispatchResponse(k)
    <2>1. Head(child[k].stdout) \in Line /\ Tail(child[k].stdout) \in Seq(Line)
        BY <1>0, <1>1, HeadTailProperties DEF DispatchResponse
    <2>2. child' \in [Slots -> Children]
        BY <1>0, <1>1, <2>1 DEF DispatchResponse, Children
    <2>3. UNCHANGED <<useTcp, proc, shuttingDown, traceId, unused, owner, deaths, ran>>
        BY <1>1 DEF DispatchResponse
    <2> DEFINE line == Head(child[k].stdout)
    <2>4. CASE pending[line.id] = None
        BY <1>1, <2>2, <2>3, <2>4 DEF DispatchResponse, TypeOK, Children
    <2>5. CASE pending[line.id] # None
        <3>1. pending[line.id] \in Calls
            BY <2>1, <2>5 DEF TypeOK, Line
        <3>2. pending' = [pending EXCEPT ![line.id] = None]
            BY <1>1, <2>5 DEF DispatchResponse
        <3>3. \E o \in {"own", "other"} : Settle({pending[line.id]}, o)
            BY <1>1, <2>5 DEF DispatchResponse
        <3>. QED  BY <2>2, <2>3, <3>1, <3>2, <3>3, SettleTypes DEF TypeOK, Children
    <2>. QED  BY <2>4, <2>5
<1>2. CASE ChildExit(k)
    <2>1. child' \in [Slots -> Children]
        BY <1>0, <1>2 DEF ChildExit, NoChild, Children
    <2>2. UNCHANGED <<useTcp, shuttingDown, traceId, unused, owner, deaths, ran>>
        BY <1>2 DEF ChildExit
    <2>3. CASE shuttingDown
        BY <1>2, <2>1, <2>2, <2>3 DEF ChildExit, TypeOK, Children
    <2>4. CASE ~shuttingDown
        <3>1. Waiters \in SUBSET Calls
            BY DEF Waiters, TypeOK
        <3>2. Settle(Waiters, "failed") /\ pending' = [i \in Ids |-> None] /\ proc' = None
            BY <1>2, <2>4 DEF ChildExit, RejectAllPending
        <3>. QED  BY <2>1, <2>2, <3>1, <3>2, SettleTypes DEF TypeOK, Children
    <2>. QED  BY <2>3, <2>4
<1>3. CASE ChildTakes(k)
    <2>1. Head(child[k].stdin) \in Line /\ Tail(child[k].stdin) \in Seq(Line)
        BY <1>0, <1>3, HeadTailProperties DEF ChildTakes
    <2>2. child' \in [Slots -> Children]
        BY <1>0, <1>3, <2>1 DEF ChildTakes, Children
    <2>3. ran' \subseteq Calls
        BY <1>3, <2>1 DEF ChildTakes, Line, TypeOK
    <2>. QED  BY <1>3, <2>2, <2>3 DEF ChildTakes, TypeOK, Children
<1>4. CASE ChildAnswers(k)
    <2>1. child[k].serving \in Line
        BY <1>0, <1>4 DEF ChildAnswers, Children
    <2>2. Append(child[k].stdout, child[k].serving) \in Seq(Line)
        BY <1>0, <2>1, AppendProperties
    <2>3. child' \in [Slots -> Children]
        BY <1>0, <1>4, <2>2 DEF ChildAnswers, Children
    <2>. QED  BY <1>4, <2>3 DEF ChildAnswers, TypeOK, Children
<1>5. CASE ChildStarts(k)
    <2>1. child' \in [Slots -> Children]
        BY <1>0, <1>5 DEF ChildStarts, Children
    <2>. QED  BY <1>5, <2>1 DEF ChildStarts, TypeOK, Children
<1>6. CASE ChildDies(k)
    <2>1. child' \in [Slots -> Children]
        BY <1>0, <1>6, DeadTypes DEF ChildDies, TypeOK
    <2>2. sock' \in [Calls -> {"none", "connecting", "open", "answered", "reset", "closed"}]
        BY <1>6, BreakTypes DEF ChildDies, TypeOK
    <2>3. owner' \in Slots \cup {None, Agent} /\ deaths' \in 0 .. Bound
        BY <1>6, DaemonEngineAssumption DEF ChildDies, TypeOK
    <2>. QED  BY <1>6, <2>1, <2>2, <2>3 DEF ChildDies, TypeOK, Children
<1>. QED  BY <1>1, <1>2, <1>3, <1>4, <1>5, <1>6 DEF ChildStep

LEMMA ShutdownTypes == ASSUME TypeOK, Shutdown PROVE TypeOK'
<1>1. CASE useTcp
    BY <1>1 DEF Shutdown, TypeOK, callVars
<1>2. CASE ~useTcp
    <2>1. /\ shuttingDown' = TRUE /\ pending' = [i \in Ids |-> None] /\ proc' = None
          /\ UNCHANGED <<useTcp, probe, ident, traceId, unused, deaths, ran>>
          /\ stage' = [c \in Calls |-> IF c \in Waiters THEN "done" ELSE stage[c]]
          /\ outcome' = [c \in Calls |-> IF c \in Waiters THEN "failed" ELSE outcome[c]]
        BY <1>2 DEF Shutdown
    <2>2. /\ child' \in [Slots -> Children]
          /\ owner' \in Slots \cup {None, Agent}
          /\ sock' \in [Calls -> {"none", "connecting", "open", "answered", "reset", "closed"}]
        <3>1. CASE proc # None /\ child[proc].life \in {"starting", "running"}
            <4>1. child' = [child EXCEPT ![proc] = Dead(proc)] /\ proc \in Slots
                BY <1>2, <3>1 DEF Shutdown, TypeOK
            <4>2. \/ owner' = None /\ Break
                  \/ UNCHANGED <<owner, sock>>
                BY <1>2, <3>1 DEF Shutdown
            <4>. QED  BY <4>1, <4>2, BreakTypes, DeadTypes DEF TypeOK, Children
        <3>2. CASE ~(proc # None /\ child[proc].life \in {"starting", "running"})
            BY <1>2, <3>2 DEF Shutdown, TypeOK, Children
        <3>. QED  BY <3>1, <3>2
    <2>. QED  BY <2>1, <2>2 DEF TypeOK, Children
<1>. QED  BY <1>1, <1>2

LEMMA EngineTypeStep == TypeOK /\ [Next]_vars => TypeOK'
<1> SUFFICES ASSUME TypeOK, [Next]_vars
             PROVE  TypeOK'
    OBVIOUS
<1>1. ASSUME NEW c \in Calls, ClientStep(c) \/ Connect(c) \/ TcpServe(c)
      PROVE  TypeOK'
    BY <1>1, CallTypes, ProbeFailsTypes, SendTypes DEF ClientStep
<1>2. ASSUME NEW k \in Slots, ChildStep(k)
      PROVE  TypeOK'
    BY <1>2, ChildTypes
<1>3. ASSUME NEW t \in Traces, SetTraceId(t)
      PROVE  TypeOK'
    BY <1>3 DEF SetTraceId, TypeOK, callVars, daemonVars
<1>4. CASE AgentStarts \/ AgentDies
    <2>1. sock' \in [Calls -> {"none", "connecting", "open", "answered", "reset", "closed"}]
        BY <1>4, BreakTypes DEF AgentStarts, AgentDies, TypeOK, callVars
    <2>2. deaths' \in 0 .. Bound
        BY <1>4, DaemonEngineAssumption DEF AgentStarts, AgentDies, TypeOK
    <2>. QED  BY <1>4, <2>1, <2>2 DEF AgentStarts, AgentDies, TypeOK, engineVars, callVars
<1>5. CASE Shutdown
    BY <1>5, ShutdownTypes
<1>6. CASE UNCHANGED vars
    BY <1>6 DEF vars, engineVars, callVars, daemonVars, TypeOK
<1>. QED  BY <1>1, <1>2, <1>3, <1>4, <1>5, <1>6 DEF Next

\* The engine's state is well typed: at most three probes are made, and the
\* daemon dies no more often than the bound (daemon.ts:255-330).
THEOREM EngineTypeCorrect == Spec => []TypeOK
    BY EngineTypeInit, EngineTypeStep, PTL DEF Spec

-----------------------------------------------------------------------------
\* Initially.

LEMMA EngineInit == Init => EngineInv
<1> SUFFICES ASSUME Init PROVE EngineInv
    OBVIOUS
<1>1. TypeOK
    BY EngineTypeInit
<1>2. \A k \in Slots : child[k] = NoChild
    BY DEF Init
<1>3. ChildOfProc /\ LinesSent /\ QueuedOnce
    BY <1>2 DEF ChildOfProc, LinesSent, QueuedOnce, NoChild
<1>4. IdsUnique /\ EntriesMatch
    BY DaemonEngineAssumption DEF Init, IdsUnique, EntriesMatch, Ids
<1>5. RanOnce /\ NeverAnothers
    BY DEF Init, RanOnce, NeverAnothers
<1>. QED  BY <1>1, <1>3, <1>4, <1>5 DEF EngineInv

-----------------------------------------------------------------------------
\* One child.

\* Requests, lines and answers are no matter of a child's life.
LEMMA LivesKept ==
    ASSUME TypeOK, ChildOfProc, UNCHANGED <<proc, shuttingDown>>,
           \A k \in Slots : child'[k].life = child[k].life
    PROVE  ChildOfProc'
    BY DEF ChildOfProc

LEMMA OneChildStep == ASSUME TypeOK, ChildOfProc, [Next]_vars PROVE ChildOfProc'
<1>0. child \in [Slots -> Children] /\ None \notin Slots
    BY DaemonEngineAssumption DEF TypeOK, Children
<1>1. ASSUME NEW c \in Calls, ProbeFails(c)
      PROVE  ChildOfProc'
    <2>1. CASE UNCHANGED <<proc, child>>
        <3>1. shuttingDown' = shuttingDown
            BY <1>1 DEF ProbeFails
        <3>. QED  BY <2>1, <3>1, LivesKept
    <2>2. CASE ~UNCHANGED <<proc, child>>
        <3>1. PICK k \in Slots : /\ proc = None /\ proc' = k /\ shuttingDown' = shuttingDown
                                 /\ child' = [child EXCEPT ![k] = [NoChild EXCEPT !.life = "starting"]]
            BY <1>1, <2>2 DEF ProbeFails, NeedsChild, Spawned
        <3>2. \A l \in Slots : child[l].life \notin {"starting", "running"}
            BY <1>0, <3>1 DEF ChildOfProc
        <3>3. ~shuttingDown => \A l \in Slots : child[l].life = "none"
            BY <1>0, <3>1 DEF ChildOfProc
        <3>4. \A l \in Slots : l # k => child'[l] = child[l]
            BY <1>0, <3>1
        <3>. QED  BY <1>0, <3>1, <3>2, <3>3, <3>4 DEF ChildOfProc
    <2>. QED  BY <2>1, <2>2
<1>2. ASSUME NEW c \in Calls, Send(c)
      PROVE  ChildOfProc'
    <2>1. UNCHANGED <<proc, shuttingDown>>
        BY <1>2 DEF Send
    <2>2. CASE child' = child
        BY <2>1, <2>2, LivesKept
    <2>3. CASE child' # child
        <3>1. proc \in Slots /\ \E q : child' = [child EXCEPT ![proc].stdin = q]
            BY <1>2, <2>3 DEF Send, Writable, TypeOK
        <3>2. \A k \in Slots : child'[k].life = child[k].life
            BY <1>0, <3>1 DEF Children
        <3>. QED  BY <2>1, <3>2, LivesKept
    <2>. QED  BY <2>2, <2>3
<1>3. ASSUME NEW k \in Slots, DispatchResponse(k) \/ ChildTakes(k) \/ ChildAnswers(k)
      PROVE  ChildOfProc'
    <2>1. UNCHANGED <<proc, shuttingDown>>
        BY <1>3 DEF DispatchResponse, ChildTakes, ChildAnswers, engineVars
    <2>2. \A l \in Slots : child'[l].life = child[l].life
        <3>1. CASE DispatchResponse(k)
            BY <1>0, <3>1 DEF DispatchResponse, Children
        <3>2. CASE ChildTakes(k)
            BY <1>0, <3>2 DEF ChildTakes, Children
        <3>3. CASE ChildAnswers(k)
            BY <1>0, <3>3 DEF ChildAnswers, Children
        <3>. QED  BY <1>3, <3>1, <3>2, <3>3
    <2>. QED  BY <2>1, <2>2, LivesKept
<1>4. ASSUME NEW k \in Slots, ChildStarts(k)
      PROVE  ChildOfProc'
    <2>1. /\ UNCHANGED <<proc, shuttingDown>> /\ child[k].life = "starting"
          /\ \A l \in Slots : l # k => child'[l] = child[l]
        BY <1>0, <1>4 DEF ChildStarts, engineVars
    <2>. QED  BY <2>1 DEF ChildOfProc
<1>5. ASSUME NEW k \in Slots, ChildDies(k)
      PROVE  ChildOfProc'
    <2>1. /\ UNCHANGED <<proc, shuttingDown>> /\ child[k].life \in {"starting", "running"}
          /\ child' = [child EXCEPT ![k] = Dead(k)]
        BY <1>5 DEF ChildDies, engineVars
    <2>2. Dead(k).life = "exited"
        BY <1>0 DEF Dead, Children
    <2>. QED  BY <1>0, <2>1, <2>2 DEF ChildOfProc
<1>6. ASSUME NEW k \in Slots, ChildExit(k)
      PROVE  ChildOfProc'
    <2>1. /\ child[k].life = "exited" /\ child' = [child EXCEPT ![k] = NoChild]
          /\ shuttingDown' = shuttingDown
          /\ proc' = IF shuttingDown THEN proc ELSE None
        BY <1>6 DEF ChildExit, RejectAllPending
    <2>2. child'[k].life = "none" /\ \A l \in Slots : l # k => child'[l] = child[l]
        BY <1>0, <2>1 DEF NoChild
    <2>3. ~shuttingDown => \A l \in Slots : l # k => child[l].life = "none"
        BY <2>1 DEF ChildOfProc
    <2>4. ~shuttingDown => \A l \in Slots : child'[l].life = "none"
        BY <2>2, <2>3
    <2>5. shuttingDown => \A l \in Slots : child'[l].life \in {"starting", "running"} => proc' = l
        BY <2>1, <2>2 DEF ChildOfProc
    <2>. QED  BY <2>1, <2>4, <2>5 DEF ChildOfProc
<1>7. CASE Shutdown
    <2>1. shuttingDown' = TRUE
        BY <1>7 DEF Shutdown
    <2>2. CASE useTcp
        BY <1>7, <2>1, <2>2 DEF Shutdown, ChildOfProc
    <2>3. CASE ~useTcp /\ proc # None /\ child[proc].life \in {"starting", "running"}
        <3>1. proc \in Slots /\ child' = [child EXCEPT ![proc] = Dead(proc)]
            BY <1>7, <2>3 DEF Shutdown, TypeOK
        <3>2. Dead(proc).life = "exited"
            BY <1>0, <3>1 DEF Dead, Children
        <3>3. \A l \in Slots : child'[l].life \notin {"starting", "running"}
            BY <1>0, <3>1, <3>2 DEF ChildOfProc
        <3>. QED  BY <2>1, <3>3 DEF ChildOfProc
    <2>4. CASE ~useTcp /\ ~(proc # None /\ child[proc].life \in {"starting", "running"})
        <3>1. child' = child
            BY <1>7, <2>4 DEF Shutdown
        <3>2. \A l \in Slots : child[l].life \notin {"starting", "running"}
            BY <1>0, <2>4 DEF ChildOfProc
        <3>. QED  BY <2>1, <3>1, <3>2 DEF ChildOfProc
    <2>. QED  BY <2>2, <2>3, <2>4
<1>8. ASSUME \/ \E t \in Traces : SetTraceId(t)
             \/ \E c \in Calls : \/ Begin(c) \/ ProbeAnswered(c) \/ StdioTimeout(c) \/ TcpTimeout(c)
                                 \/ TcpError(c) \/ TcpData(c) \/ Connect(c) \/ TcpServe(c)
             \/ AgentStarts \/ AgentDies \/ UNCHANGED vars
      PROVE  ChildOfProc'
    <2>1. UNCHANGED <<proc, shuttingDown, child>>
        BY <1>8 DEF SetTraceId, Begin, ProbeAnswered, StdioTimeout, TcpTimeout, TcpError, TcpData,
                    Connect, TcpServe, AgentStarts, AgentDies, vars, engineVars, callVars, daemonVars
    <2>. QED  BY <2>1, LivesKept
<1>. QED
    BY <1>1, <1>2, <1>3, <1>4, <1>5, <1>6, <1>7, <1>8 DEF Next, ClientStep, ChildStep

-----------------------------------------------------------------------------
\* The request map.

\* Only a command that is sent takes an id, and only SetTraceId takes from unused.
LEMMA IdsStep == ASSUME TypeOK, IdsUnique, [Next]_vars PROVE IdsUnique'
<1>1. CASE UNCHANGED <<traceId, unused, ident>>
    BY <1>1 DEF IdsUnique
<1>2. ASSUME NEW t \in Traces, SetTraceId(t)
      PROVE  IdsUnique'
    <2>1. t \in unused /\ traceId' = t /\ unused' = unused \ {t} /\ ident' = ident
        BY <1>2 DEF SetTraceId, callVars
    <2>. QED  BY <2>1 DEF IdsUnique
<1>3. ASSUME NEW c \in Calls, Send(c)
      PROVE  IdsUnique'
    <2>1. traceId' = None /\ unused' = unused
        BY <1>3 DEF Send
    <2>2. None \notin Traces /\ Calls \cap Traces = {} /\ unused \subseteq Traces
        BY DaemonEngineAssumption DEF TypeOK
    <2>3. CASE ident' = ident
        BY <2>1, <2>2, <2>3 DEF IdsUnique
    <2>4. CASE ident' # ident
        <3>1. ident' = [ident EXCEPT ![c] = IdOf(c)]
            BY <1>3, <2>4 DEF Send, Settle
        <3>2. ident'[c] = IdOf(c) /\ \A d \in Calls : d # c => ident'[d] = ident[d]
            BY <3>1 DEF TypeOK
        <3>3. IdOf(c) = c \/ (IdOf(c) \in Traces \ unused /\ IdOf(c) = traceId)
            BY DEF IdOf, TypeOK, IdsUnique
        <3>4. \A d \in Calls : d # c => ident[d] # IdOf(c)
            BY <2>2, <3>3 DEF IdsUnique
        <3>. QED  BY <2>1, <2>2, <3>2, <3>3, <3>4 DEF IdsUnique
    <2>. QED  BY <2>3, <2>4
<1>4. ASSUME NEW c \in Calls, ClientStep(c) \/ Connect(c) \/ TcpServe(c), ~Send(c)
      PROVE  UNCHANGED <<traceId, unused, ident>>
    BY <1>4 DEF ClientStep, Begin, ProbeAnswered, ProbeFails, StdioTimeout, TcpTimeout, TcpError,
                TcpData, Connect, TcpServe, Settle, engineVars, callVars
<1>5. ASSUME NEW k \in Slots, ChildStep(k)
      PROVE  UNCHANGED <<traceId, unused, ident>>
    BY <1>5 DEF ChildStep, DispatchResponse, ChildExit, ChildTakes, ChildAnswers, ChildStarts,
                ChildDies, RejectAllPending, Settle, engineVars, callVars
<1>6. CASE AgentStarts \/ AgentDies \/ Shutdown
    BY <1>1, <1>6 DEF AgentStarts, AgentDies, Shutdown, engineVars, callVars
<1>7. CASE UNCHANGED vars
    BY <1>1, <1>7 DEF vars, engineVars, callVars
<1>. QED  BY <1>1, <1>2, <1>3, <1>4, <1>5, <1>6, <1>7 DEF Next

\* Whoever settles takes the entries of the commands that end.
LEMMA EntriesReleased ==
    ASSUME TypeOK, EntriesMatch, NEW C \in SUBSET Calls, ident' = ident,
           stage' = [c \in Calls |-> IF c \in C THEN "done" ELSE stage[c]],
           \A i \in Ids : pending'[i] = IF pending[i] \in C THEN None ELSE pending[i]
    PROVE  EntriesMatch'
<1>1. \A c \in Calls : stage'[c] = IF c \in C THEN "done" ELSE stage[c]
    OBVIOUS
<1>2. ASSUME NEW i \in Ids, pending'[i] # None
      PROVE  stage'[pending'[i]] = "stdio" /\ ident'[pending'[i]] = i
    BY <1>1, <1>2 DEF TypeOK, EntriesMatch
<1>3. ASSUME NEW c \in Calls, stage'[c] = "stdio"
      PROVE  pending'[ident'[c]] = c
    BY <1>1, <1>3 DEF TypeOK, EntriesMatch
<1>. QED  BY <1>2, <1>3 DEF EntriesMatch

\* A command that is not on stdin goes from one such place to another.
LEMMA EntriesKept ==
    ASSUME TypeOK, EntriesMatch, NEW c \in Calls, stage[c] # "stdio",
           \A d \in Calls : d # c => stage'[d] = stage[d],
           stage'[c] # "stdio", pending' = pending, ident' = ident
    PROVE  EntriesMatch'
    BY DEF TypeOK, EntriesMatch

LEMMA EntriesStep == ASSUME TypeOK, IdsUnique, EntriesMatch, [Next]_vars PROVE EntriesMatch'
<1>1. CASE UNCHANGED <<pending, stage, ident>>
    BY <1>1 DEF EntriesMatch
<1>2. ASSUME NEW c \in Calls, Send(c)
      PROVE  EntriesMatch'
    <2>0. stage[c] = "ready" /\ c # None /\ \A i \in Ids : pending[i] # c
        <3>1. stage[c] = "ready" /\ c # None
            BY <1>2, DaemonEngineAssumption DEF Send
        <3>. QED  BY <3>1 DEF EntriesMatch
    <2>1. IdOf(c) \in Ids /\ \A d \in Calls : d # c => ident[d] # IdOf(c)
        BY DaemonEngineAssumption DEF IdOf, Ids, TypeOK, IdsUnique
    <2>2. pending[IdOf(c)] = None
        BY <2>0, <2>1 DEF EntriesMatch, TypeOK
    <2>3. CASE useTcp
        BY <1>2, <2>0, <2>3, EntriesKept DEF Send, TypeOK
    <2>4. CASE ~useTcp /\ Writable
        <3>1. /\ pending' = [pending EXCEPT ![IdOf(c)] = c]
              /\ ident' = [ident EXCEPT ![c] = IdOf(c)]
              /\ stage' = [stage EXCEPT ![c] = "stdio"]
            BY <1>2, <2>4 DEF Send
        <3>2. /\ pending'[IdOf(c)] = c /\ ident'[c] = IdOf(c) /\ stage'[c] = "stdio"
              /\ \A d \in Calls : d # c => stage'[d] = stage[d] /\ ident'[d] = ident[d]
              /\ \A i \in Ids : i # IdOf(c) => pending'[i] = pending[i]
            BY <2>1, <3>1 DEF TypeOK
        <3>3. ASSUME NEW i \in Ids, pending'[i] # None
              PROVE  stage'[pending'[i]] = "stdio" /\ ident'[pending'[i]] = i
            <4>1. CASE i = IdOf(c)
                BY <3>2, <4>1
            <4>2. CASE i # IdOf(c)
                <5>1. pending'[i] = pending[i] /\ pending[i] \in Calls /\ pending[i] # c
                    BY <2>0, <3>2, <3>3, <4>2 DEF TypeOK
                <5>2. stage[pending[i]] = "stdio" /\ ident[pending[i]] = i
                    BY <3>3, <5>1 DEF EntriesMatch
                <5>. QED  BY <3>2, <5>1, <5>2
            <4>. QED  BY <4>1, <4>2
        <3>4. ASSUME NEW d \in Calls, stage'[d] = "stdio"
              PROVE  pending'[ident'[d]] = d
            BY <2>1, <3>2, <3>4, SMTT(40) DEF EntriesMatch, TypeOK
        <3>. QED  BY <3>3, <3>4 DEF EntriesMatch
    <2>5. CASE ~useTcp /\ ~Writable
        <3>1. pending' = [pending EXCEPT ![IdOf(c)] = None] /\ Settle({c}, "failed")
            BY <1>2, <2>5 DEF Send
        <3>2. \A i \in Ids : pending'[i] = IF pending[i] \in {c} THEN None ELSE pending[i]
            BY <2>0, <2>1, <2>2, <3>1 DEF TypeOK
        <3>. QED  BY <3>1, <3>2, EntriesReleased DEF Settle
    <2>. QED  BY <2>3, <2>4, <2>5
<1>3. ASSUME NEW c \in Calls, StdioTimeout(c)
      PROVE  EntriesMatch'
    <2>1. stage[c] = "stdio" /\ pending' = [pending EXCEPT ![ident[c]] = None] /\ Settle({c}, "timeout")
        BY <1>3 DEF StdioTimeout
    <2>2. \A i \in Ids : pending'[i] = IF pending[i] \in {c} THEN None ELSE pending[i]
        BY <2>1, DaemonEngineAssumption DEF EntriesMatch, TypeOK
    <2>. QED  BY <2>1, <2>2, EntriesReleased DEF Settle
<1>4. ASSUME NEW c \in Calls, TcpTimeout(c) \/ TcpError(c) \/ TcpData(c)
      PROVE  EntriesMatch'
    <2>1. /\ stage[c] = "tcp" /\ pending' = pending /\ ident' = ident
          /\ stage' = [d \in Calls |-> IF d \in {c} THEN "done" ELSE stage[d]]
        BY <1>4 DEF TcpTimeout, TcpError, TcpData, Settle, engineVars
    <2>. QED  BY <2>1, EntriesKept
<1>5. ASSUME NEW c \in Calls, Begin(c) \/ ProbeAnswered(c) \/ ProbeFails(c)
      PROVE  EntriesMatch'
    <2>1. /\ stage[c] \in {"idle", "probing"} /\ pending' = pending /\ ident' = ident
          /\ \A d \in Calls : d # c => stage'[d] = stage[d]
          /\ stage'[c] \in {"probing", "ready"}
        BY <1>5 DEF Begin, ProbeAnswered, ProbeFails, engineVars, TypeOK
    <2>. QED  BY <2>1, EntriesKept
<1>6. ASSUME NEW k \in Slots, DispatchResponse(k)
      PROVE  EntriesMatch'
    <2> DEFINE line == Head(child[k].stdout)
               c == pending[line.id]
    <2>1. CASE c = None
        BY <1>1, <1>6, <2>1 DEF DispatchResponse, callVars
    <2>2. CASE c # None
        <3>1. child[k].stdout \in Seq(Line) /\ child[k].stdout # <<>>
            BY <1>6 DEF DispatchResponse, TypeOK
        <3>2. line \in Line
            BY <3>1, HeadTailProperties
        <3>3. /\ pending' = [pending EXCEPT ![line.id] = None] /\ ident' = ident
              /\ stage' = [d \in Calls |-> IF d \in {c} THEN "done" ELSE stage[d]]
            BY <1>6, <2>2 DEF DispatchResponse, Settle
        <3>4. \A i \in Ids : pending'[i] = IF pending[i] \in {c} THEN None ELSE pending[i]
            BY <2>2, <3>2, <3>3 DEF EntriesMatch, TypeOK, Line
        <3>5. c \in Calls
            BY <2>2, <3>2 DEF TypeOK, Line
        <3>. QED  BY <3>3, <3>4, <3>5, EntriesReleased
    <2>. QED  BY <2>1, <2>2
<1>7. ASSUME ident' = ident, pending' = [i \in Ids |-> None],
             stage' = [c \in Calls |-> IF c \in Waiters THEN "done" ELSE stage[c]]
      PROVE  EntriesMatch'
    <2>1. Waiters \in SUBSET Calls /\ None \notin Waiters
        BY DEF Waiters, TypeOK
    <2>2. \A i \in Ids : pending'[i] = IF pending[i] \in Waiters THEN None ELSE pending[i]
        BY <1>7 DEF Waiters
    <2>. QED  BY <1>7, <2>1, <2>2, EntriesReleased
<1>8. ASSUME NEW k \in Slots, ChildExit(k)
      PROVE  EntriesMatch'
    BY <1>1, <1>7, <1>8 DEF ChildExit, RejectAllPending, Settle, callVars
<1>9. CASE Shutdown
    BY <1>1, <1>7, <1>9 DEF Shutdown, callVars
<1>10. ASSUME \/ \E t \in Traces : SetTraceId(t)
              \/ \E c \in Calls : Connect(c) \/ TcpServe(c)
              \/ \E k \in Slots : ChildTakes(k) \/ ChildAnswers(k) \/ ChildStarts(k) \/ ChildDies(k)
              \/ AgentStarts \/ AgentDies \/ UNCHANGED vars
       PROVE  EntriesMatch'
    <2>1. UNCHANGED <<pending, stage, ident>>
        BY <1>10 DEF SetTraceId, Connect, TcpServe, ChildTakes, ChildAnswers, ChildStarts, ChildDies,
                     AgentStarts, AgentDies, vars, engineVars, callVars
    <2>. QED  BY <1>1, <2>1
<1>. QED
    BY <1>2, <1>3, <1>4, <1>5, <1>6, <1>8, <1>9, <1>10 DEF Next, ClientStep, ChildStep

-----------------------------------------------------------------------------
\* What the children's pipes hold.

\* A sent command keeps its id, and leaves stdin only for its end.
LEMMA SentKept ==
    ASSUME TypeOK, [Next]_vars, NEW c \in Calls, stage[c] \in {"stdio", "done"}
    PROVE  ident'[c] = ident[c] /\ stage'[c] \in {"stdio", "done"}
<1>1. CASE UNCHANGED <<stage, ident>>
    BY <1>1
<1>2. ASSUME NEW d \in Calls, ClientStep(d)
      PROVE  ident'[c] = ident[c] /\ stage'[c] \in {"stdio", "done"}
    <2>1. CASE Begin(d) \/ ProbeAnswered(d) \/ ProbeFails(d)
        BY <2>1 DEF Begin, ProbeAnswered, ProbeFails, engineVars, TypeOK
    <2>2. CASE Send(d)
        BY <2>2 DEF Send, Settle, TypeOK
    <2>3. CASE StdioTimeout(d) \/ TcpTimeout(d) \/ TcpError(d) \/ TcpData(d)
        BY <2>3 DEF StdioTimeout, TcpTimeout, TcpError, TcpData, Settle, TypeOK
    <2>. QED  BY <1>2, <2>1, <2>2, <2>3 DEF ClientStep
<1>3. ASSUME NEW k \in Slots, DispatchResponse(k) \/ ChildExit(k)
      PROVE  ident'[c] = ident[c] /\ stage'[c] \in {"stdio", "done"}
    BY <1>3 DEF DispatchResponse, ChildExit, RejectAllPending, Settle, callVars
<1>4. CASE Shutdown
    BY <1>4 DEF Shutdown, callVars
<1>5. CASE \/ \E t \in Traces : SetTraceId(t)
           \/ \E d \in Calls : Connect(d) \/ TcpServe(d)
           \/ \E k \in Slots : ChildTakes(k) \/ ChildAnswers(k) \/ ChildStarts(k) \/ ChildDies(k)
           \/ AgentStarts \/ AgentDies \/ UNCHANGED vars
    <2>1. UNCHANGED <<stage, ident>>
        BY <1>5 DEF SetTraceId, Connect, TcpServe, ChildTakes, ChildAnswers, ChildStarts, ChildDies,
                    AgentStarts, AgentDies, vars, engineVars, callVars
    <2>. QED  BY <1>1, <2>1
<1>. QED  BY <1>2, <1>3, <1>4, <1>5 DEF Next, ChildStep

\* SentLine after the step, of a line that may come from the next state.
StillSent(line) == line.id = ident'[line.call] /\ stage'[line.call] \in {"stdio", "done"}

LEMMA LineKept ==
    ASSUME TypeOK, [Next]_vars, NEW line \in Line, SentLine(line)
    PROVE  StillSent(line)
<1>1. line.call \in Calls
    BY DEF Line
<1>. QED  BY <1>1, SentKept DEF SentLine, StillSent

\* A step that takes nothing from a pipe but all of it, and carries out no
\* command but one that came by TCP, keeps the lines.
LEMMA LinesKept ==
    ASSUME TypeOK, LinesSent, QueuedOnce, [Next]_vars,
           \A k \in Slots : /\ child'[k].stdin \in {child[k].stdin, <<>>}
                            /\ child'[k].serving \in {child[k].serving, None}
                            /\ child'[k].stdout \in {child[k].stdout, <<>>},
           ran \subseteq ran', \A c \in ran' : c \in ran \/ stage[c] = "tcp"
    PROVE  LinesSent' /\ QueuedOnce'
<1>1. ASSUME NEW k \in Slots, NEW i \in 1..Len(child'[k].stdin)
      PROVE  /\ child'[k].stdin = child[k].stdin
             /\ StillSent(child'[k].stdin[i]) /\ child'[k].stdin[i].call \notin ran'
    <2>1. child'[k].stdin = child[k].stdin /\ child[k].stdin \in Seq(Line) /\ child[k].stdin[i] \in Line
        <3>1. child'[k].stdin = child[k].stdin
            BY <1>1, EmptySeq
        <3>. QED  BY <1>1, <3>1 DEF TypeOK
    <2>2. SentLine(child[k].stdin[i]) /\ child[k].stdin[i].call \notin ran
        BY <1>1, <2>1 DEF LinesSent
    <2>3. stage[child[k].stdin[i].call] # "tcp"
        BY <2>2 DEF SentLine
    <2>. QED  BY <2>1, <2>2, <2>3, LineKept
<1>2. ASSUME NEW k \in Slots, child'[k].serving # None
      PROVE  StillSent(child'[k].serving) /\ child'[k].serving.call \in ran'
    <2>1. child'[k].serving = child[k].serving /\ child[k].serving \in Line
        BY <1>2 DEF TypeOK
    <2>2. SentLine(child[k].serving) /\ child[k].serving.call \in ran
        BY <1>2, <2>1 DEF LinesSent
    <2>. QED  BY <2>1, <2>2, LineKept
<1>3. ASSUME NEW k \in Slots, NEW i \in 1..Len(child'[k].stdout)
      PROVE  StillSent(child'[k].stdout[i]) /\ child'[k].stdout[i].call \in ran'
    <2>1. child'[k].stdout = child[k].stdout /\ child[k].stdout[i] \in Line
        <3>1. child'[k].stdout = child[k].stdout
            BY <1>3, EmptySeq
        <3>. QED  BY <1>3, <3>1 DEF TypeOK
    <2>2. SentLine(child[k].stdout[i]) /\ child[k].stdout[i].call \in ran
        BY <1>3, <2>1 DEF LinesSent
    <2>. QED  BY <2>1, <2>2, LineKept
<1>4. LinesSent'
    BY <1>1, <1>2, <1>3 DEF LinesSent, SentLine, StillSent
<1>5. QueuedOnce'
    <2>1. \A k \in Slots : \A i \in 1..Len(child'[k].stdin) : child'[k].stdin = child[k].stdin
        BY <1>1
    <2>2. ASSUME NEW k \in Slots, NEW l \in Slots,
                 NEW i \in 1..Len(child'[k].stdin), NEW j \in 1..Len(child'[l].stdin),
                 child'[k].stdin[i].call = child'[l].stdin[j].call
          PROVE  k = l /\ i = j
        <3>1. child'[k].stdin = child[k].stdin /\ child'[l].stdin = child[l].stdin
            BY <2>1
        <3>. QED  BY <2>2, <3>1 DEF QueuedOnce
    <2>. QED  BY <2>2 DEF QueuedOnce
<1>. QED  BY <1>4, <1>5

LEMMA SendLines ==
    ASSUME TypeOK, LinesSent, QueuedOnce, RanOnce, [Next]_vars, NEW c \in Calls, Send(c)
    PROVE  LinesSent' /\ QueuedOnce'
<1>1. ran' = ran /\ stage[c] = "ready"
    BY DEF Send
<1>2. CASE child' = child
    BY <1>1, <1>2, LinesKept
<1>3. CASE child' # child
    <2> DEFINE new == [id |-> IdOf(c), call |-> c]
    <2>1. proc \in Slots
        BY <1>3 DEF Send, Writable, TypeOK
    <2>2. /\ child' = [child EXCEPT ![proc].stdin = Append(@, new)]
          /\ ident' = [ident EXCEPT ![c] = IdOf(c)] /\ stage' = [stage EXCEPT ![c] = "stdio"]
        BY <1>3 DEF Send
    <2>3. new \in Line /\ new.call = c
        BY DEF IdOf, Ids, TypeOK, Line
    <2>4. StillSent(new)
        BY <2>2 DEF StillSent, TypeOK
    <2>5. c \notin ran
        BY <1>1 DEF RanOnce
    <2>6. \A k \in Slots :
            /\ k # proc => child'[k].stdin = child[k].stdin
            /\ child'[k].serving = child[k].serving /\ child'[k].stdout = child[k].stdout
        BY <2>1, <2>2 DEF TypeOK
    <2>7. child'[proc].stdin = Append(child[proc].stdin, new) /\ child[proc].stdin \in Seq(Line)
        BY <2>1, <2>2 DEF TypeOK
    <2>8. /\ Len(child'[proc].stdin) = Len(child[proc].stdin) + 1
          /\ \A i \in 1..Len(child[proc].stdin) : child'[proc].stdin[i] = child[proc].stdin[i]
          /\ child'[proc].stdin[Len(child[proc].stdin) + 1] = new
          /\ Len(child[proc].stdin) \in Nat
        BY <2>3, <2>7, AppendProperties, LenProperties
    \* A line is an old one or the new one.
    <2>9. ASSUME NEW k \in Slots, NEW i \in 1..Len(child'[k].stdin)
          PROVE  \/ i \in 1..Len(child[k].stdin) /\ child'[k].stdin[i] = child[k].stdin[i]
                 \/ k = proc /\ i = Len(child[k].stdin) + 1 /\ child'[k].stdin[i] = new
        <3>1. CASE k # proc
            BY <2>6, <3>1
        <3>2. CASE k = proc
            BY <2>8, <3>2
        <3>. QED  BY <3>1, <3>2
    <2>10. \A k \in Slots : \A i \in 1..Len(child[k].stdin) :
            /\ child[k].stdin[i] \in Line /\ child[k].stdin[i].call # c
            /\ StillSent(child[k].stdin[i]) /\ child[k].stdin[i].call \notin ran
        <3>1. \A k \in Slots : \A i \in 1..Len(child[k].stdin) : child[k].stdin[i] \in Line
            BY DEF TypeOK
        <3>2. \A k \in Slots : \A i \in 1..Len(child[k].stdin) :
                SentLine(child[k].stdin[i]) /\ child[k].stdin[i].call \notin ran
            BY DEF LinesSent
        <3>. QED  BY <1>1, <3>1, <3>2, LineKept DEF SentLine
    <2>11. \A k \in Slots : \A i \in 1..Len(child'[k].stdin) :
            StillSent(child'[k].stdin[i]) /\ child'[k].stdin[i].call \notin ran'
        BY <1>1, <2>3, <2>4, <2>5, <2>9, <2>10
    <2>12. \A k \in Slots :
            /\ child[k].serving # None => StillSent(child[k].serving) /\ child[k].serving.call \in ran
            /\ \A i \in 1..Len(child[k].stdout) :
                    StillSent(child[k].stdout[i]) /\ child[k].stdout[i].call \in ran
        <3>1. \A k \in Slots : /\ child[k].serving # None => child[k].serving \in Line
                               /\ \A i \in 1..Len(child[k].stdout) : child[k].stdout[i] \in Line
            BY DEF TypeOK
        <3>. QED  BY <3>1, LineKept DEF LinesSent
    <2>13. LinesSent'
        BY <1>1, <2>6, <2>11, <2>12 DEF LinesSent, SentLine, StillSent
    <2>14. ASSUME NEW k \in Slots, NEW l \in Slots,
                  NEW i \in 1..Len(child'[k].stdin), NEW j \in 1..Len(child'[l].stdin),
                  child'[k].stdin[i].call = child'[l].stdin[j].call
           PROVE  k = l /\ i = j
        <3>1. CASE child'[k].stdin[i] = new
            BY <2>3, <2>9, <2>10, <2>14, <3>1, ZenonT(60)
        <3>2. CASE child'[l].stdin[j] = new
            BY <2>3, <2>9, <2>10, <2>14, <3>2, ZenonT(60)
        <3>3. CASE child'[k].stdin[i] # new /\ child'[l].stdin[j] # new
            <4>1. /\ i \in 1..Len(child[k].stdin) /\ child'[k].stdin[i] = child[k].stdin[i]
                  /\ j \in 1..Len(child[l].stdin) /\ child'[l].stdin[j] = child[l].stdin[j]
                BY <2>9, <3>3
            <4>. QED  BY <2>14, <4>1 DEF QueuedOnce
        <3>. QED  BY <3>1, <3>2, <3>3
    <2>15. QueuedOnce'
        BY <2>14 DEF QueuedOnce
    <2>. QED  BY <2>13, <2>15
<1>. QED  BY <1>2, <1>3

\* Every line on its way is still sent after the step.
LEMMA AllStillSent ==
    ASSUME TypeOK, LinesSent, [Next]_vars, NEW k \in Slots
    PROVE  /\ \A i \in 1..Len(child[k].stdin) :
                    child[k].stdin[i] \in Line /\ StillSent(child[k].stdin[i])
           /\ child[k].serving # None => StillSent(child[k].serving) /\ child[k].serving \in Line
           /\ \A i \in 1..Len(child[k].stdout) :
                    child[k].stdout[i] \in Line /\ StillSent(child[k].stdout[i])
<1>1. /\ \A i \in 1..Len(child[k].stdin) : child[k].stdin[i] \in Line
      /\ child[k].serving # None => child[k].serving \in Line
      /\ \A i \in 1..Len(child[k].stdout) : child[k].stdout[i] \in Line
    BY DEF TypeOK
<1>. QED  BY <1>1, LineKept DEF LinesSent

LEMMA TakeLines ==
    ASSUME TypeOK, LinesSent, QueuedOnce, [Next]_vars, NEW k \in Slots, ChildTakes(k)
    PROVE  LinesSent' /\ QueuedOnce'
<1> DEFINE queue == child[k].stdin
           first == Head(queue)
<1>1. queue \in Seq(Line) /\ queue # <<>> /\ ran' = ran \cup {first.call}
    BY DEF ChildTakes, TypeOK
<1>2. /\ first = queue[1] /\ 1 \in 1..Len(queue)
      /\ Len(Tail(queue)) = Len(queue) - 1
      /\ \A i \in 1..Len(Tail(queue)) : Tail(queue)[i] = queue[i + 1] /\ i + 1 \in 1..Len(queue)
    BY <1>1, HeadTailProperties, LenProperties
<1>3. /\ child'[k].stdin = Tail(queue) /\ child'[k].serving = first
      /\ child'[k].stdout = child[k].stdout
      /\ \A l \in Slots : l # k => child'[l] = child[l]
    BY DEF ChildTakes, TypeOK
<1> HIDE DEF queue, first
\* What is left in a queue was there before, further back in k's.
<1>4. ASSUME NEW l \in Slots, NEW i \in 1..Len(child'[l].stdin)
      PROVE  \E n \in 1..Len(child[l].stdin) :
                /\ child'[l].stdin[i] = child[l].stdin[n]
                /\ n = IF l = k THEN i + 1 ELSE i
    <2>1. CASE l = k
        BY <1>2, <1>3, <2>1 DEF queue
    <2>2. CASE l # k
        BY <1>3, <2>2
    <2>. QED  BY <2>1, <2>2
<1>5. ASSUME NEW l \in Slots, NEW i \in 1..Len(child'[l].stdin)
      PROVE  StillSent(child'[l].stdin[i]) /\ child'[l].stdin[i].call \notin ran'
    <2>1. PICK n \in 1..Len(child[l].stdin) :
            child'[l].stdin[i] = child[l].stdin[n] /\ n = IF l = k THEN i + 1 ELSE i
        BY <1>4
    <2>2. StillSent(child[l].stdin[n]) /\ child[l].stdin[n].call \notin ran
        BY AllStillSent DEF LinesSent
    <2>3. child[l].stdin[n].call # first.call
        BY <1>2, <2>1 DEF QueuedOnce, queue
    <2>. QED  BY <1>1, <2>1, <2>2, <2>3
<1>6. ASSUME NEW l \in Slots, child'[l].serving # None
      PROVE  StillSent(child'[l].serving) /\ child'[l].serving.call \in ran'
    <2>1. CASE l = k
        BY <1>1, <1>2, <1>3, <2>1, AllStillSent DEF queue
    <2>2. CASE l # k
        BY <1>1, <1>3, <1>6, <2>2, AllStillSent DEF LinesSent
    <2>. QED  BY <2>1, <2>2
<1>7. ASSUME NEW l \in Slots, NEW i \in 1..Len(child'[l].stdout)
      PROVE  StillSent(child'[l].stdout[i]) /\ child'[l].stdout[i].call \in ran'
    <2>1. child'[l].stdout = child[l].stdout
        BY <1>3
    <2>. QED  BY <1>1, <2>1, AllStillSent DEF LinesSent
<1>8. LinesSent'
    BY <1>5, <1>6, <1>7 DEF LinesSent, SentLine, StillSent
<1>9. ASSUME NEW l \in Slots, NEW m \in Slots,
             NEW i \in 1..Len(child'[l].stdin), NEW j \in 1..Len(child'[m].stdin),
             child'[l].stdin[i].call = child'[m].stdin[j].call
      PROVE  l = m /\ i = j
    <2>1. PICK n \in 1..Len(child[l].stdin) :
            child'[l].stdin[i] = child[l].stdin[n] /\ n = IF l = k THEN i + 1 ELSE i
        BY <1>4
    <2>2. PICK o \in 1..Len(child[m].stdin) :
            child'[m].stdin[j] = child[m].stdin[o] /\ o = IF m = k THEN j + 1 ELSE j
        BY <1>4
    <2>3. l = m /\ n = o
        BY <1>9, <2>1, <2>2 DEF QueuedOnce
    <2>. QED  BY <2>1, <2>2, <2>3
<1>10. QueuedOnce'
    BY <1>9 DEF QueuedOnce
<1>. QED  BY <1>8, <1>10

\* A step that leaves stdin and ran alone.
LEMMA StdinKept ==
    ASSUME QueuedOnce, \A k \in Slots : child'[k].stdin = child[k].stdin
    PROVE  QueuedOnce'
<1>1. ASSUME NEW k \in Slots, NEW l \in Slots,
             NEW i \in 1..Len(child'[k].stdin), NEW j \in 1..Len(child'[l].stdin),
             child'[k].stdin[i].call = child'[l].stdin[j].call
      PROVE  k = l /\ i = j
    <2>1. child'[k].stdin = child[k].stdin /\ child'[l].stdin = child[l].stdin
        OBVIOUS
    <2>. QED  BY <1>1, <2>1 DEF QueuedOnce
<1>. QED  BY <1>1 DEF QueuedOnce

LEMMA AnswerLines ==
    ASSUME TypeOK, LinesSent, QueuedOnce, [Next]_vars, NEW k \in Slots, ChildAnswers(k)
    PROVE  LinesSent' /\ QueuedOnce'
<1> DEFINE out == child[k].stdout
           line == child[k].serving
<1>1. out \in Seq(Line) /\ line \in Line /\ line # None /\ ran' = ran
    BY DEF ChildAnswers, TypeOK
<1>2. /\ Len(Append(out, line)) = Len(out) + 1 /\ Len(out) \in Nat
      /\ \A i \in 1..Len(out) : Append(out, line)[i] = out[i]
      /\ Append(out, line)[Len(out) + 1] = line
    BY <1>1, AppendProperties, LenProperties
<1>3. /\ child'[k].stdout = Append(out, line) /\ child'[k].serving = None
      /\ child'[k].stdin = child[k].stdin
      /\ \A l \in Slots : l # k => child'[l] = child[l]
    BY DEF ChildAnswers, TypeOK
<1> HIDE DEF out, line
<1>4. ASSUME NEW l \in Slots, NEW i \in 1..Len(child'[l].stdout)
      PROVE  StillSent(child'[l].stdout[i]) /\ child'[l].stdout[i].call \in ran'
    <2>1. CASE l # k
        BY <1>1, <1>3, <2>1, AllStillSent DEF LinesSent
    <2>2. CASE l = k /\ i \in 1..Len(out)
        <3>1. child'[l].stdout[i] = child[l].stdout[i] /\ i \in 1..Len(child[l].stdout)
            BY <1>2, <1>3, <2>2 DEF out
        <3>. QED  BY <1>1, <3>1, AllStillSent DEF LinesSent
    <2>3. CASE l = k /\ i \notin 1..Len(out)
        <3>1. child'[l].stdout[i] = line
            BY <1>2, <1>3, <2>3
        <3>. QED  BY <1>1, <3>1, AllStillSent DEF LinesSent, line
    <2>. QED  BY <2>1, <2>2, <2>3
<1>5. ASSUME NEW l \in Slots, child'[l].serving # None
      PROVE  StillSent(child'[l].serving) /\ child'[l].serving.call \in ran'
    <2>1. child'[l].serving = child[l].serving
        BY <1>3, <1>5
    <2>. QED  BY <1>1, <1>5, <2>1, AllStillSent DEF LinesSent
<1>6. \A l \in Slots : child'[l].stdin = child[l].stdin
    BY <1>3
<1>7. ASSUME NEW l \in Slots, NEW i \in 1..Len(child'[l].stdin)
      PROVE  StillSent(child'[l].stdin[i]) /\ child'[l].stdin[i].call \notin ran'
    BY <1>1, <1>6, AllStillSent DEF LinesSent
<1>8. LinesSent'
    BY <1>4, <1>5, <1>7 DEF LinesSent, SentLine, StillSent
<1>. QED  BY <1>6, <1>8, StdinKept

LEMMA DispatchLines ==
    ASSUME TypeOK, LinesSent, QueuedOnce, [Next]_vars, NEW k \in Slots, DispatchResponse(k)
    PROVE  LinesSent' /\ QueuedOnce'
<1> DEFINE out == child[k].stdout
<1>1. out \in Seq(Line) /\ out # <<>> /\ ran' = ran
    BY DEF DispatchResponse, TypeOK
<1>2. \A i \in 1..Len(Tail(out)) : Tail(out)[i] = out[i + 1] /\ i + 1 \in 1..Len(out)
    BY <1>1, HeadTailProperties, LenProperties
<1>3. /\ child'[k].stdout = Tail(out) /\ child'[k].serving = child[k].serving
      /\ child'[k].stdin = child[k].stdin
      /\ \A l \in Slots : l # k => child'[l] = child[l]
    BY DEF DispatchResponse, TypeOK
<1> HIDE DEF out
<1>4. ASSUME NEW l \in Slots, NEW i \in 1..Len(child'[l].stdout)
      PROVE  StillSent(child'[l].stdout[i]) /\ child'[l].stdout[i].call \in ran'
    <2>1. CASE l # k
        BY <1>1, <1>3, <2>1, AllStillSent DEF LinesSent
    <2>2. CASE l = k
        <3>1. child'[l].stdout[i] = child[l].stdout[i + 1] /\ i + 1 \in 1..Len(child[l].stdout)
            BY <1>2, <1>3, <2>2 DEF out
        <3>. QED  BY <1>1, <3>1, AllStillSent DEF LinesSent
    <2>. QED  BY <2>1, <2>2
<1>5. ASSUME NEW l \in Slots, child'[l].serving # None
      PROVE  StillSent(child'[l].serving) /\ child'[l].serving.call \in ran'
    <2>1. child'[l].serving = child[l].serving
        BY <1>3
    <2>. QED  BY <1>1, <1>5, <2>1, AllStillSent DEF LinesSent
<1>6. \A l \in Slots : child'[l].stdin = child[l].stdin
    BY <1>3
<1>7. ASSUME NEW l \in Slots, NEW i \in 1..Len(child'[l].stdin)
      PROVE  StillSent(child'[l].stdin[i]) /\ child'[l].stdin[i].call \notin ran'
    BY <1>1, <1>6, AllStillSent DEF LinesSent
<1>8. LinesSent'
    BY <1>4, <1>5, <1>7 DEF LinesSent, SentLine, StillSent
<1>. QED  BY <1>6, <1>8, StdinKept

\* The steps that take from no pipe but all of it.
LEMMA OtherLines ==
    ASSUME TypeOK, [Next]_vars,
           \/ \E t \in Traces : SetTraceId(t)
           \/ \E c \in Calls : \/ Connect(c) \/ TcpServe(c)
                               \/ ClientStep(c) /\ ~Send(c)
           \/ \E k \in Slots : ChildExit(k) \/ ChildStarts(k) \/ ChildDies(k)
           \/ AgentStarts \/ AgentDies \/ Shutdown \/ UNCHANGED vars
    PROVE  /\ \A k \in Slots : /\ child'[k].stdin \in {child[k].stdin, <<>>}
                               /\ child'[k].serving \in {child[k].serving, None}
                               /\ child'[k].stdout \in {child[k].stdout, <<>>}
           /\ ran \subseteq ran'
           /\ \A c \in ran' : c \in ran \/ stage[c] = "tcp"
<1> DEFINE P == \A k \in Slots : /\ child'[k].stdin \in {child[k].stdin, <<>>}
                               /\ child'[k].serving \in {child[k].serving, None}
                               /\ child'[k].stdout \in {child[k].stdout, <<>>}
           R == ran \subseteq ran' /\ \A c \in ran' : c \in ran \/ stage[c] = "tcp"
<1>0. child \in [Slots -> Children]
    BY DEF TypeOK, Children
<1>1. ASSUME UNCHANGED child PROVE P
    BY <1>1
<1>2. ASSUME UNCHANGED ran PROVE R
    BY <1>2
<1>3. ASSUME NEW k \in Slots, child' = [child EXCEPT ![k] = Dead(k)] PROVE P
    <2>1. Dead(k).stdin = <<>> /\ Dead(k).serving = None /\ Dead(k).stdout = child[k].stdout
        BY <1>0 DEF Dead, Children
    <2>2. child'[k] = Dead(k) /\ \A l \in Slots : l # k => child'[l] = child[l]
        BY <1>0, <1>3
    <2>. QED  BY <2>1, <2>2
<1>4. ASSUME NEW c \in Calls, ProbeFails(c) PROVE P /\ R
    <2>1. CASE UNCHANGED child
        BY <1>1, <1>2, <1>4, <2>1 DEF ProbeFails
    <2>2. CASE ~UNCHANGED child
        <3>1. PICK k \in Slots : child' = [child EXCEPT ![k] = [NoChild EXCEPT !.life = "starting"]]
            BY <1>4, <2>2 DEF ProbeFails, Spawned
        <3>2. child'[k] = [NoChild EXCEPT !.life = "starting"] /\ \A l \in Slots : l # k => child'[l] = child[l]
            BY <1>0, <3>1
        <3>3. child'[k].stdin = <<>> /\ child'[k].serving = None /\ child'[k].stdout = <<>>
            BY <3>2 DEF NoChild
        <3>. QED  BY <1>2, <1>4, <3>2, <3>3 DEF ProbeFails
    <2>. QED  BY <2>1, <2>2
<1>5. ASSUME NEW c \in Calls, Connect(c) \/ TcpServe(c) \/ (ClientStep(c) /\ ~Send(c) /\ ~ProbeFails(c))
      PROVE  P /\ R
    <2>1. UNCHANGED child
        BY <1>5 DEF ClientStep, Begin, ProbeAnswered, StdioTimeout, TcpTimeout, TcpError, TcpData,
                    Connect, TcpServe, daemonVars
    <2>2. CASE TcpServe(c)
        BY <1>1, <2>1, <2>2 DEF TcpServe
    <2>3. CASE ~TcpServe(c)
        BY <1>1, <1>2, <1>5, <2>1, <2>3
            DEF ClientStep, Begin, ProbeAnswered, StdioTimeout, TcpTimeout, TcpError, TcpData,
                Connect, daemonVars
    <2>. QED  BY <2>2, <2>3
<1>6. ASSUME NEW k \in Slots, ChildExit(k) PROVE P /\ R
    <2>1. ran' = ran /\ child' = [child EXCEPT ![k] = NoChild]
        BY <1>6 DEF ChildExit
    <2>2. child'[k] = NoChild /\ \A l \in Slots : l # k => child'[l] = child[l]
        BY <1>0, <2>1
    <2>3. P
        BY <2>2 DEF NoChild
    <2>. QED  BY <1>2, <2>1, <2>3
<1>7. ASSUME NEW k \in Slots, ChildDies(k) PROVE P /\ R
    BY <1>2, <1>3, <1>7 DEF ChildDies
<1>8. ASSUME NEW k \in Slots, ChildStarts(k) PROVE P /\ R
    <2>1. ran' = ran /\ child' = [child EXCEPT ![k].life = "running"]
        BY <1>8 DEF ChildStarts
    <2>2. P
        BY <1>0, <2>1 DEF Children
    <2>. QED  BY <1>2, <2>1, <2>2
<1>9. CASE Shutdown
    <2>1. ran' = ran
        BY <1>9 DEF Shutdown
    <2>2. CASE UNCHANGED child
        BY <1>1, <1>2, <2>1, <2>2
    <2>3. CASE ~UNCHANGED child
        <3>1. proc # None /\ child' = [child EXCEPT ![proc] = Dead(proc)]
            BY <1>9, <2>3 DEF Shutdown
        <3>2. proc \in Slots
            BY <3>1 DEF TypeOK
        <3>. QED  BY <1>2, <1>3, <2>1, <3>1, <3>2
    <2>. QED  BY <2>2, <2>3
<1>10. CASE (\E t \in Traces : SetTraceId(t)) \/ AgentStarts \/ AgentDies \/ UNCHANGED vars
    BY <1>1, <1>2, <1>10 DEF SetTraceId, AgentStarts, AgentDies, vars, daemonVars
<1>. QED  BY <1>4, <1>5, <1>6, <1>7, <1>8, <1>9, <1>10

LEMMA LinesStep ==
    ASSUME TypeOK, LinesSent, QueuedOnce, RanOnce, [Next]_vars
    PROVE  LinesSent' /\ QueuedOnce'
<1>1. ASSUME NEW c \in Calls, Send(c)
      PROVE  LinesSent' /\ QueuedOnce'
    BY <1>1, SendLines
<1>2. ASSUME NEW k \in Slots, ChildTakes(k) \/ ChildAnswers(k) \/ DispatchResponse(k)
      PROVE  LinesSent' /\ QueuedOnce'
    BY <1>2, TakeLines, AnswerLines, DispatchLines
<1>3. CASE \/ \E t \in Traces : SetTraceId(t)
           \/ \E c \in Calls : \/ Connect(c) \/ TcpServe(c)
                               \/ ClientStep(c) /\ ~Send(c)
           \/ \E k \in Slots : ChildExit(k) \/ ChildStarts(k) \/ ChildDies(k)
           \/ AgentStarts \/ AgentDies \/ Shutdown \/ UNCHANGED vars
    BY <1>3, OtherLines, LinesKept
<1>. QED  BY <1>1, <1>2, <1>3 DEF Next, ChildStep

-----------------------------------------------------------------------------
\* Who has been carried out, and with what answer a command ends.

LEMMA RanKept ==
    ASSUME TypeOK, RanOnce, ran' = ran,
           \A c \in Calls : \/ stage'[c] = stage[c] /\ sock'[c] = sock[c]
                            \/ stage'[c] = "done"
                            \/ stage[c] \notin {"stdio", "tcp", "done"} /\ stage'[c] # "tcp"
                            \/ /\ stage[c] \notin {"stdio", "tcp", "done"}
                               /\ stage'[c] = "tcp" /\ sock'[c] = "connecting"
                            \/ /\ stage'[c] = stage[c]
                               /\ sock[c] # "answered" /\ sock'[c] # "answered"
    PROVE  RanOnce'
    BY DEF RanOnce

LEMMA RanStep == ASSUME TypeOK, LinesSent, RanOnce, [Next]_vars PROVE RanOnce'
<1>1. CASE UNCHANGED <<stage, sock, ran>>
    BY <1>1 DEF RanOnce
<1>2. ASSUME NEW c \in Calls, ClientStep(c)
      PROVE  RanOnce'
    <2>1. ran' = ran
        BY <1>2 DEF ClientStep, Begin, ProbeAnswered, ProbeFails, Send, StdioTimeout, TcpTimeout,
                    TcpError, TcpData, daemonVars
    <2>2. CASE Begin(c)
        BY <2>1, <2>2, RanKept DEF Begin, TypeOK
    <2>3. CASE ProbeAnswered(c)
        BY <2>1, <2>3, RanKept DEF ProbeAnswered, TypeOK
    <2>4. CASE ProbeFails(c)
        <3>1. /\ stage[c] = "probing" /\ stage'[c] \in {"probing", "ready"}
              /\ \A d \in Calls : d # c => stage'[d] = stage[d] /\ sock'[d] = sock[d]
            BY <2>4 DEF ProbeFails, TypeOK
        <3>. QED  BY <2>1, <3>1, RanKept
    <2>5. CASE Send(c)
        <3>1. /\ stage[c] = "ready"
              /\ \/ stage'[c] = "tcp" /\ sock'[c] = "connecting"
                 \/ stage'[c] \in {"stdio", "done"}
            BY <2>5 DEF Send, Settle, TypeOK
        <3>2. \A d \in Calls : d # c => stage'[d] = stage[d] /\ sock'[d] = sock[d]
            BY <2>5 DEF Send, Settle, TypeOK
        <3>3. /\ stage[c] \notin {"stdio", "tcp", "done"}
              /\ \/ stage'[c] = "tcp" /\ sock'[c] = "connecting"
                 \/ stage'[c] # "tcp"
            BY <3>1
        <3>. QED  BY <2>1, <3>2, <3>3, RanKept
    <2>6. CASE StdioTimeout(c) \/ TcpTimeout(c) \/ TcpError(c) \/ TcpData(c)
        <3>1. \E o : Settle({c}, o)
            BY <2>6 DEF StdioTimeout, TcpTimeout, TcpError, TcpData
        <3>2. \A d \in Calls : stage'[d] = "done" \/ (stage'[d] = stage[d] /\ sock'[d] = sock[d])
            BY <3>1 DEF Settle
        <3>. QED  BY <2>1, <3>2, RanKept
    <2>. QED  BY <1>2, <2>2, <2>3, <2>4, <2>5, <2>6 DEF ClientStep
<1>3. ASSUME NEW c \in Calls, Connect(c)
      PROVE  RanOnce'
    <2>1. ran' = ran /\ stage' = stage /\ sock[c] = "connecting" /\ sock'[c] = "open"
          /\ \A d \in Calls : d # c => sock'[d] = sock[d]
        BY <1>3 DEF Connect, daemonVars, TypeOK
    <2>. QED  BY <2>1, RanKept
<1>4. ASSUME NEW c \in Calls, TcpServe(c)
      PROVE  RanOnce'
    <2>1. /\ stage[c] = "tcp" /\ stage' = stage
          /\ \A d \in Calls : d # c => sock'[d] = sock[d]
          /\ IF c \in Big THEN ran' = ran ELSE ran' = ran \cup {c} /\ sock'[c] = "answered"
          /\ sock[c] = "open"
        BY <1>4 DEF TcpServe, TypeOK
    <2>. QED  BY <2>1 DEF RanOnce
<1>5. ASSUME NEW k \in Slots, ChildTakes(k)
      PROVE  RanOnce'
    <2> DEFINE first == Head(child[k].stdin)
    <2>1. /\ child[k].stdin \in Seq(Line) /\ child[k].stdin # <<>>
          /\ ran' = ran \cup {first.call} /\ UNCHANGED <<stage, sock>>
        BY <1>5 DEF ChildTakes, callVars, TypeOK
    <2>2. first = child[k].stdin[1] /\ 1 \in 1..Len(child[k].stdin)
        BY <2>1, HeadTailProperties, LenProperties
    <2>3. stage[first.call] \in {"stdio", "done"}
        BY <2>2 DEF LinesSent, SentLine
    <2>. QED  BY <2>1, <2>3 DEF RanOnce
<1>6. ASSUME NEW k \in Slots, DispatchResponse(k) \/ ChildExit(k)
      PROVE  RanOnce'
    <2>1. ran' = ran /\ (UNCHANGED <<stage, sock>> \/ \E C, o : Settle(C, o))
        BY <1>6 DEF DispatchResponse, ChildExit, RejectAllPending, callVars
    <2>2. CASE UNCHANGED <<stage, sock>>
        BY <1>1, <2>1, <2>2
    <2>3. CASE \E C, o : Settle(C, o)
        <3>1. \A d \in Calls : stage'[d] = "done" \/ (stage'[d] = stage[d] /\ sock'[d] = sock[d])
            BY <2>3 DEF Settle
        <3>. QED  BY <2>1, <3>1, RanKept
    <2>. QED  BY <2>1, <2>2, <2>3
\* A connection that breaks was open, so nothing had been answered on it.
<1>7. ASSUME Break PROVE \A d \in Calls : \/ sock'[d] = sock[d]
                                          \/ sock[d] = "open" /\ sock'[d] \in {"reset", "closed"}
    BY <1>7 DEF Break
<1>8. CASE Shutdown
    <2>1. /\ ran' = ran
          /\ \A d \in Calls : stage'[d] = stage[d] \/ stage'[d] = "done"
          /\ UNCHANGED sock \/ Break
        BY <1>8 DEF Shutdown, callVars
    <2>. QED  BY <1>7, <2>1, RanKept
<1>9. ASSUME AgentDies \/ \E k \in Slots : ChildDies(k)
      PROVE  RanOnce'
    <2>1. ran' = ran /\ stage' = stage /\ (UNCHANGED sock \/ Break)
        BY <1>9 DEF AgentDies, ChildDies
    <2>. QED  BY <1>7, <2>1, RanKept
<1>10. CASE \/ \E t \in Traces : SetTraceId(t)
            \/ \E k \in Slots : ChildAnswers(k) \/ ChildStarts(k)
            \/ AgentStarts \/ UNCHANGED vars
    <2>1. UNCHANGED <<stage, sock, ran>>
        BY <1>10 DEF SetTraceId, ChildAnswers, ChildStarts, AgentStarts, vars, callVars, daemonVars
    <2>. QED  BY <1>1, <2>1
<1>. QED
    BY <1>2, <1>3, <1>4, <1>5, <1>6, <1>8, <1>9, <1>10 DEF Next, ChildStep

\* The line that is read is an answer to the command that waits under its id.
LEMMA AnswerIsOwn ==
    ASSUME TypeOK, IdsUnique, EntriesMatch, LinesSent, NEW k \in Slots, child[k].stdout # <<>>,
           NEW line, line = Head(child[k].stdout), pending[line.id] # None
    PROVE  /\ line.call \in Calls /\ pending[line.id] = line.call
           /\ line.call \in ran /\ stage[line.call] = "stdio"
<1> DEFINE c == pending[line.id]
<1>1. child[k].stdout \in Seq(Line)
    BY DEF TypeOK
<1>2. line = child[k].stdout[1] /\ 1 \in 1..Len(child[k].stdout) /\ line \in Line
    BY <1>1, HeadTailProperties, LenProperties
<1>3. line.id = ident[line.call] /\ line.call \in ran
    BY <1>2 DEF LinesSent, SentLine
<1>4. line.id \in Ids /\ line.call \in Calls
    BY <1>2 DEF Line
<1>5. c \in Calls /\ stage[c] = "stdio" /\ ident[c] = line.id
    BY <1>4 DEF EntriesMatch, TypeOK
<1>6. c = line.call
    BY <1>3, <1>4, <1>5 DEF IdsUnique
<1>. QED  BY <1>3, <1>4, <1>5, <1>6

LEMMA NeverAnothersStep ==
    ASSUME TypeOK, IdsUnique, EntriesMatch, LinesSent, NeverAnothers, [Next]_vars
    PROVE  NeverAnothers'
<1>1. ASSUME NEW C, NEW o, Settle(C, o), o # "other"
      PROVE  NeverAnothers'
    BY <1>1 DEF Settle, NeverAnothers
<1>2. CASE UNCHANGED outcome
    BY <1>2 DEF NeverAnothers
<1>3. ASSUME NEW c \in Calls, Begin(c) \/ ProbeAnswered(c) \/ ProbeFails(c) \/ Connect(c) \/ TcpServe(c)
      PROVE  UNCHANGED outcome
    BY <1>3 DEF Begin, ProbeAnswered, ProbeFails, Connect, TcpServe
<1>4. ASSUME NEW c \in Calls, Send(c)
      PROVE  NeverAnothers'
    BY <1>1, <1>2, <1>4 DEF Send
<1>5. ASSUME NEW c \in Calls, StdioTimeout(c) \/ TcpTimeout(c) \/ TcpError(c) \/ TcpData(c)
      PROVE  NeverAnothers'
    BY <1>1, <1>5 DEF StdioTimeout, TcpTimeout, TcpError, TcpData
<1>6. ASSUME NEW k \in Slots, DispatchResponse(k)
      PROVE  NeverAnothers'
    <2> DEFINE line == Head(child[k].stdout)
    <2>1. CASE pending[line.id] = None
        BY <1>2, <1>6, <2>1 DEF DispatchResponse, callVars
    <2>2. CASE pending[line.id] # None
        <3>1. line.call = pending[line.id]
            <4>1. child[k].stdout # <<>>
                BY <1>6 DEF DispatchResponse
            <4>. QED  BY <2>2, <4>1, AnswerIsOwn
        <3>2. Settle({pending[line.id]}, "own")
            BY <1>6, <2>2, <3>1 DEF DispatchResponse
        <3>. QED  BY <1>1, <3>2
    <2>. QED  BY <2>1, <2>2
<1>7. ASSUME NEW k \in Slots, ChildExit(k)
      PROVE  NeverAnothers'
    BY <1>1, <1>2, <1>7 DEF ChildExit, RejectAllPending, callVars
<1>8. CASE Shutdown
    BY <1>2, <1>8 DEF Shutdown, NeverAnothers, callVars
<1>9. CASE \/ \E t \in Traces : SetTraceId(t)
           \/ \E k \in Slots : ChildTakes(k) \/ ChildAnswers(k) \/ ChildStarts(k) \/ ChildDies(k)
           \/ AgentStarts \/ AgentDies \/ UNCHANGED vars
    BY <1>2, <1>9 DEF SetTraceId, ChildTakes, ChildAnswers, ChildStarts, ChildDies, AgentStarts,
                      AgentDies, vars, callVars
<1>. QED
    BY <1>2, <1>3, <1>4, <1>5, <1>6, <1>7, <1>8, <1>9 DEF Next, ClientStep, ChildStep

-----------------------------------------------------------------------------
\* The theorems.

LEMMA EngineStep == EngineInv /\ [Next]_vars => EngineInv'
    BY EngineTypeStep, OneChildStep, IdsStep, EntriesStep, LinesStep, RanStep, NeverAnothersStep
        DEF EngineInv

LEMMA EngineInvariant == Spec => []EngineInv
    BY EngineInit, EngineStep, PTL DEF Spec

\* The request map never holds a command that no longer waits, nor misses one
\* that does (daemon.ts:398-420, 482-516).
THEOREM PendingCorrect == Spec => []PendingMatches
<1>1. EngineInv => PendingMatches
    <2> SUFFICES ASSUME EngineInv PROVE PendingMatches
        OBVIOUS
    <2> USE DEF EngineInv
    <2>1. ASSUME NEW c \in Calls
          PROVE  stage[c] = "stdio" <=> c \in Waiters
        <3>1. ASSUME stage[c] = "stdio" PROVE c \in Waiters
            <4>1. pending[ident[c]] = c /\ ident[c] \in Ids /\ c # None
                BY <3>1, DaemonEngineAssumption DEF EntriesMatch, TypeOK
            <4>. QED  BY <4>1 DEF Waiters
        <3>2. ASSUME c \in Waiters PROVE stage[c] = "stdio"
            BY <3>2 DEF Waiters, EntriesMatch
        <3>. QED  BY <3>1, <3>2
    <2>2. Waiters \subseteq Calls
        BY DEF Waiters, TypeOK
    <2>3. \A i, j \in Ids : pending[i] # None /\ pending[i] = pending[j] => i = j
        BY DEF EntriesMatch
    <2>. QED  BY <2>1, <2>2, <2>3 DEF PendingMatches
<1>. QED  BY <1>1, EngineInvariant, PTL

\* However many commands find no daemon at once, at most one child lives
\* (daemon.ts:294-296).
THEOREM OneChildCorrect == Spec => []OneChild
<1>1. EngineInv => OneChild
    BY DEF EngineInv, ChildOfProc, OneChild
<1>. QED  BY <1>1, EngineInvariant, PTL

-----------------------------------------------------------------------------
\* Refinement of RequestReply, without its fairness.

Request == [c \in Calls |-> RequestOf(c)]

\* A command moves about without being begun or ended.
LEMMA RequestKept ==
    ASSUME \A c \in Calls : /\ stage[c] = "idle" <=> stage'[c] = "idle"
                            /\ stage[c] = "done" <=> stage'[c] = "done"
                            /\ stage[c] = "done" => outcome'[c] = outcome[c]
    PROVE  Request' = Request
<1>1. \A c \in Calls : RequestOf(c)' = RequestOf(c)
    BY DEF RequestOf
<1>. QED  BY <1>1 DEF Request

LEMMA RequestFails ==
    ASSUME NEW C \in SUBSET Calls, \A c \in C : stage[c] \notin {"idle", "done"},
           NEW o \in {"refused", "failed", "timeout"}, ran' = ran,
           stage' = [c \in Calls |-> IF c \in C THEN "done" ELSE stage[c]],
           outcome' = [c \in Calls |-> IF c \in C THEN o ELSE outcome[c]]
    PROVE  Requests!Next
<1>1. \A c \in Calls : RequestOf(c)' = IF c \in C THEN "failed" ELSE RequestOf(c)
    BY DEF RequestOf
<1>2. \A c \in C : Request[c] = "open"
    BY DEF RequestOf, Request
<1>3. Request' = [c \in Calls |-> IF c \in C THEN "failed" ELSE Request[c]]
    BY <1>1 DEF Request
<1>4. Requests!Fail(C)
    BY <1>2, <1>3 DEF Requests!Fail, Request
<1>. QED  BY <1>4 DEF Requests!Next

LEMMA RequestAnswered ==
    ASSUME NEW c \in Calls, stage[c] \notin {"idle", "done"}, c \in ran, ran' = ran,
           stage' = [d \in Calls |-> IF d \in {c} THEN "done" ELSE stage[d]],
           outcome' = [d \in Calls |-> IF d \in {c} THEN "own" ELSE outcome[d]]
    PROVE  Requests!Next
<1>1. \A d \in Calls : RequestOf(d)' = IF d = c THEN "own" ELSE RequestOf(d)
    BY DEF RequestOf
<1>2. Request[c] = "open"
    BY DEF RequestOf, Request
<1>3. Request' = [Request EXCEPT ![c] = "own"]
    BY <1>1 DEF Request
<1>4. Requests!Reply(c)
    BY <1>2, <1>3 DEF Requests!Reply, Request
<1>. QED  BY <1>4 DEF Requests!Next

LEMMA RequestRuns ==
    ASSUME NEW c \in Calls, stage[c] # "idle", c \notin ran, ran' = ran \cup {c},
           UNCHANGED <<stage, outcome>>
    PROVE  Requests!Next
<1>1. Request' = Request
    BY RequestKept
<1>2. Request[c] # "none"
    BY DEF Request, RequestOf
<1>3. Requests!Run(c)
    BY <1>1, <1>2 DEF Requests!Run, Request
<1>. QED  BY <1>3 DEF Requests!Next

LEMMA RequestStep == ASSUME EngineInv, [Next]_vars PROVE [Requests!Next]_(Requests!replyVars)
<1> USE DEF EngineInv
<1> DEFINE Goal == [Requests!Next]_(Requests!replyVars)
<1>1. ASSUME ran' = ran,
             \A c \in Calls : /\ stage[c] = "idle" <=> stage'[c] = "idle"
                              /\ stage[c] = "done" <=> stage'[c] = "done"
                              /\ stage[c] = "done" => outcome'[c] = outcome[c]
      PROVE  Goal
    BY <1>1, RequestKept DEF Requests!replyVars, Request
<1>2. ASSUME NEW c \in Calls, Begin(c)
      PROVE  Goal
    <2>1. /\ stage[c] = "idle" /\ ran' = ran /\ outcome' = outcome
          /\ stage'[c] \in {"ready", "probing"}
          /\ \A d \in Calls : d # c => stage'[d] = stage[d]
        BY <1>2 DEF Begin, daemonVars, TypeOK
    <2>2. \A d \in Calls : RequestOf(d)' = IF d = c THEN "open" ELSE RequestOf(d)
        BY <2>1 DEF RequestOf
    <2>3. Request[c] = "none"
        BY <2>1 DEF RequestOf, Request
    <2>4. Request' = [Request EXCEPT ![c] = "open"]
        BY <2>2 DEF Request
    <2>5. Requests!Open(c)
        BY <2>1, <2>3, <2>4 DEF Requests!Open, Request
    <2>. QED  BY <2>5 DEF Requests!Next
<1>3. ASSUME NEW c \in Calls, ProbeAnswered(c) \/ ProbeFails(c)
      PROVE  Goal
    <2>1. /\ stage[c] = "probing" /\ ran' = ran /\ outcome' = outcome
          /\ stage'[c] \in {"ready", "probing"}
          /\ \A d \in Calls : d # c => stage'[d] = stage[d]
        BY <1>3 DEF ProbeAnswered, ProbeFails, daemonVars, TypeOK
    <2>. QED  BY <1>1, <2>1
<1>4. ASSUME NEW c \in Calls, Send(c)
      PROVE  Goal
    <2>1. stage[c] = "ready" /\ ran' = ran
        BY <1>4 DEF Send
    <2>2. CASE Settle({c}, "failed")
        BY <2>1, <2>2, RequestFails DEF Settle
    <2>3. CASE ~Settle({c}, "failed")
        <3>1. /\ stage'[c] \in {"tcp", "stdio"} /\ outcome' = outcome
              /\ \A d \in Calls : d # c => stage'[d] = stage[d]
            BY <1>4, <2>3 DEF Send, TypeOK
        <3>. QED  BY <1>1, <2>1, <3>1
    <2>. QED  BY <2>2, <2>3
<1>5. ASSUME NEW c \in Calls, StdioTimeout(c) \/ TcpTimeout(c) \/ TcpError(c)
      PROVE  Goal
    <2>1. /\ stage[c] \in {"stdio", "tcp"} /\ ran' = ran
          /\ Settle({c}, "failed") \/ Settle({c}, "timeout")
        BY <1>5 DEF StdioTimeout, TcpTimeout, TcpError, daemonVars
    <2>2. ASSUME NEW o \in {"failed", "timeout"}, Settle({c}, o)
          PROVE  Goal
        BY <2>1, <2>2, RequestFails DEF Settle
    <2>. QED  BY <2>1, <2>2
<1>6. ASSUME NEW c \in Calls, TcpData(c)
      PROVE  Goal
    <2>1. stage[c] = "tcp" /\ sock[c] = "answered" /\ ran' = ran
        BY <1>6 DEF TcpData, daemonVars
    <2>2. CASE c \in Big
        <3>1. Settle({c}, "refused")
            BY <1>6, <2>2 DEF TcpData
        <3>. QED  BY <2>1, <3>1, RequestFails DEF Settle
    <2>3. CASE c \notin Big
        <3>1. Settle({c}, "own")
            BY <1>6, <2>3 DEF TcpData
        <3>2. c \in ran
            BY <2>1, <2>3 DEF RanOnce
        <3>. QED  BY <2>1, <3>1, <3>2, RequestAnswered DEF Settle
    <2>. QED  BY <2>2, <2>3
<1>7. ASSUME NEW c \in Calls, TcpServe(c)
      PROVE  Goal
    <2>1. stage[c] = "tcp" /\ sock[c] = "open" /\ UNCHANGED <<stage, outcome>>
        BY <1>7 DEF TcpServe
    <2>2. CASE c \in Big
        BY <1>1, <1>7, <2>1, <2>2 DEF TcpServe
    <2>3. CASE c \notin Big
        <3>1. c \notin ran
            BY <2>1 DEF RanOnce
        <3>2. ran' = ran \cup {c}
            BY <1>7, <2>3 DEF TcpServe
        <3>. QED  BY <2>1, <3>1, <3>2, RequestRuns
    <2>. QED  BY <2>2, <2>3
<1>8. ASSUME NEW k \in Slots, ChildTakes(k)
      PROVE  Goal
    <2> DEFINE first == Head(child[k].stdin)
    <2>1. /\ child[k].stdin \in Seq(Line) /\ child[k].stdin # <<>>
          /\ ran' = ran \cup {first.call} /\ UNCHANGED <<stage, outcome>>
        BY <1>8 DEF ChildTakes, callVars, TypeOK
    <2>2. first = child[k].stdin[1] /\ 1 \in 1..Len(child[k].stdin) /\ first \in Line
        BY <2>1, HeadTailProperties, LenProperties
    <2>3. SentLine(first) /\ first.call \notin ran
        BY <2>2 DEF LinesSent
    <2>4. first.call \in Calls /\ stage[first.call] # "idle"
        BY <2>2, <2>3 DEF SentLine, Line
    <2>. QED  BY <2>1, <2>3, <2>4, RequestRuns
<1>9. ASSUME NEW k \in Slots, DispatchResponse(k)
      PROVE  Goal
    <2> DEFINE line == Head(child[k].stdout)
    <2>1. child[k].stdout # <<>> /\ ran' = ran
        BY <1>9 DEF DispatchResponse
    <2>2. CASE pending[line.id] = None
        BY <1>1, <1>9, <2>1, <2>2 DEF DispatchResponse, callVars
    <2>3. CASE pending[line.id] # None
        <3>1. /\ line.call \in Calls /\ pending[line.id] = line.call
              /\ line.call \in ran /\ stage[line.call] = "stdio"
            BY <2>1, <2>3, AnswerIsOwn
        <3>2. Settle({line.call}, "own")
            BY <1>9, <2>3, <3>1 DEF DispatchResponse
        <3>. QED  BY <2>1, <3>1, <3>2, RequestAnswered DEF Settle
    <2>. QED  BY <2>2, <2>3
<1>10. ASSUME ran' = ran,
              stage' = [c \in Calls |-> IF c \in Waiters THEN "done" ELSE stage[c]],
              outcome' = [c \in Calls |-> IF c \in Waiters THEN "failed" ELSE outcome[c]]
       PROVE  Goal
    <2>1. Waiters \in SUBSET Calls /\ \A c \in Waiters : stage[c] = "stdio"
        BY DEF Waiters, EntriesMatch, TypeOK
    <2>. QED  BY <1>10, <2>1, RequestFails
<1>11. ASSUME NEW k \in Slots, ChildExit(k)
       PROVE  Goal
    BY <1>1, <1>10, <1>11 DEF ChildExit, RejectAllPending, Settle, callVars
<1>12. CASE Shutdown
    BY <1>1, <1>10, <1>12 DEF Shutdown, callVars
<1>13. CASE \/ \E t \in Traces : SetTraceId(t)
            \/ \E c \in Calls : Connect(c)
            \/ \E k \in Slots : ChildAnswers(k) \/ ChildStarts(k) \/ ChildDies(k)
            \/ AgentStarts \/ AgentDies \/ UNCHANGED vars
    <2>1. UNCHANGED <<stage, outcome, ran>>
        BY <1>13 DEF SetTraceId, Connect, ChildAnswers, ChildStarts, ChildDies, AgentStarts,
                     AgentDies, vars, callVars, daemonVars
    <2>. QED  BY <1>1, <2>1
<1>. QED
    BY <1>2, <1>3, <1>4, <1>5, <1>6, <1>7, <1>8, <1>9, <1>11, <1>12, <1>13
        DEF Next, ClientStep, ChildStep

\* Every step of the engine and of its daemons is a step of RequestReply or
\* invisible to it: whichever way a command goes, it is carried out at most once
\* and ends once, with its own answer or with a failure (daemon.ts:228-516).
THEOREM EngineKeepsPromise == Spec => KeepsPromise
<1>1. Init => Requests!Init
    <2>1. Init => \A c \in Calls : RequestOf(c) = "none"
        BY DEF Init, RequestOf
    <2>. QED  BY <2>1 DEF Init, Requests!Init
<1>. QED
    BY <1>1, RequestStep, EngineInvariant, PTL DEF Spec, KeepsPromise, Requests!SafeSpec
=============================================================================
