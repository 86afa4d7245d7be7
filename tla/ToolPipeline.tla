---------------------------- MODULE ToolPipeline ----------------------------
(***************************************************************************)
(* executeToolWithSecurity of src/server.ts: the health gate and recovery, *)
(* the security gates, the choice of an engine, the tool's handler with    *)
(* its calls through the shared EngineProxy, and what follows its result   *)
(* or its error: breakers, kill switch, tab ownership.                     *)
(*                                                                         *)
(* The MCP SDK starts each call at once, so calls interleave wherever the  *)
(* code awaits.  One step is the code between two awaits.  Safari acts by  *)
(* itself: pages navigate, pages open tabs.                                *)
(***************************************************************************)
EXTENDS CircuitBreaker, SequencesExt

CONSTANTS
    Calls,            \* tool calls that can be in progress at a time
    Kinds,            \* kinds of tools the agent calls, see AllKinds
    Mine,             \* tabs the agent or its pages may open
    Theirs,           \* the user's tabs, open from the start
    NoTab,
    Domains, DomainOf,   \* host name of a tab's pages and, for NoTab, of no URL
    DaemonAvailable,  \* engineAvailability.daemon
    Movers,           \* bound: tabs whose page may navigate by itself
    SnapshotFails,    \* bound: the Apple event that lists the tabs may time out
    MaxErrors,        \* killSwitch.maxErrors
    MaxCalls,         \* bound: tool calls in a behaviour
    MaxMoves          \* bound: navigations of a tab

\* What the tools do with the pipeline.  "script" runs JavaScript through the
\* proxy, once or several times; "shot" may give up on it (the screenshot's own
\* timer); "blind" uses no engine call (PDF export); the rest are named for it.
AllKinds ==
    {"script", "shot", "click", "blind", "navigate", "closeTab", "newTab", "stop"}

Tabs == Mine \cup Theirs

ASSUME PipelineAssumption ==
    /\ Kinds \subseteq AllKinds
    /\ IsFiniteSet(Mine) /\ IsFiniteSet(Theirs)
    /\ Mine \cap Theirs = {} /\ NoTab \notin Tabs /\ Movers \subseteq Tabs
    /\ DomainOf \in [Tabs \cup {NoTab} -> Domains]
    /\ DaemonAvailable \in BOOLEAN /\ SnapshotFails \in BOOLEAN
    /\ MaxErrors \in Nat \ {0} /\ MaxCalls \in Nat /\ MaxMoves \in Nat

\* The page a tab shows has a URL of its own: no two tabs share one.
Urls == Tabs \X (1 .. MaxMoves + 1)
NoUrl == <<NoTab, 0>>
TabOf(url) == url[1]

Engines == {"extension", "daemon", "applescript"}

VARIABLES
    circuit,          \* CircuitBreaker.states
    engineBreaker,    \* its engine scope, for the extension
    stopped,          \* KillSwitch._active
    errorWindow,      \* KillSwitch.errorWindow, its length
    extension,        \* engineAvailability.extension
    proxy,            \* EngineProxy: delegate, tab position, last meta
    registry,         \* TabOwnership.ownedTabs, oldest first
    page,             \* Safari: navigation count of a tab, 0 before it opens
    closed,           \* Safari: tabs that were closed
    late,             \* extension calls nobody awaits, by the URL they ask for
    call,             \* the calls' own variables
    total,            \* history: calls received
    probes,           \* history: calls let in since a domain's circuit opened
    failures,         \* history: tools that failed by themselves
    asked             \* history: an emergency stop was executed

breakerVars == <<circuit, engineBreaker, probes>>
killVars == <<stopped, errorWindow, failures, asked>>
tabVars == <<page, closed>>
pipelineVars ==
    <<breakerVars, killVars, extension, proxy, registry, tabVars, late, call, total>>

NoCall ==
    [phase |-> "idle", kind |-> "none", strict |-> FALSE, url |-> NoUrl,
     engine |-> "none", deferred |-> FALSE, left |-> 0, via |-> "none", at |-> NoTab,
     pos |-> NoTab, seen |-> {}, ran |-> {}, probe |-> FALSE, answer |-> "none"]

Phases ==
    {"idle", "received", "recovering", "registering", "snapshot", "running",
     "waiting", "adopting", "done"}

Answers ==
    {"none", "ok", "error", "refused", "notRecognized", "unavailable", "recoveryFailed"}

CallRecord ==
    [phase : Phases, kind : AllKinds \cup {"none"}, strict : BOOLEAN,
     url : Urls \cup {NoUrl}, engine : Engines \cup {"none"}, deferred : BOOLEAN,
     left : 0 .. 2, via : Engines \cup {"none"}, at : Tabs \cup {NoTab},
     pos : Tabs \cup {NoTab}, seen : SUBSET Urls, ran : SUBSET Tabs, probe : BOOLEAN,
     answer : Answers]

Entry == [tab : Tabs, url : Urls, ext : Tabs \cup {NoTab}]

TypeOK ==
    /\ circuit \in [Domains -> DomainState]
    /\ engineBreaker \in EngineState
    /\ stopped \in BOOLEAN /\ extension \in BOOLEAN /\ asked \in BOOLEAN
    /\ errorWindow \in 0 .. MaxErrors /\ failures \in 0 .. MaxErrors
    /\ proxy \in [delegate : Engines, position : Tabs \cup {NoTab}, meta : Urls \cup {NoUrl}]
    /\ registry \in Seq(Entry)
    /\ page \in [Tabs -> 0 .. MaxMoves + 1] /\ closed \subseteq Tabs
    /\ late \subseteq Urls
    /\ call \in [Calls -> CallRecord]
    /\ total \in 0 .. MaxCalls /\ probes \in [Domains -> Nat]

Init ==
    /\ circuit = [d \in Domains |-> EmptyState]
    /\ engineBreaker = EngineFresh
    /\ stopped = FALSE /\ errorWindow = 0 /\ extension = FALSE
    /\ proxy = [delegate |-> "applescript", position |-> NoTab, meta |-> NoUrl]
    /\ registry = <<>>
    /\ page = [t \in Tabs |-> IF t \in Theirs THEN 1 ELSE 0]
    /\ closed = {} /\ late = {}
    /\ call = [c \in Calls |-> NoCall]
    /\ total = 0 /\ probes = [d \in Domains |-> 0] /\ failures = 0 /\ asked = FALSE

-----------------------------------------------------------------------------
\* TabOwnership: its entries stand in the order they were registered.

\* findByUrl and findByExtensionTabId: the first entry, 0 for none.
FindByUrl(reg, url) == SelectInSeq(reg, LAMBDA e : e.url = url)
FindByExtensionTabId(reg, t) == SelectInSeq(reg, LAMBDA e : e.ext = t)

UpdateUrl(reg, i, url) == IF i = 0 THEN reg ELSE [reg EXCEPT ![i].url = url]
SetExtensionTabId(reg, i, t) ==
    IF i = 0 \/ reg[i].ext # NoTab THEN reg ELSE [reg EXCEPT ![i].ext = t]
RemoveTab(reg, i) == IF i = 0 THEN reg ELSE RemoveAt(reg, i)
RegisterTab(reg, url) == Append(reg, [tab |-> TabOf(url), url |-> url, ext |-> NoTab])

Owned(reg) == {reg[i].tab : i \in DOMAIN reg}

\* What Safari shows.
Open(t) == page[t] > 0 /\ t \notin closed
Current(t) == <<t, page[t]>>
Shown == {Current(t) : t \in {u \in Tabs : Open(u)}}

DomainOfCall(c) == DomainOf[TabOf(call[c].url)]

-----------------------------------------------------------------------------
\* Mutants: ways the operators and steps below could have been written wrong.  No
\* action uses them; they show which property notices which mistake.

\* The proxy keeps the delegate of the call before.
ProxyForSameEngine(e, pos) ==
    [delegate |-> proxy.delegate, position |-> pos, meta |-> NoUrl]

\* The proxy keeps the meta of the call before.
ProxyForStaleMeta(e, pos) == [delegate |-> e, position |-> pos, meta |-> proxy.meta]

\* An unverified result counts as a failure of the tool.
IsSecurityPipelineErrorUnlisted(e) == e = "thrash"

\* A deferred check without a meta is waved through.
VerifiedWithoutMeta(reg, r, meta) ==
    r.deferred => meta = NoUrl \/ FindByExtensionTabId(reg, TabOf(meta)) # 0

\* A tool calls the engine once more than it has calls to make.
IssueNextOffByOne(c) ==
    /\ call[c].phase = "running" /\ call[c].left >= 0
    /\ call' = [call EXCEPT ![c].phase = "waiting", ![c].via = proxy.delegate]
    /\ UNCHANGED <<breakerVars, killVars, extension, proxy, registry, tabVars, late, total>>

\* Every tab of Safari is registered after a click.
AdoptAll(c) ==
    /\ call[c].phase = "adopting"
    /\ registry' = registry \o
         LET new == SetToSeq(Shown)
         IN [i \in DOMAIN new |-> [tab |-> TabOf(new[i]), url |-> new[i], ext |-> NoTab]]
    /\ call' = [call EXCEPT ![c] = [NoCall EXCEPT !.phase = "done", !.answer = "ok"]]
    /\ UNCHANGED <<breakerVars, killVars, extension, proxy, tabVars, late, total>>

-----------------------------------------------------------------------------
\* How a call ends, and what an error feeds.

Answer(c, a) == call' = [call EXCEPT ![c] = [NoCall EXCEPT !.phase = "done", !.answer = a]]

\* recordFailure of the call's domain, from state s.
DomainFails(c, s) ==
    \E s2 \in RecordFailure(s) :
        /\ circuit' = [circuit EXCEPT ![DomainOfCall(c)] = s2]
        /\ probes' = [probes EXCEPT ![DomainOfCall(c)] =
                        IF s2.opened /\ ~s2.cooled THEN 0 ELSE @]

DomainSucceeds(c) ==
    /\ circuit' = [circuit EXCEPT ![DomainOfCall(c)] = RecordSuccess(@)]
    /\ probes' = [probes EXCEPT ![DomainOfCall(c)] = 0]

\* recordError: errors that have left the window are dropped first.
RecordError ==
    \E n \in 0 .. errorWindow :
        /\ errorWindow' = Min({n + 1, MaxErrors})
        /\ stopped' = (stopped \/ n + 1 >= MaxErrors)

\* isSecurityPipelineError, for the errors the try block can see.
IsSecurityPipelineError(e) == e \in {"notRecognized", "thrash"}

\* The catch block.  Loop and thrash errors leave the breakers alone; only
\* lifecycle codes of the extension count for its engine.
Caught(c, e, s) ==
    /\ IF e = "thrash"
       THEN /\ circuit' = [circuit EXCEPT ![DomainOfCall(c)] = s]
            /\ UNCHANGED <<engineBreaker, probes>>
       ELSE /\ DomainFails(c, s)
            /\ engineBreaker' \in
                 IF call[c].engine = "extension" /\ e = "lifecycle"
                 THEN RecordEngineFailure(engineBreaker) ELSE {engineBreaker}
    /\ IF IsSecurityPipelineError(e) THEN UNCHANGED <<stopped, errorWindow>> ELSE RecordError
    /\ failures' = IF e \in {"lifecycle", "other"} THEN Min({failures + 1, MaxErrors}) ELSE failures
    /\ UNCHANGED asked

-----------------------------------------------------------------------------
\* The engine proxy.

\* executeJsInTab through the proxy p: which engine is asked, and the tab it is
\* sent to by position.  Only the AppleScript engine is sent anywhere by position.
Issue(r, p) ==
    [r EXCEPT !.phase = "waiting", !.via = p.delegate,
              !.at = IF p.delegate = "applescript" THEN p.position ELSE NoTab]

\* Where a call's script runs: the tab at its position, or the one that shows its
\* URL; none if no open tab does.
Target(r) ==
    IF r.at # NoTab THEN {r.at} \ closed ELSE {TabOf(u) : u \in Shown \cap {r.url}}

\* setDelegate, resetMeta and, if the call's tab is registered, setTabPosition.
ProxyFor(e, pos) == [delegate |-> e, position |-> pos, meta |-> NoUrl]

\* The kinds whose handler begins with a call through the proxy.
Proxied(kind) == kind \in {"script", "shot"}

-----------------------------------------------------------------------------
\* The way in.

Idle(c) == call[c].phase \in {"idle", "done"}

\* A URL the agent may name: one an open tab shows, or showed.
Named == {u \in Urls : Open(TabOf(u)) /\ u[2] <= page[TabOf(u)]}

\* The tab a call of safari_new_tab will open.
ToOpen == {t \in Mine : page[t] = 0 /\ \A c \in Calls : TabOf(call[c].url) # t}

RequestUrls(kind) ==
    CASE kind = "stop" -> {NoUrl}
      [] kind = "newTab" -> {<<t, 1>> : t \in ToOpen}
      [] OTHER -> Named

\* A script may need the extension (requiresExtension); a screenshot does.
Strictness(kind) ==
    CASE kind = "script" -> BOOLEAN [] kind = "shot" -> {TRUE} [] OTHER -> {FALSE}

Receive(c) ==
    /\ Idle(c) /\ total < MaxCalls
    /\ \E kind \in Kinds : \E url \in RequestUrls(kind) : \E strict \in Strictness(kind) :
         call' = [call EXCEPT ![c] =
             [NoCall EXCEPT !.phase = "received", !.kind = kind, !.url = url, !.strict = strict]]
    /\ total' = total + 1
    /\ UNCHANGED <<breakerVars, killVars, extension, proxy, registry, tabVars, late>>

\* selectEngine, for a tool that asks for AppleScript or not.
ExtensionUsable(ext) == ext /\ ~IsEngineTripped(engineBreaker)
SelectEngine(r, ext) ==
    IF ~r.strict /\ r.kind \in {"navigate", "closeTab", "newTab"} THEN "applescript"
    ELSE IF ExtensionUsable(ext) THEN "extension"
    ELSE IF r.strict THEN "none"
    ELSE IF DaemonAvailable THEN "daemon"
    ELSE "applescript"

\* The gates between the health gate and the breaker: wall-clock cap, kill
\* switch, blocked domain, approval, rate limit, loop detector.  All but the kill
\* switch may refuse for reasons outside the model; a refusal records nothing.
Refuse(c) == Answer(c, "refused") /\ UNCHANGED <<breakerVars, killVars, proxy>>

\* The breaker lets the call in, and no engine can run it.
NoEngine(c, ext) ==
    /\ SelectEngine(call[c], ext) = "none"
    /\ Answer(c, "unavailable")
    /\ UNCHANGED <<killVars, proxy>>

\* The ownership check fails outside the try block: no outcome is recorded,
\* though the breaker has let the call in.
SkipsOwnership(kind) == kind \in {"newTab", "stop"}
Unrecognized(c) ==
    ~SkipsOwnership(call[c].kind) /\ FindByUrl(registry, call[c].url) = 0

NotRecognized(c, ext) ==
    /\ SelectEngine(call[c], ext) \in {"daemon", "applescript"}
    /\ Unrecognized(c)
    /\ proxy' = ProxyFor(SelectEngine(call[c], ext), NoTab)
    /\ Answer(c, "notRecognized")
    /\ UNCHANGED killVars

\* The call goes on to its handler, which runs up to its first await: a click to
\* the snapshot of the tabs, a proxied tool to its first engine call, the
\* emergency stop through activate.
Dispatch(c, ext) ==
    LET e == SelectEngine(call[c], ext)
        i == FindByUrl(registry, call[c].url)
        pos == IF i = 0 \/ SkipsOwnership(call[c].kind) THEN NoTab ELSE registry[i].tab
        steps == CASE call[c].kind \in {"script", "click"} -> {1, 2}
                   [] call[c].kind = "shot" -> {1}
                   [] OTHER -> {0}
    IN /\ e # "none"
       /\ Unrecognized(c) => e = "extension"
       /\ proxy' = ProxyFor(e, pos)
       /\ \E n \in steps :
            LET r == [call[c] EXCEPT
                        !.phase = IF call[c].kind = "click" THEN "snapshot" ELSE "running",
                        !.engine = e, !.left = n, !.pos = pos, !.deferred = Unrecognized(c),
                        !.probe = HalfOpen(circuit[DomainOfCall(c)])]
            IN call' = [call EXCEPT ![c] = IF Proxied(r.kind) THEN Issue(r, ProxyFor(e, pos)) ELSE r]
       /\ IF call[c].kind = "stop"
          THEN stopped' = TRUE /\ asked' = TRUE /\ UNCHANGED <<errorWindow, failures>>
          ELSE UNCHANGED killVars

\* assertClosed and what follows it.
LetIn(c, ext) ==
    LET d == DomainOfCall(c) IN
    /\ ~stopped /\ Admits(circuit[d])
    /\ circuit' = [circuit EXCEPT ![d] = AssertClosed(@)]
    /\ probes' = IF circuit[d].opened THEN [probes EXCEPT ![d] = @ + 1] ELSE probes
    /\ engineBreaker' = EngineRead(engineBreaker)
    /\ NoEngine(c, ext) \/ NotRecognized(c, ext) \/ Dispatch(c, ext)

\* Everything from the health gate to the handler's first await is one step, with
\* ext in engineAvailability.
Gates(c, ext) ==
    /\ Refuse(c) \/ LetIn(c, ext)
    /\ extension' = ext
    /\ UNCHANGED <<registry, tabVars, late, total>>

\* The health gate: a probe of the extension and of the session window.
HealthCheck(c) ==
    /\ call[c].phase = "received"
    /\ \E ext, window \in BOOLEAN :
         IF window /\ (ext \/ ~call[c].strict)
         THEN Gates(c, ext)
         ELSE /\ call' = [call EXCEPT ![c].phase =
                     IF ~ext /\ call[c].strict THEN "recovering" ELSE "registering"]
              /\ extension' = ext
              /\ UNCHANGED <<breakerVars, killVars, proxy, registry, tabVars, late, total>>

\* recoverSession polls for the extension, marks it available and then awaits the
\* registration with the daemon, or gives up.
Recover(c) ==
    /\ call[c].phase = "recovering"
    /\ extension' = TRUE
    /\ call' = [call EXCEPT ![c].phase = "registering"]
    /\ UNCHANGED <<breakerVars, killVars, proxy, registry, tabVars, late, total>>

RecoveryFails(c) ==
    /\ call[c].phase = "recovering"
    /\ Answer(c, "recoveryFailed")
    /\ UNCHANGED <<breakerVars, killVars, extension, proxy, registry, tabVars, late, total>>

\* Mutant: recovery waits for the extension whatever the tool needs.
RegisteredWithExtension(c) ==
    call[c].phase = "registering" /\ extension /\ Gates(c, extension)

\* The registration has been answered or given up: the call goes on to the gates.
Registered(c) == call[c].phase = "registering" /\ Gates(c, extension)

-----------------------------------------------------------------------------
\* The handler.

\* What listing the tabs may return; a list that fails counts as an empty one.
Listed == {Shown} \cup (IF SnapshotFails THEN {{}} ELSE {})

\* The tabs are listed before a click.
Snapshot(c) ==
    /\ call[c].phase = "snapshot"
    /\ \E seen \in Listed :
         call' = [call EXCEPT ![c] = Issue([@ EXCEPT !.seen = seen], proxy)]
    /\ UNCHANGED <<breakerVars, killVars, extension, proxy, registry, tabVars, late, total>>

\* The next call of a tool that makes several, after an await of its own.
IssueNext(c) ==
    /\ call[c].phase = "running" /\ call[c].left > 0
    /\ call' = [call EXCEPT ![c] = Issue(@, proxy)]
    /\ UNCHANGED <<breakerVars, killVars, extension, proxy, registry, tabVars, late, total>>

\* The meta of a result: the extension names the tab, other engines and errors
\* name none.
Meta(via, target) == IF via = "extension" THEN {NoUrl} \cup {Current(t) : t \in target} ELSE {NoUrl}

\* The engine answers: the proxy keeps the meta, for whoever reads it.
EngineAnswer(c) ==
    /\ call[c].phase = "waiting"
    /\ \E meta \in Meta(call[c].via, Target(call[c])) : proxy' = [proxy EXCEPT !.meta = meta]
    /\ call' = [call EXCEPT ![c].phase = "running", ![c].left = @ - 1,
                            ![c].via = "none", ![c].at = NoTab,
                            ![c].ran = @ \cup Target(call[c])]
    /\ UNCHANGED <<breakerVars, killVars, extension, registry, tabVars, late, total>>

\* The screenshot's own timer wins: the handler goes on, the proxy's call stays.
GiveUp(c) ==
    /\ call[c].phase = "waiting" /\ call[c].kind = "shot"
    /\ late' = late \cup {call[c].url}
    /\ call' = [call EXCEPT ![c].phase = "running", ![c].left = 0,
                            ![c].via = "none", ![c].at = NoTab]
    /\ UNCHANGED <<breakerVars, killVars, extension, proxy, registry, tabVars, total>>

LateAnswer(u) ==
    /\ u \in late
    /\ \E meta \in Meta("extension", {TabOf(v) : v \in Shown \cap {u}}) :
         proxy' = [proxy EXCEPT !.meta = meta]
    /\ late' = late \ {u}
    /\ UNCHANGED <<breakerVars, killVars, extension, registry, tabVars, call, total>>

\* The handler throws, with a lifecycle code of the extension or another error.
ToolFails(c) ==
    /\ call[c].phase = "running" /\ call[c].kind # "stop"
    /\ \E e \in {"lifecycle", "other"} : Caught(c, e, circuit[DomainOfCall(c)])
    /\ Answer(c, "error")
    /\ UNCHANGED <<extension, proxy, registry, tabVars, late, total>>

-----------------------------------------------------------------------------
\* The handler returns.

\* 8.post0, 8.post, 8.post1: a navigation renames the tab's entry, to a URL the
\* tab showed; a new tab is registered; a tab that could be closed is forgotten.
RegistriesAfter(r) ==
    CASE r.kind = "navigate" ->
            {UpdateUrl(registry, FindByUrl(registry, r.url), <<r.pos, v>>) : v \in 1 .. page[r.pos]}
      [] r.kind = "newTab" -> {RegisterTab(registry, r.url)}
      [] r.kind = "closeTab" /\ r.url \in Shown ->
            {RemoveTab(registry, FindByUrl(registry, r.url))}
      [] OTHER -> {registry}

SafariAfter(r) ==
    CASE r.kind = "newTab" -> page' = [page EXCEPT ![TabOf(r.url)] = 1] /\ UNCHANGED closed
      [] r.kind = "closeTab" /\ r.url \in Shown ->
            closed' = closed \cup {TabOf(r.url)} /\ UNCHANGED page
      [] OTHER -> UNCHANGED tabVars

\* 8.post2: the last meta fills in the extension's id of the tab named by the
\* call, then refreshes the URL of the entry with that id.
Backfill(reg, r, meta) ==
    IF r.url = NoUrl \/ r.kind = "newTab" THEN reg
    ELSE SetExtensionTabId(reg, FindByUrl(reg, r.url), TabOf(meta))
Refreshed(reg, r, meta) ==
    IF meta = NoUrl THEN reg
    ELSE LET filled == Backfill(reg, r, meta)
         IN UpdateUrl(filled, FindByExtensionTabId(filled, TabOf(meta)), meta)

\* A deferred ownership check passes if the meta names an owned tab.
Verified(reg, r, meta) ==
    r.deferred => meta # NoUrl /\ FindByExtensionTabId(reg, TabOf(meta)) # 0

\* recordSuccess comes before the check: an unverified call is a success and then
\* a failure of its domain.  A snapshot that repeats is refused as thrashing.
ToolReturns(c) ==
    /\ call[c].phase = "running" /\ call[c].left = 0
    /\ \E after \in RegistriesAfter(call[c]) :
       LET reg == Refreshed(after, call[c], proxy.meta) IN
       /\ registry' = reg
       /\ SafariAfter(call[c])
       /\ \/ /\ ~Verified(reg, call[c], proxy.meta)
             /\ Caught(c, "notRecognized", EmptyState)
             /\ Answer(c, "notRecognized")
          \/ /\ Verified(reg, call[c], proxy.meta) /\ call[c].kind = "script"
             /\ Caught(c, "thrash", EmptyState)
             /\ Answer(c, "refused")
          \/ /\ Verified(reg, call[c], proxy.meta)
             /\ DomainSucceeds(c)
             /\ IF call[c].kind = "click"
                THEN call' = [call EXCEPT ![c].phase = "adopting"]
                ELSE Answer(c, "ok")
             /\ UNCHANGED <<engineBreaker, killVars>>
       /\ UNCHANGED <<extension, proxy, late, total>>

\* After a click every tab that was not listed before it is registered.
Adopt(c) ==
    /\ call[c].phase = "adopting"
    /\ \E listed \in Listed :
         registry' = registry \o
           LET new == SetToSeq(listed \ call[c].seen)
           IN [i \in DOMAIN new |-> [tab |-> TabOf(new[i]), url |-> new[i], ext |-> NoTab]]
    /\ Answer(c, "ok")
    /\ UNCHANGED <<breakerVars, killVars, extension, proxy, tabVars, late, total>>

-----------------------------------------------------------------------------
\* Safari and time.

PageMoves(t) ==
    /\ t \in Movers /\ Open(t) /\ page[t] <= MaxMoves
    /\ page' = [page EXCEPT ![t] = @ + 1]
    /\ UNCHANGED <<breakerVars, killVars, extension, proxy, registry, closed, late, call, total>>

\* A page of an owned tab opens a tab.
PageOpens(t) ==
    /\ t \in ToOpen /\ \E o \in Owned(registry) : Open(o)
    /\ page' = [page EXCEPT ![t] = 1]
    /\ UNCHANGED <<breakerVars, killVars, extension, proxy, registry, closed, late, call, total>>

Cooldown(d) ==
    /\ CanCool(circuit[d])
    /\ circuit' = [circuit EXCEPT ![d] = Cooled(@)]
    /\ UNCHANGED <<engineBreaker, probes, killVars, extension, proxy, registry, tabVars,
                   late, call, total>>

EngineCooldown ==
    /\ engineBreaker.tripped = "yes"
    /\ engineBreaker' = [engineBreaker EXCEPT !.tripped = "elapsed"]
    /\ UNCHANGED <<circuit, probes, killVars, extension, proxy, registry, tabVars, late,
                   call, total>>

CallStep(c) ==
    \/ HealthCheck(c) \/ Recover(c) \/ RecoveryFails(c) \/ Registered(c)
    \/ Snapshot(c) \/ IssueNext(c) \/ EngineAnswer(c) \/ GiveUp(c)
    \/ ToolFails(c) \/ ToolReturns(c) \/ Adopt(c)

Next ==
    \/ \E c \in Calls : Receive(c) \/ CallStep(c)
    \/ \E u \in Urls : LateAnswer(u)
    \/ \E t \in Tabs : PageMoves(t) \/ PageOpens(t)
    \/ \E d \in Domains : Cooldown(d)
    \/ EngineCooldown

\* Every await of a call ends: engine calls and probes have timeouts, recovery
\* counts its rounds.
Fairness == \A c \in Calls : WF_pipelineVars(CallStep(c))

Spec == Init /\ [][Next]_pipelineVars
FairSpec == Spec /\ Fairness

-----------------------------------------------------------------------------
\* Properties.

\* One probe: while a domain's circuit is open, at most one call has been let in
\* since it was opened, however calls, refusals and stale failures interleave.
OneProbePerOpening == \A d \in Domains : circuit[d].opened => probes[d] <= 1

\* The kill switch is thrown by an emergency stop or by as many failures of tools
\* as its threshold; what the pipeline itself refuses never counts.
KillSwitchCounts == stopped => asked \/ failures >= MaxErrors

\* A call's JavaScript goes to the engine selected for it, and by position only to
\* the tab it names: nothing of another call is left in the proxy.
RunsWhereAsked ==
    \A c \in Calls : call[c].phase = "waiting" =>
        call[c].via = call[c].engine /\ call[c].at \in {NoTab, TabOf(call[c].url)}

\* A result reaches the agent only from tabs that are then its own.
AnswersFromOwnedTabs ==
    [][\A c \in Calls :
         call[c].phase = "running" /\ (call'[c].phase = "adopting" \/ call'[c].answer = "ok")
         => call[c].ran \subseteq Owned(registry')]_pipelineVars

\* An entry's URL and extension id are those of its own tab, never of another.
RegistryTellsTruth ==
    \A i \in DOMAIN registry :
        /\ TabOf(registry[i].url) = registry[i].tab
        /\ registry[i].ext \in {NoTab, registry[i].tab}

\* No tab of the user ever becomes the agent's.
OwnsNoUserTab == Owned(registry) \cap Theirs = {}

\* A probe that has been issued is on its way: the call that was let in as the
\* probe has not ended.
ProbeOutstanding ==
    \A d \in Domains : circuit[d].probeInFlight =>
        \E c \in Calls : call[c].probe /\ DomainOfCall(c) = d

\* Every call is answered, whatever is refused, recovered, given up or late.
CallAnswered == \A c \in Calls : call[c].phase = "received" ~> call[c].phase = "done"
=============================================================================
