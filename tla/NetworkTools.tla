---------------------------- MODULE NetworkTools ----------------------------
(***************************************************************************)
(* What the network tools do to a page (src/tools/network.ts, the          *)
(* networkidle condition of src/tools/wait.ts, src/tools/har.ts).          *)
(*                                                                         *)
(* Five of them replace fetch and the open and send of XMLHttpRequest by   *)
(* functions of their own, which call what they found.  A function is the  *)
(* sequence of its layers, outermost first; the page's own one is <<>>.    *)
(* Throttle and offline save what they find at their first use, and go     *)
(* back to that whenever they are switched off.  The page makes requests   *)
(* all the while, and a navigation undoes everything.                      *)
(*                                                                         *)
(* A URL is a sequence.  The page sends an XMLHttpRequest object once.     *)
(***************************************************************************)
EXTENDS Integers, Sequences, FiniteSets

CONSTANTS
    Requests,   \* requests of the page
    Urls,
    Patterns,   \* of interceptors and mocks; <<>> is for no pattern
    None,
    MaxEntries,
    MaxUses     \* bound: uses of tools, and navigations

NetworkAssumption ==
    /\ MaxEntries \in Nat \ {0} /\ MaxUses \in Nat
    /\ None \notin Patterns /\ None \notin Nat /\ IsFiniteSet(Requests)

Slots == {"fetch", "open", "send"}

VARIABLES
    fn,         \* window.fetch, XMLHttpRequest.prototype.open and send
    saved,      \* the originals of throttle and of offline
    interceptor,\* its pattern; None if not installed
    entries,    \* __safariPilotNetwork.entries
    mocks,      \* the patterns of __safariPilotMocks, in order; None if not patched
    inflight,   \* __safariPilotInflight; None if not set up
    quiet,      \* has the last activity been a while ago
    req,        \* the page's requests
    file,       \* the entries of the HAR file the agent has
    har,        \* the URLs of the rules still to be installed
    waiting,    \* is there a safari_wait_for
    idleWith,   \* history: the requests counted and in flight when networkidle was met
    uses

toolVars == <<fn, saved, interceptor, mocks>>
waitVars == <<file, har, waiting, idleWith>>
vars == <<toolVars, entries, inflight, quiet, req, waitVars, uses>>

Native == [s \in Slots |-> <<>>]
NoRequest == [kind |-> None, url |-> <<>>, at |-> "none", rest |-> <<>>, seen |-> {},
              counted |-> 0, noted |-> 0]

Fresh(f, s, i, e, m, n, r) ==
    /\ f = Native /\ s = [t \in {"throttle", "offline"} |-> None]
    /\ i = None /\ e = <<>> /\ m = None /\ n = None /\ r = [x \in Requests |-> NoRequest]

Init ==
    /\ Fresh(fn, saved, interceptor, entries, mocks, inflight, req)
    /\ quiet = TRUE /\ file = <<>> /\ har = <<>> /\ waiting = FALSE /\ idleWith = {} /\ uses = 0

Use == uses < MaxUses /\ uses' = uses + 1

-----------------------------------------------------------------------------
\* The tools.

Wrap(layer, slots) == [s \in Slots |-> IF s \in slots THEN <<layer>> \o fn[s] ELSE fn[s]]

\* Mutant: the interceptor is installed a second time.
InstalledNever == FALSE

Installed == interceptor # None

\* One that is installed keeps its pattern.
InterceptRequests(pattern) ==
    /\ Use
    /\ IF Installed THEN UNCHANGED <<fn, interceptor>>
       ELSE fn' = Wrap("intercept", Slots) /\ interceptor' = pattern
    /\ UNCHANGED <<saved, mocks, entries, inflight, quiet, req, waitVars>>

\* The originals are those of the first use, whatever was installed since.
Originals(tool) == IF saved[tool] = None THEN fn ELSE saved[tool]

\* The delay is a layer on send only, but open goes back as well.
NetworkThrottle(on) ==
    /\ Use
    /\ saved' = [saved EXCEPT !["throttle"] = Originals("throttle")]
    /\ LET orig == Originals("throttle")
       IN  fn' = IF on THEN [fn EXCEPT !["fetch"] = <<"throttle">> \o orig["fetch"],
                                       !["send"] = <<"throttle">> \o orig["send"]]
                 ELSE orig
    /\ UNCHANGED <<interceptor, mocks, entries, inflight, quiet, req, waitVars>>

\* A fetch is refused.  An XMLHttpRequest gets an error event, and goes on.
NetworkOffline(on) ==
    /\ Use
    /\ saved' = [saved EXCEPT !["offline"] = Originals("offline")]
    /\ LET orig == Originals("offline")
       IN  fn' = IF on THEN [fn EXCEPT !["fetch"] = <<"offline">>,
                                       !["open"] = <<"offline">> \o orig["open"]]
                 ELSE [fn EXCEPT !["fetch"] = orig["fetch"], !["open"] = orig["open"]]
    /\ UNCHANGED <<interceptor, mocks, entries, inflight, quiet, req, waitVars>>

\* A pattern that is there keeps its place.
AddMock(pattern) ==
    LET old == IF mocks = None THEN <<>> ELSE mocks
    IN  /\ fn' = IF mocks = None THEN Wrap("mock", Slots) ELSE fn
        /\ mocks' = IF \E i \in DOMAIN old : old[i] = pattern THEN old ELSE Append(old, pattern)
        /\ UNCHANGED <<saved, interceptor, entries, inflight, quiet, req, file, waiting, idleWith>>

MockRequest(pattern) == Use /\ AddMock(pattern) /\ UNCHANGED har

\* Also a removal patches, if nothing did.
RemoveMock(pattern) ==
    /\ Use
    /\ fn' = IF mocks = None THEN Wrap("mock", Slots) ELSE fn
    /\ mocks' = IF mocks = None THEN <<>> ELSE SelectSeq(mocks, LAMBDA p : p # pattern)
    /\ UNCHANGED <<saved, interceptor, entries, inflight, quiet, req, waitVars>>

DumpHar ==
    /\ Use /\ file' = entries
    /\ UNCHANGED <<toolVars, entries, inflight, quiet, req, har, waiting, idleWith>>

\* One rule for each URL that was answered, in the order of the file.
HarToMockRules ==
    LET ok == SelectSeq(file, LAMBDA e : e.status # "error")
        first == {i \in DOMAIN ok : \A j \in 1..(i - 1) : ok[j].url # ok[i].url}
    IN  [k \in 1..Cardinality(first) |->
            ok[CHOOSE i \in first : Cardinality({j \in first : j <= i}) = k].url]

RouteFromHar ==
    /\ Use /\ har = <<>> /\ har' = HarToMockRules
    /\ UNCHANGED <<toolVars, entries, inflight, quiet, req, file, waiting, idleWith>>

\* One call of the page for each rule.
RouteNext == har # <<>> /\ AddMock(Head(har)) /\ har' = Tail(har) /\ UNCHANGED uses

-----------------------------------------------------------------------------
\* safari_wait_for with networkidle.

WaitFor ==
    /\ Use /\ ~waiting /\ waiting' = TRUE
    /\ UNCHANGED <<toolVars, entries, inflight, quiet, req, file, har, idleWith>>

InFlight == {r \in Requests : req[r].at \notin {"none", "opened", "done"}}

\* The first evaluation counts from zero, and says no.
SetUp ==
    /\ waiting /\ inflight = None
    /\ fn' = Wrap("idle", {"fetch", "send"}) /\ inflight' = 0 /\ quiet' = FALSE
    /\ UNCHANGED <<saved, interceptor, mocks, entries, req, waitVars, uses>>

NetworkIdle ==
    /\ waiting /\ inflight = 0 /\ quiet
    /\ waiting' = FALSE
    /\ idleWith' = {r \in InFlight : req[r].counted > 0}
    /\ UNCHANGED <<toolVars, entries, inflight, quiet, req, file, har, uses>>

WaitTimesOut ==
    /\ waiting /\ waiting' = FALSE
    /\ UNCHANGED <<toolVars, entries, inflight, quiet, req, file, har, idleWith, uses>>

\* 500 ms without activity.
QuietPasses ==
    /\ inflight # None /\ ~quiet /\ quiet' = TRUE
    /\ UNCHANGED <<toolVars, entries, inflight, req, waitVars, uses>>

-----------------------------------------------------------------------------
\* The page.

Includes(url, pattern) ==
    \E i \in 0..(Len(url) - Len(pattern)) : SubSeq(url, i + 1, i + Len(pattern)) = pattern

\* The send of an XMLHttpRequest knows the URL from its own open.
UrlFor(q, layer) == IF q.kind = "fetch" \/ layer \in q.seen THEN q.url ELSE <<>>

Mocked(q) == mocks # None /\ \E i \in DOMAIN mocks : Includes(UrlFor(q, "mock"), mocks[i])

Stops(q, layer) == layer \in {"throttle", "offline"} \/ (layer = "mock" /\ Mocked(q))

Recorded(q) == interceptor # None /\ Includes(UrlFor(q, "intercept"), interceptor)

\* The request goes down the layers, as far as it gets at once.
Descend(r, q, chain) ==
    LET stops == {i \in DOMAIN chain : Stops(q, chain[i])}
        n == IF stops = {} THEN Len(chain) + 1 ELSE CHOOSE i \in stops : \A j \in stops : i <= j
        Passes(layer) == Cardinality({i \in 1..(n - 1) : chain[i] = layer})
        at == IF stops = {} THEN "network"
              ELSE CASE chain[n] = "throttle" -> "delayed"
                     [] chain[n] = "offline" -> "refused"
                     [] OTHER -> "mocked"
    IN  /\ req' = [req EXCEPT ![r] = [q EXCEPT !.at = at,
                !.rest = SubSeq(chain, n + 1, Len(chain)),
                !.counted = @ + Passes("idle"),
                !.noted = @ + (IF Recorded(q) THEN Passes("intercept") ELSE 0)]]
        /\ IF Passes("idle") = 0 THEN UNCHANGED <<inflight, quiet>>
           ELSE inflight' = inflight + Passes("idle") /\ quiet' = FALSE
        /\ UNCHANGED <<toolVars, entries, waitVars, uses>>

Fetch(r, url) ==
    /\ req[r].at = "none"
    /\ Descend(r, [NoRequest EXCEPT !.kind = "fetch", !.url = url], fn["fetch"])

Open(r, url) ==
    /\ req[r].at = "none"
    /\ req' = [req EXCEPT ![r] = [NoRequest EXCEPT !.kind = "xhr", !.url = url, !.at = "opened",
            !.seen = {"intercept", "mock"} \cap {fn["open"][i] : i \in DOMAIN fn["open"]}]]
    /\ UNCHANGED <<toolVars, entries, inflight, quiet, waitVars, uses>>

Send(r) == req[r].at = "opened" /\ Descend(r, req[r], fn["send"])

Delayed(r) == req[r].at = "delayed" /\ Descend(r, req[r], req[r].rest)

\* The oldest entries make room, one for each that comes.
Pushed(e, n) ==
    LET all == entries \o [i \in 1..n |-> e]
        kept == IF Len(all) > MaxEntries THEN MaxEntries ELSE Len(all)
    IN  IF n = 0 THEN entries ELSE SubSeq(all, Len(all) - kept + 1, Len(all))

\* The end of a request comes back up through the layers it has passed.
Settle(r) ==
    LET q == req[r]
    IN  /\ q.at \in {"network", "refused", "mocked"}
        /\ req' = [req EXCEPT ![r].at = "done"]
        /\ \E status \in IF q.at = "network" THEN {"ok", "error"}
                         ELSE IF q.at = "refused" THEN {"error"} ELSE {"ok"} :
              entries' = Pushed([id |-> r, url |-> UrlFor(q, "intercept"), status |-> status], q.noted)
        /\ IF q.counted = 0 THEN UNCHANGED <<inflight, quiet>>
           ELSE /\ inflight' = IF inflight > q.counted THEN inflight - q.counted ELSE 0
                /\ quiet' = FALSE
        /\ UNCHANGED <<toolVars, waitVars, uses>>

\* A new document has none of it.
Navigate ==
    /\ Use
    /\ Fresh(fn', saved', interceptor', entries', mocks', inflight', req') /\ quiet' = TRUE
    /\ idleWith' = {} /\ UNCHANGED <<file, har, waiting>>

-----------------------------------------------------------------------------
Next ==
    \/ \E p \in Patterns : InterceptRequests(p) \/ MockRequest(p) \/ RemoveMock(p)
    \/ \E on \in BOOLEAN : NetworkThrottle(on) \/ NetworkOffline(on)
    \/ DumpHar \/ RouteFromHar \/ RouteNext
    \/ WaitFor \/ SetUp \/ NetworkIdle \/ WaitTimesOut \/ QuietPasses
    \/ \E r \in Requests :
        \/ \E u \in Urls : Fetch(r, u) \/ Open(r, u)
        \/ Send(r) \/ Delayed(r) \/ Settle(r)
    \/ Navigate

Spec == Init /\ [][Next]_vars

-----------------------------------------------------------------------------
\* Property.

\* However the tools were stacked, saved and restored: no request is recorded
\* twice, and when networkidle is met no request is under way that has passed
\* its counter (network.ts:427-768, wait.ts:43-70).  One that a throttle still
\* holds above the counter, or that never reached it because throttle or
\* offline restored an older function, is not counted.
TrafficAccounted ==
    /\ \A i, j \in DOMAIN entries : entries[i].id = entries[j].id => i = j
    /\ idleWith = {}

-----------------------------------------------------------------------------
\* Why it holds.  The interceptor and the counter are installed once for a
\* document, so no chain has one of them twice, whoever saved or restored it; and
\* the count is that of the requests which passed it and are under way.

Layers == {"intercept", "throttle", "offline", "mock", "idle"}
AtMostOnce(chain, l) == \A i, j \in DOMAIN chain : chain[i] = l /\ chain[j] = l => i = j
Without(chain, l) == \A i \in DOMAIN chain : chain[i] # l

\* What holds of a chain, whoever saved it: the layers that are only installed
\* once are in it once, and only if they were installed.
SoundChain(chain) ==
    /\ chain \in Seq(Layers)
    /\ AtMostOnce(chain, "intercept") /\ AtMostOnce(chain, "idle")
    /\ interceptor = None => Without(chain, "intercept")
    /\ inflight = None => Without(chain, "idle")

SoundFn(f) == \A s \in Slots : SoundChain(f[s])

Saves(s) ==
    /\ s \in [{"throttle", "offline"} -> [Slots -> Seq(Layers)] \cup {None}]
    /\ \A t \in {"throttle", "offline"} :
          s[t] # None => s[t] \in [Slots -> Seq(Layers)] /\ SoundFn(s[t])

TheRequest ==
    [kind : {None, "fetch", "xhr"}, url : Urls \cup {<<>>}, rest : Seq(Layers),
     at : {"none", "opened", "delayed", "network", "refused", "mocked", "done"},
     seen : SUBSET {"intercept", "mock"}, counted : {0, 1}, noted : {0, 1}]

\* A request, and the chain it has still to go down.
SoundRequest(q, chain) ==
    /\ q \in TheRequest /\ SoundChain(chain)
    /\ q.counted = 1 => Without(chain, "idle") /\ inflight # None
    /\ q.noted = 1 => Without(chain, "intercept") /\ interceptor # None

Entry == [id : Requests, url : Urls \cup {<<>>}, status : {"ok", "error"}]

Counted == {r \in InFlight : req[r].counted > 0}

NetInv ==
    /\ fn \in [Slots -> Seq(Layers)] /\ SoundFn(fn)
    /\ Saves(saved)
    /\ DOMAIN req = Requests
    /\ req \in [Requests -> TheRequest]
    /\ \A r \in Requests :
          /\ SoundRequest(req[r], req[r].rest)
          /\ req[r].at \in {"none", "opened"} => req[r].counted = 0 /\ req[r].noted = 0
    /\ entries \in Seq(Entry)
    /\ \A i \in 1..Len(entries) : req[entries[i].id].at = "done"
    /\ \A i, j \in 1..Len(entries) : entries[i].id = entries[j].id => i = j
    /\ inflight # None => inflight = Cardinality(Counted)
    /\ idleWith = {}
=============================================================================
