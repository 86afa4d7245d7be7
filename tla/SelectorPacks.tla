--------------------------- MODULE SelectorPacks ---------------------------
(***************************************************************************)
(* Selector packs (src/tools/selector-pack.ts, background.js 171-239 and   *)
(* 918-1009): functions of the agent that a page holds under a name.  The  *)
(* extension stores a pack for its tab and has the page take it; when the  *)
(* tab has loaded another page a listener has that one take what is        *)
(* stored.                                                                 *)
(*                                                                         *)
(* storage.local serves its requests one after the other as they come, and *)
(* the document of a tab runs the commands of the storage bus as it is     *)
(* told of them.  The event page stays (see ExtensionIPC).                 *)
(***************************************************************************)
EXTENDS Naturals, Sequences, FiniteSets, SequencesExt

CONSTANTS
    Tabs, Names,
    Bodies, Broken,  \* those of them that are no function
    None, Unknown,
    MaxLoads, MaxCalls  \* bounds

PacksAssumption ==
    /\ Broken \subseteq Bodies /\ None # Unknown
    /\ None \notin Bodies /\ Unknown \notin Bodies
    /\ IsFiniteSet(Names) /\ MaxLoads \in Nat /\ MaxCalls \in Nat

VARIABLES
    open, loading,
    strict,     \* does the page refuse to make functions
    pack,       \* window.__sp_pack of a tab's page
    stored,     \* sp_pack_<tab>_<name>
    requests,   \* those storage.local has not served yet
    bus,        \* the commands a tab's page has not run yet
    call,       \* the tool call under way
    told,       \* history: what the answers made the agent believe
    spoilt,     \* history: has a page missed commands, or got them out of order
    loads, calls

page == <<open, loading, strict>>
vars == <<page, pack, stored, requests, bus, call, told, spoilt, loads, calls>>

NoPacks == [n \in Names |-> None]

NoCall == [tab |-> None, name |-> None, body |-> None, at |-> "none", ok |-> FALSE]

Init ==
    /\ open = [t \in Tabs |-> TRUE] /\ loading = [t \in Tabs |-> FALSE]
    /\ strict \in [Tabs -> BOOLEAN]
    /\ pack = [t \in Tabs |-> NoPacks] /\ stored = [t \in Tabs |-> NoPacks]
    /\ requests = <<>> /\ bus = [t \in Tabs |-> <<>>]
    /\ call = NoCall /\ told = [t \in Tabs |-> NoPacks]
    /\ spoilt = [t \in Tabs |-> FALSE] /\ loads = 0 /\ calls = 0

-----------------------------------------------------------------------------
\* The tools.  A body of None is a request to unregister.

Request(do, t, packs) == [do |-> do, tab |-> t, packs |-> packs]

Begin(t, n, body) ==
    /\ call = NoCall /\ open[t] /\ calls < MaxCalls /\ calls' = calls + 1
    /\ call' = [tab |-> t, name |-> n, body |-> body, at |-> "sent", ok |-> FALSE]
    /\ told' = [told EXCEPT ![t][n] = Unknown]
    /\ requests' = Append(requests, Request("store", t, <<<<n, body>>>>))
    /\ UNCHANGED <<page, pack, stored, bus, spoilt, loads>>

Register(t, n, body) == body \in Bodies /\ Begin(t, n, body)

Unregister(t, n) == Begin(t, n, None)

\* The page's reply has come.
Answer ==
    /\ call.at = "replied" /\ call' = NoCall
    /\ told' = IF call.ok THEN [told EXCEPT ![call.tab][call.name] = call.body] ELSE told
    /\ UNCHANGED <<page, pack, stored, requests, bus, spoilt, loads, calls>>

OfCall(cmd) == cmd[3]

\* The command is taken off the bus, if the page has not been told of it.
Timeout ==
    /\ call.at \in {"posted", "replied"} /\ call' = NoCall
    /\ LET sent == bus[call.tab]
           mine == {i \in DOMAIN sent : OfCall(sent[i])}
       IN  bus' \in {[bus EXCEPT ![call.tab] = RemoveAt(sent, i)] : i \in mine}
                \cup {[bus EXCEPT ![call.tab] = [i \in DOMAIN sent |-> <<sent[i][1], sent[i][2], FALSE>>]]}
    /\ UNCHANGED <<page, pack, stored, requests, told, spoilt, loads, calls>>

-----------------------------------------------------------------------------
\* storage.local, and what goes on when it has served a request.

Serve(do) == requests # <<>> /\ Head(requests).do = do

First == Head(Head(requests).packs)

At == Head(requests).tab

Continue(request) == requests' = Append(Tail(requests), request)

Stored(t, n, body) == [stored EXCEPT ![t][n] = body]

\* Has a listener an older body of this pack in hand, behind another one?  It
\* will have the page take that after what is stored now.
Overtaken(t, n) ==
    \E i \in DOMAIN requests : \E j \in 2..Len(requests[i].packs) :
        requests[i].do = "rehydrate" /\ requests[i].tab = t /\ requests[i].packs[j][1] = n

\* A pack that the page will refuse is stored all the same.
Store ==
    /\ Serve("store")
    /\ stored' = Stored(At, First[1], First[2])
    /\ spoilt' = [spoilt EXCEPT ![At] = @ \/ Overtaken(At, First[1])]
    /\ Continue([Head(requests) EXCEPT !.do = "command"])
    /\ UNCHANGED <<page, pack, bus, call, told, loads, calls>>

StoreFails ==
    /\ Serve("store") /\ requests' = Tail(requests) /\ call' = NoCall
    /\ UNCHANGED <<page, pack, stored, bus, told, spoilt, loads, calls>>

\* A closed tab has nobody to run it.
Posted(ofCall) ==
    bus' = IF open[At] THEN [bus EXCEPT ![At] = Append(@, <<First[1], First[2], ofCall>>)] ELSE bus

Post ==
    /\ Serve("command") /\ Posted(TRUE)
    /\ requests' = Tail(requests)
    /\ call' = [call EXCEPT !.at = "posted"]
    /\ UNCHANGED <<page, pack, stored, told, spoilt, loads, calls>>

\* Mutant: the key that is read is not the one that was written.
KeptElsewhere(t) == {}

Kept(t) == {<<n, stored[t][n]>> : n \in {m \in Names : stored[t][m] # None}}

\* The tab has loaded: the listener reads all there is, in some order.
Read ==
    /\ Serve("read")
    /\ IF Kept(At) = {} THEN requests' = Tail(requests)
       ELSE \E packs \in SetToSeqs(Kept(At)) : Continue(Request("rehydrate", At, packs))
    /\ UNCHANGED <<page, pack, stored, bus, call, told, spoilt, loads, calls>>

NextPack ==
    LET rest == Tail(Head(requests).packs)
    IN  IF rest = <<>> THEN requests' = Tail(requests)
        ELSE Continue([Head(requests) EXCEPT !.packs = rest])

\* One command after the other.
Rehydrate ==
    /\ Serve("rehydrate") /\ Posted(FALSE) /\ NextPack
    /\ UNCHANGED <<page, pack, stored, call, told, spoilt, loads, calls>>

RehydrateFails ==
    /\ Serve("rehydrate") /\ NextPack
    /\ spoilt' = [spoilt EXCEPT ![At] = TRUE]
    /\ UNCHANGED <<page, pack, stored, bus, call, told, loads, calls>>

\* The tab was closed: what is there is looked up, and then removed.
Scan ==
    /\ Serve("scan")
    /\ IF Kept(At) = {} THEN requests' = Tail(requests)
       ELSE Continue(Request("clear", At, SetToSeq(Kept(At))))
    /\ UNCHANGED <<page, pack, stored, bus, call, told, spoilt, loads, calls>>

Clear ==
    /\ Serve("clear") /\ requests' = Tail(requests)
    /\ stored' = [stored EXCEPT ![At] = [n \in Names |->
            IF \E i \in DOMAIN Head(requests).packs : Head(requests).packs[i][1] = n THEN None ELSE @[n]]]
    /\ UNCHANGED <<page, pack, bus, call, told, spoilt, loads, calls>>

-----------------------------------------------------------------------------
\* The page and the tab.

\* A removal reports success whether there was something or not.
Run(t) ==
    /\ open[t] /\ bus[t] # <<>>
    /\ LET cmd == Head(bus[t])
           ok == ~strict[t] /\ cmd[2] \notin Broken
       IN  /\ pack' = IF ok THEN [pack EXCEPT ![t][cmd[1]] = cmd[2]] ELSE pack
           /\ call' = IF OfCall(cmd) THEN [call EXCEPT !.at = "replied", !.ok = ok] ELSE call
    /\ bus' = [bus EXCEPT ![t] = Tail(@)]
    /\ UNCHANGED <<page, stored, requests, told, spoilt, loads, calls>>

\* No document took it within the 5 s of its deadline.
Expire(t) ==
    /\ bus[t] # <<>> /\ ~OfCall(Head(bus[t]))
    /\ bus' = [bus EXCEPT ![t] = Tail(@)] /\ spoilt' = [spoilt EXCEPT ![t] = TRUE]
    /\ UNCHANGED <<page, pack, stored, requests, call, told, loads, calls>>

\* Is a listener of a former document still at work for this tab?
Rehydrating(t) == \E i \in DOMAIN requests : requests[i].do = "rehydrate" /\ requests[i].tab = t

\* The next document finds what is on the bus in any order.
Navigate(t) ==
    /\ open[t] /\ loads < MaxLoads /\ loads' = loads + 1
    /\ loading' = [loading EXCEPT ![t] = TRUE]
    /\ \E s \in BOOLEAN : strict' = [strict EXCEPT ![t] = s]
    /\ pack' = [pack EXCEPT ![t] = NoPacks]
    /\ bus' \in {bus, [bus EXCEPT ![t] = Reverse(@)]}
    /\ spoilt' = [spoilt EXCEPT ![t] = bus[t] # <<>> \/ (@ /\ Rehydrating(t))]
    /\ UNCHANGED <<open, stored, requests, call, told, calls>>

Complete(t) ==
    /\ open[t] /\ loading[t] /\ loading' = [loading EXCEPT ![t] = FALSE]
    /\ requests' = Append(requests, Request("read", t, <<>>))
    /\ UNCHANGED <<open, strict, pack, stored, bus, call, told, spoilt, loads, calls>>

Close(t) ==
    /\ open[t] /\ open' = [open EXCEPT ![t] = FALSE]
    /\ bus' = [bus EXCEPT ![t] = <<>>]
    /\ requests' = Append(requests, Request("scan", t, <<>>))
    /\ UNCHANGED <<loading, strict, pack, stored, call, told, spoilt, loads, calls>>

-----------------------------------------------------------------------------
Next ==
    \/ \E t \in Tabs, n \in Names : Unregister(t, n) \/ \E body \in Bodies : Register(t, n, body)
    \/ Answer \/ Timeout
    \/ Store \/ StoreFails \/ Post \/ Read \/ Rehydrate \/ RehydrateFails \/ Scan \/ Clear
    \/ \E t \in Tabs : Run(t) \/ Expire(t) \/ Navigate(t) \/ Complete(t) \/ Close(t)

Spec == Init /\ [][Next]_vars

-----------------------------------------------------------------------------
\* Property.

Quiet(t) ==
    /\ open[t] /\ ~loading[t] /\ bus[t] = <<>> /\ call.tab # t
    /\ \A i \in DOMAIN requests : requests[i].tab # t

\* Whatever page a tab shows, it has the packs that the answers to the agent
\* said, once the tab is at rest: the one registered last, and none that was
\* unregistered, although the listener may be at work while a tool is.  Not so
\* where a page allows no functions, was loaded over commands that another one
\* had left, or where the listener had several packs in hand and a tool was
\* faster, until that listener is done and another page loaded (background.js:188-239, 926-1005, selector-pack.ts:67-110).
PacksFollowTab ==
    \A t \in Tabs, n \in Names :
        Quiet(t) /\ ~spoilt[t] /\ ~strict[t] /\ told[t][n] # Unknown => pack[t][n] = told[t][n]

-----------------------------------------------------------------------------
\* Why it holds.

Values == Bodies \cup {None}
Injections == Names \X Values \X BOOLEAN
Requests ==
    {r \in [do : {"store", "command", "read", "rehydrate", "scan", "clear"},
            tab : Tabs, packs : Seq(Names \X Values)] : r.do = "rehydrate" => r.packs # <<>>}

PacksTypes ==
    /\ {open, loading, strict, spoilt} \subseteq [Tabs -> BOOLEAN]
    /\ {pack, stored} \subseteq [Tabs -> [Names -> Values]]
    /\ told \in [Tabs -> [Names -> (Values \ Broken) \cup {Unknown}]]
    /\ bus \in [Tabs -> Seq(Injections)] /\ requests \in Seq(Requests)
    /\ call # NoCall => /\ call \in [tab : Tabs, name : Names, body : Values,
                                     at : {"sent", "posted", "replied"}, ok : BOOLEAN]
                        /\ call.ok => call.body \notin Broken

OfTool(r) == r.do \in {"store", "command"}

\* A call has one request with the storage, or one command on the bus.
Unanswered == call # NoCall => told[call.tab][call.name] = Unknown

OneRequest ==
    \A i \in DOMAIN requests : OfTool(requests[i]) =>
        /\ call.at = "sent" /\ requests[i].tab = call.tab
        /\ requests[i].packs = <<<<call.name, call.body>>>>
        /\ \A j \in DOMAIN requests : OfTool(requests[j]) => i = j

OneCommand ==
    \A t \in Tabs : \A i \in DOMAIN bus[t] : OfCall(bus[t][i]) =>
        /\ call.at = "posted" /\ call.tab = t
        /\ bus[t][i][1] = call.name /\ bus[t][i][2] = call.body
        /\ \A j \in DOMAIN bus[t] : OfCall(bus[t][j]) => i = j

ClosedOnly == \A i \in DOMAIN requests : requests[i].do \in {"scan", "clear"} => ~open[requests[i].tab]

\* What the storage has.
CallStored ==
    call # NoCall /\ open[call.tab] =>
        \/ call.at = "sent" /\ \A i \in DOMAIN requests : requests[i].do # "command"
        \/ stored[call.tab][call.name] = call.body

ToldStored ==
    \A t \in Tabs, n \in Names : open[t] /\ told[t][n] # Unknown => stored[t][n] = told[t][n]

\* What the page was last told and has answered.
Agreed(t, n) ==
    IF call.at = "replied" /\ call.ok /\ call.tab = t /\ call.name = n THEN call.body ELSE told[t][n]

\* Where in a listener's hand a pack is.
Brought(r, t, n) ==
    {k \in DOMAIN r.packs : r.do = "rehydrate" /\ r.tab = t /\ r.packs[k][1] = n}

\* Nothing that is on its way to the page is another body.
NoOther(t, n, v) ==
    /\ \A i \in DOMAIN bus[t] : bus[t][i][1] = n => bus[t][i][2] = v
    /\ \A i \in DOMAIN requests : \A k \in Brought(requests[i], t, n) : requests[i].packs[k][2] = v

Comes(t, n) ==
    \/ loading[t]
    \/ \E i \in DOMAIN requests :
          \/ requests[i].do = "read" /\ requests[i].tab = t
          \/ Brought(requests[i], t, n) # {}

\* The page has it, or it is on its way.
Arrives(t, n, v) ==
    \/ pack[t][n] = v \/ \E i \in DOMAIN bus[t] : bus[t][i][1] = n
    \/ v # None /\ Comes(t, n)

\* What the listener still brings of an older body comes before the command.
Ahead(t) ==
    \A i, j \in DOMAIN requests :
        requests[i].do = "command" /\ requests[i].tab = t =>
            \A k \in Brought(requests[j], t, call.name) :
                requests[j].packs[k][2] = call.body \/ (j < i /\ k = 1)

NoneAfter(sent, n, body) ==
    \A i, j \in DOMAIN sent : OfCall(sent[i]) /\ i < j /\ sent[j][1] = n => sent[j][2] = body

Behind(t) ==
    call.at = "posted" /\ call.tab = t =>
        /\ NoneAfter(bus[t], call.name, call.body)
        /\ \A i \in DOMAIN requests : \A k \in Brought(requests[i], t, call.name) :
              requests[i].packs[k][2] = call.body

Follows(t) ==
    /\ \A n \in Names, v \in Values : Agreed(t, n) = v =>
          NoOther(t, n, v) /\ (~strict[t] => Arrives(t, n, v))
    /\ Ahead(t) /\ Behind(t)

PacksInv ==
    /\ PacksTypes /\ Unanswered /\ OneRequest /\ OneCommand
    /\ ClosedOnly /\ CallStored /\ ToldStored
    /\ \A t \in Tabs : open[t] /\ ~spoilt[t] => Follows(t)
=============================================================================
