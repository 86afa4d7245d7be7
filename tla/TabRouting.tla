----------------------------- MODULE TabRouting -----------------------------
(***************************************************************************)
(* How the event page finds the tab of a command (extension/background.js: *)
(* tab cache, session dashboards, findTargetTab).                          *)
(*                                                                         *)
(* tabs.query finds nothing when an alarm woke the page, so the page keeps *)
(* an index of its own, in memory and in storage, from the events of tabs. *)
(* A second index says in which window a session has its dashboard, and    *)
(* confines the session's commands to it.  Safari delivers events and      *)
(* answers of tabs.query in one order; answers of the storage come when    *)
(* they come.  Tabs do not move between windows.                           *)
(***************************************************************************)
EXTENDS Naturals, Sequences, FiniteSets, SequencesExt

CONSTANTS
    Tabs,       \* tabs, opened at most once each
    Windows,
    Sessions,   \* MCP sessions; also the URLs of their dashboards
    Pages,      \* other URLs
    None,
    MaxEvents,  \* bound: events of tabs
    MaxWakes    \* bound: lives of the page, and its alarms

RoutingAssumption ==
    /\ None \notin Tabs \cup Windows \cup Sessions \cup Pages
    /\ Sessions \cap Pages = {}
    /\ IsFiniteSet(Tabs) /\ MaxEvents \in Nat /\ MaxWakes \in Nat

VARIABLES
    shows,      \* the URL a tab shows; None if it is not open
    home,       \* the window in which it was opened
    events,     \* what Safari has yet to deliver
    up,         \* is the event page loaded
    life,       \* how often it was
    cache,      \* tabCacheMap
    stored,     \* the index in storage; None if there is none
    load,       \* loadTabCache: idle, asked, or read with its answer
    answer,     \* what it has read
    windowOf,   \* sessionDashboardUrlToWindowId
    dashboard,  \* dashboardTabIdToUrl
    sent,       \* the last command dispatched
    happened,   \* how many events of tabs so far
    wakes       \* how often the page was woken or an alarm fired

safari == <<shows, home, happened>>
index == <<cache, stored>>
sessions == <<windowOf, dashboard>>
loading == <<load, answer>>
vars == <<safari, events, up, life, index, loading, sessions, sent, wakes>>

NoEntries == [t \in Tabs |-> None]
NotSent == [tab |-> None, session |-> None, known |-> FALSE, among |-> {}]

Init ==
    /\ shows = [t \in Tabs |-> None] /\ home = [t \in Tabs |-> None]
    /\ events = <<>> /\ up = FALSE /\ life = 0
    /\ cache = NoEntries /\ stored = None
    /\ load = "idle" /\ answer = None
    /\ windowOf = [s \in Sessions |-> None] /\ dashboard = [t \in Tabs |-> None]
    /\ sent = NotSent
    /\ happened = 0 /\ wakes = 0

Open(t) == shows[t] # None

-----------------------------------------------------------------------------
\* Tabs, and what Safari tells of them.

\* The answer to a query is for the life of the page that has asked.
Event(kind, t, url) == [kind |-> kind, tab |-> t, url |-> url, life |-> life]

Happens(kind, t, url) ==
    /\ happened < MaxEvents /\ happened' = happened + 1
    /\ events' = Append(events, Event(kind, t, url))
    /\ UNCHANGED <<up, life, index, loading, sessions, sent, wakes>>

TabOpens(t) ==
    /\ home[t] = None
    /\ \E url \in Pages \cup Sessions, w \in Windows :
        /\ shows' = [shows EXCEPT ![t] = url]
        /\ home' = [home EXCEPT ![t] = w]
        /\ Happens("created", t, url)

TabNavigates(t) ==
    /\ Open(t)
    /\ \E url \in (Pages \cup Sessions) \ {shows[t]} :
        /\ shows' = [shows EXCEPT ![t] = url]
        /\ Happens("updated", t, url)
    /\ UNCHANGED home

\* pushState in the top frame; the content script sends sp_url_changed.
PageMoves(t) ==
    /\ Open(t) /\ shows[t] \in Pages
    /\ \E url \in Pages \ {shows[t]} :
        /\ shows' = [shows EXCEPT ![t] = url]
        /\ Happens("moved", t, url)
    /\ UNCHANGED home

TabCloses(t) ==
    /\ Open(t)
    /\ shows' = [shows EXCEPT ![t] = None]
    /\ Happens("removed", t, shows[t])
    /\ UNCHANGED home

-----------------------------------------------------------------------------
\* The life of the page.

\* An event or the alarm loads the script: its memory is empty, it asks for the
\* tabs to find dashboards, and initialize will load the stored index.  The
\* query finds nothing when the alarm woke the page.
Wake ==
    /\ ~up /\ wakes < MaxWakes /\ wakes' = wakes + 1
    /\ up' = TRUE /\ life' = life + 1
    /\ load' = "asked"
    /\ LET open == SetToSeq({t \in Tabs : Open(t)})
           found == [i \in DOMAIN open |-> [Event("found", open[i], shows[open[i]]) EXCEPT !.life = life + 1]] IN
       events' \in {events, events \o found}
    /\ UNCHANGED <<safari, index, answer, sessions, sent>>

PageDies ==
    /\ up
    /\ up' = FALSE
    /\ cache' = NoEntries /\ load' = "idle" /\ answer' = None
    /\ windowOf' = [s \in Sessions |-> None] /\ dashboard' = [t \in Tabs |-> None]
    /\ UNCHANGED <<safari, events, life, stored, sent, wakes>>

\* initialize runs once a minute while the page lives.
Alarm ==
    /\ up /\ load = "idle" /\ wakes < MaxWakes /\ wakes' = wakes + 1
    /\ load' = "asked"
    /\ UNCHANGED <<safari, events, up, life, index, answer, sessions, sent>>

StorageReads ==
    /\ load = "asked"
    /\ load' = "read" /\ answer' = stored
    /\ UNCHANGED <<safari, events, up, life, index, sessions, sent, wakes>>

\* What was read replaces the map, whatever events have put there since.
LoadTabCache ==
    /\ load = "read"
    /\ load' = "idle" /\ answer' = None
    /\ cache' = IF answer = None THEN cache ELSE answer
    /\ UNCHANGED <<safari, events, up, life, stored, sessions, sent, wakes>>

-----------------------------------------------------------------------------
\* Listeners.

\* saveTabCache writes the whole map.  On a quota error it drops the index.
Save(c) ==
    \/ cache' = c /\ stored' = c
    \/ cache' = NoEntries /\ stored' = None

Entry(t, url) == [url |-> url, window |-> home[t]]

Stale(t, url) ==
    LET old == dashboard[t] IN
    IF old \notin {None, url} /\ windowOf[old] = home[t]
    THEN [windowOf EXCEPT ![old] = None] ELSE windowOf

\* Other URLs leave the entries as they are.
RegisterDashboardTab(t, url) ==
    IF url \in Sessions
    THEN /\ windowOf' = [Stale(t, url) EXCEPT ![url] = home[t]]
         /\ dashboard' = [dashboard EXCEPT ![t] = url]
    ELSE UNCHANGED sessions

OnCreatedOrUpdated(e) ==
    /\ e.kind \in {"created", "updated"}
    /\ Save([cache EXCEPT ![e.tab] = Entry(e.tab, e.url)])
    /\ RegisterDashboardTab(e.tab, e.url)

\* The entry is replaced by one that has no window.
OnMoved(e) ==
    /\ e.kind = "moved"
    /\ Save([cache EXCEPT ![e.tab] = [url |-> e.url, window |-> None]])
    /\ UNCHANGED sessions

OnRemoved(e) ==
    /\ e.kind = "removed"
    /\ Save([cache EXCEPT ![e.tab] = None])
    /\ dashboard' = [dashboard EXCEPT ![e.tab] = None]
    /\ windowOf' = [s \in Sessions |-> IF dashboard[e.tab] = s THEN None ELSE windowOf[s]]

\* populateSessionMapFromExistingTabs
OnFound(e) ==
    /\ e.kind = "found"
    /\ IF e.life = life THEN RegisterDashboardTab(e.tab, e.url) ELSE UNCHANGED sessions
    /\ UNCHANGED index

Deliver ==
    /\ up /\ events # <<>>
    /\ events' = Tail(events)
    /\ LET e == Head(events) IN OnCreatedOrUpdated(e) \/ OnMoved(e) \/ OnRemoved(e) \/ OnFound(e)
    /\ UNCHANGED <<safari, up, life, loading, sent, wakes>>

-----------------------------------------------------------------------------
\* findTargetTab.

\* spFilterBySession: a session that is not known is not filtered.
InSession(s, window) == s = None \/ windowOf[s] = None \/ window = windowOf[s]

Live(s, url) == {t \in Tabs : shows[t] = url /\ InSession(s, home[t])}

\* Mutant: the fallback takes any tab of that URL.
CachedAnywhere(s, url) == {t \in Tabs : cache[t] # None /\ cache[t].url = url}

Cached(s, url) ==
    {t \in Tabs : cache[t] # None /\ cache[t].url = url /\ InSession(s, cache[t].window)}

\* The answer of tabs.query comes after the events before it.
Dispatch(s, url) ==
    /\ up /\ events = <<>>
    /\ \E alarm \in BOOLEAN :
        LET live == IF alarm THEN {} ELSE Live(s, url) IN
        \E t \in IF live # {} THEN live ELSE Cached(s, url) :
            sent' = [tab |-> t, session |-> s, known |-> s # None /\ windowOf[s] # None,
                     among |-> {home[d] : d \in {d \in Tabs : dashboard[d] = s}}]
    /\ UNCHANGED <<safari, events, up, life, index, loading, sessions, wakes>>

-----------------------------------------------------------------------------
Next ==
    \/ \E t \in Tabs : TabOpens(t) \/ TabNavigates(t) \/ PageMoves(t) \/ TabCloses(t)
    \/ Wake \/ PageDies \/ Alarm \/ StorageReads \/ LoadTabCache
    \/ Deliver
    \/ \E s \in Sessions \cup {None}, url \in Pages : Dispatch(s, url)

Spec == Init /\ [][Next]_vars

-----------------------------------------------------------------------------
\* Properties.

URLs == Pages \cup Sessions

Events == [kind : {"created", "updated", "moved", "removed", "found"}, tab : Tabs, url : URLs, life : Nat]

RoutingTypes ==
    /\ shows \in [Tabs -> URLs \cup {None}] /\ home \in [Tabs -> Windows \cup {None}]
    /\ events \in Seq(Events) /\ life \in Nat
    /\ windowOf \in [Sessions -> Windows \cup {None}] /\ dashboard \in [Tabs -> Sessions \cup {None}]

\* An index knows the window of a tab, or no window.
Agrees(map) ==
    DOMAIN map = Tabs /\ \A t \in Tabs : map[t] # None => map[t].window \in {None, home[t]}

\* The window that a session has is the one of a dashboard that is registered.
RoutingInv ==
    /\ RoutingTypes
    /\ Agrees(cache) /\ (stored # None => Agrees(stored)) /\ (answer # None => Agrees(answer))
    /\ \A s \in Sessions : windowOf[s] # None =>
            \E d \in Tabs : dashboard[d] = s /\ home[d] = windowOf[s]
    /\ sent.known => sent.tab \in Tabs /\ home[sent.tab] # None /\ home[sent.tab] \in sent.among

\* While the page knows a session's dashboard, the session's commands go to
\* tabs of a window where one of its dashboards is registered: never by way of
\* the fallback, of an outdated entry, or of a dashboard that is gone, into
\* another session's window (background.js:66-118, 493-560).
RoutedWithinSession ==
    sent.known => home[sent.tab] \in sent.among
=============================================================================
