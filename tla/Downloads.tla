------------------------------ MODULE Downloads ------------------------------
(***************************************************************************)
(* safari_wait_for_download (src/tools/downloads.ts, the click contexts of *)
(* server.ts, watch_download in CommandDispatcher.swift and                *)
(* DownloadWatcher.swift).                                                 *)
(*                                                                         *)
(* The agent has clicked; Safari downloads into a bundle and renames it.   *)
(* The handler asks a watcher in the daemon, which learns of bundles from  *)
(* the file system, and falls back to looking at the directory and at      *)
(* Safari's list of downloads.  A file's name is used once; bundles,       *)
(* events and retries of different files interleave.                       *)
(***************************************************************************)
EXTENDS Naturals, FiniteSets

CONSTANTS
    Files,      \* files that may ever be in the download directory
    None,
    Retries     \* how often a renamed bundle's file is looked for (4)

DownloadAssumption == None \notin Files /\ Retries \in Nat

VARIABLES
    disk,       \* none, bundle, file or gone
    listed,     \* files the list of downloads calls complete
    named,      \* files whose name matches the pattern of the call
    wanted,     \* those of them that the click context allows as well
    context,    \* is the click's context in the server
    took,       \* did the handler take it
    wait,       \* where the handler is; it ends as ok, inline, timeout or error
    found,      \* the file it reports
    before,     \* the fallback's snapshot of the directory
    watch,      \* the watcher: off, begun, on or settled
    snapshot,   \* what was in the directory when it began
    created,    \* creations of bundles it has yet to be told of
    sources,    \* bundles it has a DispatchSource for
    vanished,   \* what these have yet to tell: pairs of a bundle and an event
    checks,     \* renamed bundles whose file it looks for, and how often it has
    reply       \* what it answers

dir == <<disk, listed>>
asked == <<named, wanted>>
handler == <<context, took, wait, found, before>>
watcher == <<watch, snapshot, created, sources, vanished, checks, reply>>
vars == <<dir, asked, handler, watcher>>

Present == {f \in Files : disk[f] = "file"}
NoReply == [kind |-> "none", file |-> None]

Init ==
    /\ disk \in [Files -> {"none", "bundle", "file"}]
    /\ listed \in SUBSET Present
    /\ named \in SUBSET Files /\ wanted \in SUBSET named
    /\ context \in BOOLEAN /\ (~context => wanted = named)
    /\ took = FALSE /\ wait = "idle" /\ found = None /\ before = {}
    /\ watch = "off" /\ snapshot = {} /\ created = {} /\ sources = {}
    /\ vanished = {} /\ checks = [f \in Files |-> None] /\ reply = NoReply

-----------------------------------------------------------------------------
\* Safari.

SafariBegins(f) ==
    /\ disk[f] = "none"
    /\ disk' = [disk EXCEPT ![f] = "bundle"]
    /\ created' = IF watch = "on" THEN created \cup {f} ELSE created
    /\ UNCHANGED <<listed, asked, handler, watch, snapshot, sources, vanished, checks, reply>>

SafariFinishes(f) ==
    /\ disk[f] = "bundle"
    /\ disk' = [disk EXCEPT ![f] = "file"]
    /\ listed' \in {listed, listed \cup {f}}
    /\ vanished' = IF f \in sources THEN vanished \cup {<<f, "rename">>} ELSE vanished
    /\ UNCHANGED <<asked, handler, watch, snapshot, created, sources, checks, reply>>

\* The user cancels: the bundle is deleted, or renamed into the trash.
SafariCancels(f) ==
    /\ disk[f] = "bundle"
    /\ disk' = [disk EXCEPT ![f] = "gone"]
    /\ vanished' \in IF f \in sources
                     THEN {vanished \cup {<<f, how>>} : how \in {"rename", "delete"}}
                     ELSE {vanished}
    /\ UNCHANGED <<listed, asked, handler, watch, snapshot, created, sources, checks, reply>>

-----------------------------------------------------------------------------
\* DownloadWatcher.

\* The snapshot has bare names: no bundle that is there already can be opened.
Begun ==
    /\ watch' = "begun" /\ snapshot' = Present
    /\ UNCHANGED <<created, sources, vanished, checks, reply>>

Settle(kind, f) ==
    /\ watch' = "settled" /\ reply' = [kind |-> kind, file |-> f]
    /\ created' = {} /\ sources' = {} /\ vanished' = {} /\ UNCHANGED <<snapshot, checks>>

StartWatch ==
    /\ watch = "begun"
    /\ \/ watch' = "on" /\ UNCHANGED <<snapshot, created, sources, vanished, checks, reply>>
       \/ Settle("fsevents", None)
    /\ UNCHANGED <<dir, asked, handler>>

\* A bundle that is gone by now cannot be opened any more.
HandleFSEvent(f) ==
    /\ f \in created
    /\ created' = created \ {f}
    /\ sources' = IF disk[f] = "bundle" THEN sources \cup {f} ELSE sources
    /\ UNCHANGED <<dir, asked, handler, watch, snapshot, vanished, checks, reply>>

HandleBundleRenamed(f) ==
    /\ <<f, "rename">> \in vanished
    /\ vanished' = vanished \ {<<f, "rename">>}
    /\ checks' = [checks EXCEPT ![f] = 0]
    /\ UNCHANGED <<dir, asked, handler, watch, snapshot, created, sources, reply>>

HandleBundleDeleted(f) ==
    /\ <<f, "delete">> \in vanished
    /\ Settle("cancelled", None)
    /\ UNCHANGED <<dir, asked, handler>>

\* Mutant: what was renamed is taken without a look at the filters.
ChecksOutUnfiltered(f) == disk[f] = "file"

ChecksOut(f) == disk[f] = "file" /\ f \in wanted

\* resolve does nothing when it comes too late.
RetryFileCheck(f) ==
    /\ checks[f] # None /\ watch # "off"
    /\ IF watch = "on" /\ ChecksOut(f)
       THEN /\ watch' = "settled" /\ reply' = [kind |-> "ok", file |-> f]
            /\ created' = {} /\ sources' = {} /\ vanished' = {}
       ELSE UNCHANGED <<watch, reply, created, sources, vanished>>
    /\ checks' = [checks EXCEPT ![f] = IF disk[f] = "file" \/ @ + 1 >= Retries THEN None ELSE @ + 1]
    /\ UNCHANGED <<dir, asked, handler, snapshot>>

HandleTimeout ==
    /\ watch = "on"
    /\ LET new == (Present \cap wanted) \ snapshot IN
       IF new = {} THEN Settle("timeout", None) ELSE \E f \in new : Settle("ok", f)
    /\ UNCHANGED <<dir, asked, handler>>

-----------------------------------------------------------------------------
\* The handler.

Goto(where) == wait' = where /\ UNCHANGED <<took, found, before>>

\* consumeClickContext, and the look whether the tab shows the file.
Begin ==
    /\ wait = "idle"
    /\ took' = context /\ context' = FALSE
    /\ wait' \in {"daemon", "poll"} \cup (IF context THEN {"inline"} ELSE {})
    /\ UNCHANGED <<dir, asked, found, before, watcher>>

AskDaemon ==
    /\ wait = "daemon" /\ watch = "off"
    /\ Begun
    /\ UNCHANGED <<dir, asked, handler>>

Report(f) == wait' = "ok" /\ found' = f /\ UNCHANGED <<took, before>>

Restored == context' = (context \/ took)

\* quickDirectoryCheck: what the list has for complete, then any file at all.
OrTimeout ==
    IF Present \cap named = {} THEN Goto("timeout") ELSE \E f \in Present \cap named : Report(f)

\* If saveAs cannot be written the answer is DAEMON_PARSE_ERROR.
DaemonAnswers ==
    /\ wait = "daemon" /\ watch = "settled"
    /\ CASE reply.kind = "ok" -> Report(reply.file) \/ Goto("error")
         [] reply.kind = "timeout" -> OrTimeout
         [] OTHER -> Goto("poll")
    /\ UNCHANGED <<dir, asked, context, watcher>>

\* The daemon's own error, or none within five seconds of the timeout.
DaemonFails ==
    /\ wait = "daemon" /\ watch # "off"
    /\ OrTimeout \/ Goto("poll")
    /\ UNCHANGED <<dir, asked, context, watcher>>

PollBegins ==
    /\ wait = "poll"
    /\ before' = Present /\ wait' = "polling"
    /\ UNCHANGED <<dir, asked, context, took, found, watcher>>

\* If saveAs cannot be written the click context is put back.
PollFindsNew ==
    /\ wait = "polling"
    /\ \E f \in (Present \cap named) \ before :
        \/ Report(f) /\ UNCHANGED context
        \/ Goto("error") /\ Restored
    /\ UNCHANGED <<dir, asked, watcher>>

\* What the list has for complete, since whenever.
PollFindsListed ==
    /\ wait = "polling" /\ (Present \cap named) \ before = {}
    /\ \E f \in listed \cap named \cap Present : Report(f)
    /\ UNCHANGED <<dir, asked, context, watcher>>

PollEnds ==
    /\ wait = "polling"
    /\ OrTimeout
    /\ IF wait' = "timeout" THEN Restored ELSE UNCHANGED context
    /\ UNCHANGED <<dir, asked, watcher>>

-----------------------------------------------------------------------------
Next ==
    \/ \E f \in Files :
        \/ SafariBegins(f) \/ SafariFinishes(f) \/ SafariCancels(f)
        \/ HandleFSEvent(f) \/ HandleBundleRenamed(f) \/ HandleBundleDeleted(f)
        \/ RetryFileCheck(f)
    \/ StartWatch \/ HandleTimeout
    \/ Begin \/ AskDaemon \/ DaemonAnswers \/ DaemonFails
    \/ PollBegins \/ PollFindsNew \/ PollFindsListed \/ PollEnds

Spec == Init /\ [][Next]_vars

-----------------------------------------------------------------------------
\* Properties.

\* The watcher never answers with a file that was there before, or that the
\* call did not ask for, by whichever way it came to know of it: a rename, a
\* retry that outlives its bundle, or the look at the directory when time is up
\* (DownloadWatcher.swift:352-432, 500-560).
WatchFindsNew ==
    reply.kind = "ok" => reply.file \in wanted \ snapshot

-----------------------------------------------------------------------------
\* Why it holds.  A finished file stays one, so that no bundle can
\* take the name of a file of the snapshot: whatever the watcher comes to know
\* of after it began is not in there.

WatchTypes ==
    /\ disk \in [Files -> {"none", "bundle", "file", "gone"}]
    /\ checks \in [Files -> Nat \cup {None}]
    /\ created \subseteq Files /\ sources \subseteq Files
    /\ vanished \subseteq Files \X {"rename", "delete"}

SnapshotStays == snapshot \subseteq Present

NewsIsNew ==
    \A f \in Files :
        f \in created \cup sources \/ checks[f] # None
            \/ <<f, "rename">> \in vanished \/ <<f, "delete">> \in vanished
        => f \notin snapshot

NothingYet ==
    watch \in {"off", "begun"} =>
        /\ created = {} /\ sources = {} /\ vanished = {}
        /\ \A f \in Files : checks[f] = None
        /\ reply = NoReply

WatchInv == WatchTypes /\ SnapshotStays /\ NewsIsNew /\ NothingYet /\ WatchFindsNew
=============================================================================
