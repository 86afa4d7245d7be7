----------------------------- MODULE FileUpload -----------------------------
(***************************************************************************)
(* safari_file_upload: bytes go through the daemon, the command through    *)
(* the extension, and they meet in the page (src/tools/file-upload.ts,     *)
(* FileStagingStore.swift, stage_file in CommandDispatcher.swift, the      *)
(* file-bytes routes and the restart loop of ExtensionHTTPServer.swift,    *)
(* the upload sentinels of background.js and the content scripts).         *)
(*                                                                         *)
(* The handler probes the field, stages one file after the other under a   *)
(* token of its own, and posts a command that names the tokens.  A content *)
(* script fetches the bytes and hands the files to the page's world, which *)
(* sets them.  The handler, the content script and the page's world each   *)
(* give up by themselves while the others go on.                           *)
(***************************************************************************)
EXTENDS Naturals, Sequences

CONSTANTS
    Uploads,        \* calls of safari_file_upload
    MaxFiles,       \* how many files a call may name (4 in the code)
    MaxRestarts,    \* maxRuntimeRestarts (5 in the code)
    None,
    Faults          \* bound: failures, page changes and restarts

UploadAssumption ==
    /\ MaxFiles \in Nat \ {0} /\ MaxRestarts \in Nat /\ Faults \in Nat
    /\ None \notin Uploads

VARIABLES
    call,       \* where the handler is; it ends as "ok" or "error"
    want,       \* how many files it was asked for; 0 is clear: true
    staged,     \* how many it has staged
    store,      \* tokens staged in the daemon, "fresh" until they expire
    service,    \* the daemon's HTTP service: up or down
    runs,       \* how often it was started in this daemon (attempt)
    content,    \* where the content script is with the command
    fetched,    \* the files it has fetched, in order; 0 for a failed fetch
    main,       \* where the page's world is with the files
    result,     \* what the content script will answer
    field,      \* the element the locator names: single, multiple or none
    input,      \* who set its files, and which
    faults,     \* how many faults so far
    installed   \* history: calls whose files were set

daemon == <<store, service, runs>>
page == <<content, fetched, main, result, field, input, installed>>
vars == <<call, want, staged, daemon, page, faults>>

Token(u, i) == <<u, i>>
Tokens == {Token(u, i) : u \in Uploads, i \in 1..MaxFiles}
Empty == [by |-> None, files |-> <<>>]
Fields == {"single", "multiple", "none"}

Init ==
    /\ call = [u \in Uploads |-> "idle"]
    /\ want = [u \in Uploads |-> 0] /\ staged = [u \in Uploads |-> 0]
    /\ store = [t \in Tokens |-> "absent"]
    /\ service = "up" /\ runs = 1
    /\ content = [u \in Uploads |-> "none"]
    /\ fetched = [u \in Uploads |-> <<>>]
    /\ main = [u \in Uploads |-> "none"] /\ result = [u \in Uploads |-> "none"]
    /\ field \in Fields /\ input = Empty
    /\ faults = 0 /\ installed = {}

Fault == faults < Faults /\ faults' = faults + 1
Works == UNCHANGED faults

Goto(u, where) == call' = [call EXCEPT ![u] = where]

-----------------------------------------------------------------------------
\* The handler.

Begin(u) ==
    /\ call[u] = "idle"
    /\ \E n \in 0..MaxFiles : want' = [want EXCEPT ![u] = n]
    /\ Goto(u, "probe")
    /\ UNCHANGED <<staged, daemon, page, faults>>

Accepts(n) == field = "multiple" \/ (field = "single" /\ n <= 1)

\* The probe reads the page and changes nothing.
Probe(u) ==
    /\ call[u] = "probe"
    /\ \/ Works /\ Accepts(want[u]) /\ Goto(u, "stage")
       \/ Works /\ ~Accepts(want[u]) /\ Goto(u, "error")
       \/ Fault /\ Goto(u, "error")
    /\ UNCHANGED <<want, staged, daemon, page>>

\* A file is read and staged.  If that fails the tokens before it stay, and so
\* may the token itself when only the answer was lost.
Stage(u) ==
    /\ call[u] = "stage" /\ staged[u] < want[u]
    /\ LET kept == [store EXCEPT ![Token(u, staged[u] + 1)] = "fresh"] IN
       \/ Works /\ store' = kept /\ staged' = [staged EXCEPT ![u] = @ + 1] /\ UNCHANGED call
       \/ Fault /\ store' \in {store, kept} /\ Goto(u, "error") /\ UNCHANGED staged
    /\ UNCHANGED <<want, service, runs, page>>

Post(u) ==
    /\ call[u] = "stage" /\ staged[u] = want[u]
    /\ Goto(u, "wait")
    /\ content' = [content EXCEPT ![u] = "posted"]
    /\ UNCHANGED <<want, staged, daemon, fetched, main, result, field, input, faults, installed>>

Finish(u) ==
    /\ call[u] = "wait" /\ content[u] = "answered"
    /\ Goto(u, result[u])
    /\ UNCHANGED <<want, staged, daemon, page, faults>>

\* The 30 s of background.js, which takes the command off the bus, or a
\* shorter wait further out, which does not.
GiveUp(u) ==
    /\ call[u] = "wait" /\ Goto(u, "error") /\ Fault
    /\ content' \in {content, IF content[u] = "posted" THEN [content EXCEPT ![u] = "none"] ELSE content}
    /\ UNCHANGED <<want, staged, daemon, fetched, main, result, field, input, installed>>

-----------------------------------------------------------------------------
\* The content script.

Take(u) ==
    /\ content[u] = "posted"
    /\ content' = [content EXCEPT ![u] = "fetching"]
    /\ UNCHANGED <<call, want, staged, daemon, fetched, main, result, field, input, faults, installed>>

\* peek looks at no clock: what has expired is served until it is evicted.
Served(t) == service = "up" /\ store[t] # "absent"

Fetch(u) ==
    /\ content[u] = "fetching" /\ Len(fetched[u]) < want[u]
    /\ LET i == Len(fetched[u]) + 1
           Got(f) == fetched' = [fetched EXCEPT ![u] = Append(@, f)] IN
       \/ Works /\ Served(Token(u, i)) /\ Got(i)
       \/ Works /\ ~Served(Token(u, i)) /\ Got(0)
       \/ Fault /\ Got(0)
    /\ UNCHANGED <<call, want, staged, daemon, content, main, result, field, input, installed>>

Failed(s) == \E i \in DOMAIN s : s[i] = 0

\* Mutant: what could be fetched is handed over all the same.
HandOverPartial(u) ==
    /\ content' = [content EXCEPT ![u] = "waiting"]
    /\ main' = [main EXCEPT ![u] = "posted"]
    /\ UNCHANGED result

\* If a fetch failed the script answers at once and releases nothing.
HandOver(u) ==
    IF Failed(fetched[u])
    THEN /\ content' = [content EXCEPT ![u] = "answered"]
         /\ result' = [result EXCEPT ![u] = "error"]
         /\ UNCHANGED main
    ELSE /\ content' = [content EXCEPT ![u] = "waiting"]
         /\ main' = [main EXCEPT ![u] = "posted"]
         /\ UNCHANGED result

FetchesOver(u) ==
    /\ content[u] = "fetching" /\ Len(fetched[u]) = want[u]
    /\ HandOver(u)
    /\ UNCHANGED <<call, want, staged, daemon, fetched, field, input, faults, installed>>

Replied(u) ==
    /\ content[u] = "waiting" /\ main[u] \in {"ok", "error"}
    /\ content' = [content EXCEPT ![u] = "releasing"]
    /\ result' = [result EXCEPT ![u] = main[u]]
    /\ UNCHANGED <<call, want, staged, daemon, fetched, main, field, input, faults, installed>>

NoReplyMeans == "error"

\* The content script's 5 s; the page's world may yet get to the files, or just has.
ReplyTimeout(u) ==
    /\ content[u] = "waiting" /\ Fault
    /\ content' = [content EXCEPT ![u] = "releasing"]
    /\ result' = [result EXCEPT ![u] = NoReplyMeans]
    /\ UNCHANGED <<call, want, staged, daemon, fetched, main, field, input, installed>>

Gone(s) == [t \in Tokens |-> IF t \in s THEN "absent" ELSE store[t]]

\* All tokens are deleted at once; a request that fails is ignored.
Release(u) ==
    /\ content[u] = "releasing"
    /\ LET mine == {Token(u, i) : i \in 1..want[u]} IN
       \/ Works /\ store' = (IF service = "up" THEN Gone(mine) ELSE store)
       \/ Fault /\ \E lost \in SUBSET mine : store' = Gone(mine \ lost)
    /\ content' = [content EXCEPT ![u] = "answered"]
    /\ UNCHANGED <<call, want, staged, service, runs, fetched, main, result, field, input, installed>>

-----------------------------------------------------------------------------
\* The page.

\* It looks at the element again, since the probe's answer may be outdated.
Inject(u) ==
    /\ main[u] = "posted"
    /\ IF Accepts(want[u])
       THEN /\ input' = (IF want[u] = 0 THEN Empty ELSE [by |-> u, files |-> fetched[u]])
            /\ main' = [main EXCEPT ![u] = "ok"]
            /\ installed' = installed \cup {u}
       ELSE main' = [main EXCEPT ![u] = "error"] /\ UNCHANGED <<input, installed>>
    /\ UNCHANGED <<call, want, staged, daemon, content, fetched, result, field, faults>>

\* The page's own script puts another element, or none, in the field's place.
PageChanges ==
    /\ Fault
    /\ field' \in Fields /\ input' = Empty
    /\ UNCHANGED <<call, want, staged, daemon, content, fetched, main, result, installed>>

\* A new document: the old one's scripts are gone with what they had begun.  A
\* command still on the bus is picked up by the new one.
Navigate ==
    /\ Fault
    /\ field' \in Fields /\ input' = Empty
    /\ content' = [u \in Uploads |-> IF content[u] \in {"none", "posted", "answered"} THEN content[u] ELSE "none"]
    /\ main' = [u \in Uploads |-> IF main[u] = "posted" THEN "none" ELSE main[u]]
    /\ UNCHANGED <<call, want, staged, daemon, fetched, result, installed>>

-----------------------------------------------------------------------------
\* The daemon.

SixtySeconds(t) ==
    /\ store[t] = "fresh"
    /\ store' = [store EXCEPT ![t] = "expired"]
    /\ UNCHANGED <<call, want, staged, service, runs, page, faults>>

EvictExpired ==
    /\ \E t \in Tokens : store[t] = "expired"
    /\ store' = Gone({t \in Tokens : store[t] = "expired"})
    /\ UNCHANGED <<call, want, staged, service, runs, page, faults>>

\* onBindFailure: the process exits and launchd starts another one.
Exit ==
    /\ store' = [t \in Tokens |-> "absent"]
    /\ service' = "down" /\ runs' = 0

ServiceFails ==
    /\ service = "up" /\ Fault
    /\ IF runs - 1 >= MaxRestarts THEN Exit
       ELSE service' = "down" /\ UNCHANGED <<store, runs>>
    /\ UNCHANGED <<call, want, staged, page>>

\* After the backoff; readyFlag is reset, so failing to bind again is fatal.
ServiceStarts ==
    /\ service = "down"
    /\ \/ Works /\ service' = "up" /\ runs' = runs + 1 /\ UNCHANGED store
       \/ Fault /\ Exit
    /\ UNCHANGED <<call, want, staged, page>>

-----------------------------------------------------------------------------
Handler(u) == Begin(u) \/ Probe(u) \/ Stage(u) \/ Post(u) \/ Finish(u) \/ GiveUp(u)

ContentScript(u) ==
    Take(u) \/ Fetch(u) \/ FetchesOver(u) \/ Replied(u) \/ ReplyTimeout(u) \/ Release(u)

Next ==
    \/ \E u \in Uploads : Handler(u) \/ ContentScript(u) \/ Inject(u)
    \/ \E t \in Tokens : SixtySeconds(t)
    \/ PageChanges \/ Navigate
    \/ EvictExpired \/ ServiceFails \/ ServiceStarts

Spec == Init /\ [][Next]_vars

-----------------------------------------------------------------------------
\* Properties.

\* A field holds the files of one call, all of them and in the order of its
\* paths: tokens that expired or were lost with a daemon never show as a
\* shorter list (content-isolated.js:363-390, content-main.js:391-413).
AllOrNothing ==
    input.by # None => input.files = [i \in 1..want[input.by] |-> i]

\* A call that reports success has set its files, whoever gave up on the way
\* (file-upload.ts:214-228).
SuccessMeansInstalled ==
    \A u \in Uploads : call[u] = "ok" => u \in installed

\* An upload is all or nothing, in the page and in what is said of it.
UploadTruthful == AllOrNothing /\ SuccessMeansInstalled
=============================================================================
