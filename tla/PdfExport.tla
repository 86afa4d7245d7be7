------------------------------ MODULE PdfExport ------------------------------
(***************************************************************************)
(* safari_export_pdf (src/tools/pdf.ts, generate_pdf in                    *)
(* CommandDispatcher.swift, PdfGenerator.swift).                           *)
(*                                                                         *)
(* A call takes the HTML of the front tab and has the daemon print it; if  *)
(* that gives nothing it has the daemon load the tab's URL instead.  The   *)
(* daemon renders in a web view of its own, whose navigation may end, fail *)
(* or neither; it reads its stdin one command at a time, but serves every  *)
(* TCP connection at once.  A call that has given up on a rendering does   *)
(* not stop it.  Calls write to paths of their own.                        *)
(***************************************************************************)
EXTENDS Integers, Sequences

CONSTANTS
    Calls,
    None,
    Requests,   \* [paper, landscape, css, range]; lengths in 1/100 point
    MaxPages    \* bound: pages of a rendering

Attempts == {"html", "url"}

PdfAssumption ==
    /\ MaxPages \in Nat /\ None \notin Attempts
    /\ \A r \in Requests :
        /\ r.paper \in Nat \X Nat /\ {r.landscape, r.css} \subseteq BOOLEAN
        /\ r.range = None \/ r.range \in Nat \X Nat

Jobs == Calls \X Attempts

VARIABLES
    transport,  \* stdin or tcp
    request,
    phase,      \* a call is idle, asks for a pong, waits, or is over
    attempt,    \* what it has the daemon render
    answer,     \* its answer: None, an error, or the source and its pages
    gaveUp,     \* history: calls that did not wait for a rendering
    inbox,      \* commands the daemon has yet to read
    job,        \* where the daemon is with a command
    file        \* what is at the path of a call

tool == <<phase, attempt, answer, gaveUp>>
vars == <<transport, request, tool, inbox, job, file>>

Init ==
    /\ transport \in {"stdin", "tcp"} /\ request \in [Calls -> Requests]
    /\ phase = [c \in Calls |-> "idle"] /\ attempt = [c \in Calls |-> None]
    /\ answer = [c \in Calls |-> None] /\ gaveUp = {}
    /\ inbox = <<>> /\ job = [j \in Jobs |-> "none"] /\ file = [c \in Calls |-> None]

-----------------------------------------------------------------------------
\* The sheet.

Letter == <<61200, 79200>>

\* A whole number is decoded as an Int, and an Int is no Double: the default
\* takes its place.
AsDouble(n, default) == IF n % 100 = 0 THEN default ELSE n

\* The tool turns the sheet, and so does the generator.
Sent(r) == IF r.landscape THEN <<r.paper[2], r.paper[1]>> ELSE r.paper

Sheet(r) ==
    LET w == IF r.css THEN Letter[1] ELSE AsDouble(Sent(r)[1], Letter[1])
        h == IF r.css THEN Letter[2] ELSE AsDouble(Sent(r)[2], Letter[2])
    IN  IF r.landscape THEN <<h, w>> ELSE <<w, h>>

\* Pages first to last of n, as far as there are any; None if there are not.
Extract(range, n) ==
    IF range = None THEN n
    ELSE LET last == IF range[2] < n THEN range[2] ELSE n
         IN  IF range[1] <= last THEN last - range[1] + 1 ELSE None

-----------------------------------------------------------------------------
\* The tool.

Over(c, a) == phase' = [phase EXCEPT ![c] = "over"] /\ answer' = [answer EXCEPT ![c] = a]
Error == [source |-> "error", pages |-> 0]
Failure(final) == [source |-> "error", pages |-> 0, final |-> final]

Try(c, a) ==
    /\ phase' = [phase EXCEPT ![c] = "ping"] /\ attempt' = [attempt EXCEPT ![c] = a]
    /\ UNCHANGED answer

NextAttempt(c) ==
    \/ attempt[c] = "html" /\ Try(c, "url")
    \/ attempt[c] = "url" /\ Over(c, Error) /\ UNCHANGED attempt

\* The path is refused, nothing could be extracted or too much, or the URL
\* alone, or the HTML.
Begin(c) ==
    /\ phase[c] = "idle"
    /\ \/ Over(c, Error) /\ UNCHANGED attempt
       \/ \E a \in Attempts : Try(c, a)
    /\ UNCHANGED <<transport, request, gaveUp, inbox, job, file>>

\* What the daemon is at.
Running == {j \in Jobs : job[j] \notin {"none", "sent", "over"}}

\* Connections are served side by side.
Busy == transport = "stdin" /\ Running # {}

\* A ping goes the way of commands: the loop must come to it.
Ask(c) ==
    /\ phase[c] = "ping" /\ ~Busy /\ (transport = "stdin" => inbox = <<>>)
    /\ phase' = [phase EXCEPT ![c] = "wait"]
    /\ inbox' = Append(inbox, <<c, attempt[c]>>)
    /\ job' = [job EXCEPT ![<<c, attempt[c]>>] = "sent"]
    /\ UNCHANGED <<transport, request, attempt, answer, gaveUp, file>>

Unavailable(c) ==
    /\ phase[c] = "ping" /\ NextAttempt(c)
    /\ UNCHANGED <<transport, request, gaveUp, inbox, job, file>>

GiveUp(c) ==
    /\ phase[c] = "wait" /\ NextAttempt(c) /\ gaveUp' = gaveUp \cup {c}
    /\ UNCHANGED <<transport, request, inbox, job, file>>

\* DaemonEngine.command calls every error retryable, the final ones too.
Retryable(failure) == TRUE

\* An empty print of the HTML is not taken for an answer; one of the URL is.
HandleReply(c, reply) ==
    LET viable == reply.source = "url" \/ (reply.source = "html" /\ reply.pages > 0)
        surfaces == reply.source = "error" /\ ~Retryable(reply)
    IN  \/ viable /\ Over(c, reply) /\ UNCHANGED attempt
        \/ ~viable /\ surfaces /\ Over(c, Error) /\ UNCHANGED attempt
        \/ ~viable /\ ~surfaces /\ NextAttempt(c)

-----------------------------------------------------------------------------
\* The daemon.

At(j, where) ==
    /\ job' = [job EXCEPT ![j] = where]
    /\ UNCHANGED <<transport, request, tool, inbox, file>>

\* A reply that nobody waits for any more is dropped.
Reply(j, reply) ==
    /\ job' = [job EXCEPT ![j] = "over"]
    /\ IF phase[j[1]] = "wait" /\ attempt[j[1]] = j[2] THEN HandleReply(j[1], reply)
       ELSE UNCHANGED <<phase, attempt, answer>>
    /\ UNCHANGED <<transport, request, gaveUp>>

\* The generator is made and its web view begins to load.
Read(j) ==
    /\ ~Busy
    /\ \E i \in DOMAIN inbox :
        /\ inbox[i] = j /\ (transport = "stdin" => i = 1)
        /\ inbox' = SubSeq(inbox, 1, i - 1) \o SubSeq(inbox, i + 1, Len(inbox))
    /\ job' = [job EXCEPT ![j] = "loading"]
    /\ UNCHANGED <<transport, request, tool, file>>

Fails(j, where, final) ==
    job[j] = where /\ Reply(j, Failure(final)) /\ UNCHANGED <<inbox, file>>

\* The directory is not there.
Refuse(j) == Fails(j, "loading", TRUE)

DidFinish(j) == job[j] = "loading" /\ At(j, "fonts")

DidFail(j) == Fails(j, "loading", FALSE)

\* 30 s have passed.  The group of the two tasks ends when both have ended, and
\* the one that waits for the navigation is ended by the navigation only.
NavigationTimeout(j) == job[j] = "loading" /\ At(j, "late")

\* Only now is there a PdfError.timeout.
NavigationSettlesLate(j) == Fails(j, "late", FALSE)

\* The page has told about its fonts: the group waits for that likewise.
FontsSettle(j) == job[j] = "fonts" /\ At(j, "printing")

PrintFails(j) == Fails(j, "printing", TRUE)

\* Mutant: what is written are all pages, not the extracted ones.
PrintUnfiltered(j) ==
    /\ job[j] = "printing"
    /\ \E n \in 0..MaxPages :
        LET r == request[j[1]]
            pages == Extract(r.range, n)
        IN  IF pages = None THEN Reply(j, Failure(TRUE)) /\ UNCHANGED file
            ELSE /\ file' = [file EXCEPT ![j[1]] = [source |-> j[2], pages |-> n, sheet |-> Sheet(r)]]
                 /\ Reply(j, [source |-> j[2], pages |-> pages])
    /\ UNCHANGED inbox

\* An empty file is written before it is found to be empty, unless it is large.
PrintsToFile(j) ==
    /\ job[j] = "printing"
    /\ \E n \in 0..MaxPages, large \in BOOLEAN :
        LET r == request[j[1]]
            pages == Extract(r.range, n)
        IN  IF pages = None THEN Reply(j, Failure(TRUE)) /\ UNCHANGED file
            ELSE /\ file' = [file EXCEPT ![j[1]] = [source |-> j[2], pages |-> pages, sheet |-> Sheet(r)]]
                 /\ Reply(j, IF pages = 0 /\ ~large THEN Failure(FALSE)
                             ELSE [source |-> j[2], pages |-> pages])
    /\ UNCHANGED inbox

-----------------------------------------------------------------------------
Next ==
    \/ \E c \in Calls : Begin(c) \/ Ask(c) \/ Unavailable(c) \/ GiveUp(c)
    \/ \E j \in Jobs :
        \/ Read(j) \/ Refuse(j) \/ DidFinish(j) \/ DidFail(j)
        \/ NavigationTimeout(j) \/ NavigationSettlesLate(j)
        \/ FontsSettle(j) \/ PrintFails(j) \/ PrintsToFile(j)

Spec == Init /\ [][Next]_vars

-----------------------------------------------------------------------------
\* Property.

Stages == {"none", "sent", "loading", "late", "fonts", "printing", "over"}

PdfTypes ==
    /\ transport \in {"stdin", "tcp"} /\ request \in [Calls -> Requests] /\ gaveUp \subseteq Calls
    /\ phase \in [Calls -> {"idle", "ping", "wait", "over"}] /\ attempt \in [Calls -> Attempts \cup {None}]
    /\ DOMAIN answer = Calls /\ DOMAIN file = Calls
    /\ inbox \in Seq(Jobs) /\ job \in [Jobs -> Stages]

\* The daemon has yet to read just the commands that were sent, each once.
InboxInv ==
    /\ \A i \in DOMAIN inbox : job[inbox[i]] = "sent"
    /\ \A i, k \in DOMAIN inbox : inbox[i] = inbox[k] => i = k
    /\ \A j \in Jobs : job[j] = "sent" => \E i \in DOMAIN inbox : inbox[i] = j

Reported(c) == answer[c] \notin {None, Error}

\* A call has one rendering at a time, if it waits for each to end or the
\* daemon does: a command is new when it is sent, and the HTML was done with
\* before the URL was.
CallInv(c) ==
    /\ phase[c] # "over" => answer[c] = None
    /\ phase[c] = "idle" => attempt[c] = None
    /\ phase[c] \in {"ping", "wait"} => attempt[c] # None
    /\ phase[c] = "ping" => job[<<c, attempt[c]>>] = "none"
    /\ attempt[c] = None => job[<<c, "html">>] = "none"
    /\ attempt[c] # "url" => job[<<c, "url">>] = "none"
    /\ attempt[c] = "url" /\ (IF transport = "tcp" THEN c \notin gaveUp
                              ELSE phase[c] = "wait" \/ Reported(c)) =>
            job[<<c, "html">>] \in {"none", "over"}
    /\ Reported(c) => attempt[c] # None /\ job[<<c, attempt[c]>>] = "over"
    /\ Reported(c) /\ (transport = "stdin" \/ c \notin gaveUp) =>
        /\ answer[c] = [source |-> attempt[c], pages |-> answer[c].pages]
        /\ file[c] = [source |-> attempt[c], pages |-> answer[c].pages, sheet |-> Sheet(request[c])]

PdfInv == PdfTypes /\ InboxInv /\ \A c \in Calls : CallInv(c)

\* Lengths that are no whole number of points, and are turned by nobody: for
\* the others the sheet is another one than "format", "width" or "landscape"
\* (pdf.ts:299-308) promise.
Unspoilt(r) == ~r.landscape /\ ~r.css /\ r.paper[1] % 100 # 0 /\ r.paper[2] % 100 # 0

\* A call that reports a PDF, its source and its pages, has just that file at
\* its path: the rendering it gave up on, if any, was over before the other one
\* began.  Over TCP this needs that it did not give up (pdf.ts:495-552,
\* CommandDispatcher.swift:72-92, PdfGenerator.swift:291-354).
AnswerDescribesFile ==
    \A c \in Calls :
        answer[c] \notin {None, Error} /\ (transport = "stdin" \/ c \notin gaveUp) =>
            /\ file[c] = [source |-> answer[c].source, pages |-> answer[c].pages, sheet |-> Sheet(request[c])]
            /\ Unspoilt(request[c]) => file[c].sheet = request[c].paper
=============================================================================
