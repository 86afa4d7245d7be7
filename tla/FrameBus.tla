------------------------------ MODULE FrameBus ------------------------------
(***************************************************************************)
(* How a command reaches the frame it is for: the storage bus of           *)
(* extension/background.js and the content script of one of a tab's frames *)
(* (content-isolated.js, with the reducer and the filter it inlines from   *)
(* lib/handshake-machine.js and lib/route-command.js).                     *)
(*                                                                         *)
(* The script learns its tab's id and its frame's id by two messages of    *)
(* its own, and of commands by storage events and by one scan of the       *)
(* storage; all of these interleave, with the document replaced            *)
(* underneath.  Scripts see the commands of all frames (and of all tabs:   *)
(* those they refuse in the same way, by the tab's id).                    *)
(***************************************************************************)
EXTENDS Naturals, FiniteSets

CONSTANTS
    Frames, Top,    \* frames of the tab, and the one with id 0
    Commands,
    Addresses,      \* URLs documents may have
    None,
    MaxMoves,       \* documents replaced, moved or removed
    Faults          \* messages and storage calls that fail

FrameBusAssumption ==
    /\ Top \in Frames /\ None \notin Frames \cup Addresses
    /\ MaxMoves \in Nat /\ Faults \in Nat

VARIABLES
    me,         \* the frame in question
    target,     \* the frame a command is for
    step,       \* new, found, sent, answered, timed_out or done
    expected,   \* frameUrl: the URL its frame had when it was looked up
    bus,        \* commands with an sp_cmd_ key
    alive,      \* the frame is still there
    location,   \* the URL of its document
    script,     \* the content script in that document
    changes,    \* storage events the script has yet to be told
    running,    \* commands the document's page world is at
    posted,     \* results written, which the background is to be told
    moves, upsets

background == <<me, target, step, expected, bus>>
page == <<alive, location>>
document == <<script, changes, running>>
budget == <<moves, upsets>>
vars == <<background, page, document, posted, budget>>

\* Before it is injected a script is absent; then it asks for its tab, scans
\* the storage, and has read it.
Absent == [setup |-> "absent", tab |-> FALSE, phase |-> "IDLE", frameId |-> None,
           queue |-> {}, snapshot |-> {}, processed |-> {}, sound |-> TRUE]

Init ==
    /\ me \in Frames /\ target \in [Commands -> Frames]
    /\ step = [c \in Commands |-> "new"] /\ expected = [c \in Commands |-> None]
    /\ bus = {} /\ posted = {}
    /\ alive = TRUE /\ location \in Addresses
    /\ script = Absent /\ changes = {} /\ running = {}
    /\ moves = 0 /\ upsets = 0

Fails == upsets < Faults /\ upsets' = upsets + 1
Works == UNCHANGED upsets

Goto(c, where) == step' = [step EXCEPT ![c] = where]

-----------------------------------------------------------------------------
\* executeCommand in the background.

\* A frame other than the top one is looked up; its URL goes with the command.
LookUp(c) ==
    /\ step[c] = "new"
    /\ \/ target[c] = Top /\ Goto(c, "found") /\ Works /\ UNCHANGED expected
       \/ /\ target[c] # Top /\ (target[c] = me => alive)
          /\ Goto(c, "found") /\ Works
          /\ expected' = [expected EXCEPT ![c] = location]
       \/ /\ target[c] # Top /\ Goto(c, "done") /\ UNCHANGED expected
          /\ IF target[c] = me /\ ~alive THEN Works ELSE Fails
    /\ UNCHANGED <<me, target, bus, page, document, posted, moves>>

Send(c) ==
    /\ step[c] = "found"
    /\ Goto(c, "sent") /\ bus' = bus \cup {c}
    /\ changes' = IF script.setup = "absent" THEN changes ELSE changes \cup {c}
    /\ UNCHANGED <<me, target, expected, page, script, running, posted, budget>>

\* The first result to be heard of counts.
ResultListener(c) ==
    /\ step[c] = "sent" /\ \E kind \in {"value", "timeout", "navigated"} : <<c, kind>> \in posted
    /\ Goto(c, "answered")
    /\ UNCHANGED <<me, target, expected, bus, page, document, posted, budget>>

\* The deadline that went with the command passes no later.
ResultTimeout(c) ==
    /\ step[c] = "sent"
    /\ Goto(c, "timed_out")
    /\ UNCHANGED <<me, target, expected, bus, page, document, posted, budget>>

RemoveKeys(c) ==
    /\ step[c] \in {"answered", "timed_out"}
    /\ Goto(c, "done")
    /\ \/ bus' = bus \ {c} /\ Works
       \/ UNCHANGED bus /\ Fails
    /\ UNCHANGED <<me, target, expected, page, document, posted, moves>>

\* The script of another frame answers.
OthersAnswer(c) ==
    /\ c \in bus /\ target[c] # me
    /\ posted' = posted \cup {<<c, "value">>}
    /\ UNCHANGED <<background, page, document, budget>>

-----------------------------------------------------------------------------
\* The content script.

\* shouldProcess, and what is neither late nor processed already.  While the
\* frame's id is null the two functions call each other until the stack is full.
Mine(s, cs) == {c \in cs : s.tab /\ target[c] = s.frameId}
Navigated(s, cs) == {c \in Mine(s, cs) : expected[c] \notin {None, location}}
Taken(s, cs) ==
    {c \in Mine(s, cs) \ Navigated(s, cs) : step[c] # "timed_out" /\ c \notin s.processed}

Process(s, cs) ==
    /\ script' = [s EXCEPT !.processed = @ \cup Taken(s, cs)]
    /\ running' = running \cup Taken(s, cs)
    /\ posted' = posted \cup {<<c, "navigated">> : c \in Navigated(s, cs)}

\* Mutant: a command that arrives while the id is awaited takes the place of
\* those that wait.
QueuedLast(s, cs) == cs

Queued(s, cs) == s.queue \cup cs

\* frameIdHandshakeReducer on sp_cmd_arrived, for commands one after another.
Arrive(s, cs) ==
    IF s.phase = "READY" \/ cs = {}
    THEN Process(s, cs)
    ELSE /\ script' = [s EXCEPT !.phase = "AWAITING_FRAME_ID", !.queue = Queued(s, cs)]
         /\ UNCHANGED <<running, posted>>

Inject ==
    /\ alive /\ script.setup = "absent"
    /\ script' = [script EXCEPT !.setup = "asks"]
    /\ UNCHANGED <<background, page, changes, running, posted, budget>>

OnChanged(c) ==
    /\ c \in changes
    /\ changes' = changes \ {c}
    /\ Arrive(script, {c})
    /\ UNCHANGED <<background, page, budget>>

Unsound == script' = [script EXCEPT !.setup = "over", !.sound = FALSE]

\* No id, or no answer: the scan is left out.
TabIdAnswered ==
    /\ script.setup = "asks"
    /\ \/ script' = [script EXCEPT !.setup = "scans", !.tab = TRUE] /\ Works
       \/ Unsound /\ Fails
    /\ UNCHANGED <<background, page, changes, running, posted, moves>>

StorageRead ==
    /\ script.setup = "scans"
    /\ \/ script' = [script EXCEPT !.setup = "read", !.snapshot = bus] /\ Works
       \/ Unsound /\ Fails
    /\ UNCHANGED <<background, page, changes, running, posted, moves>>

Scan ==
    /\ script.setup = "read"
    /\ Arrive([script EXCEPT !.setup = "over", !.snapshot = {}], script.snapshot)
    /\ UNCHANGED <<background, page, changes, budget>>

\* The tab's id only: there is no second scan.
VisibilityChange ==
    /\ script.setup = "over" /\ ~script.tab
    /\ script' = [script EXCEPT !.tab = TRUE]
    /\ UNCHANGED <<background, page, changes, running, posted, budget>>

FrameIdResponse ==
    /\ script.phase = "AWAITING_FRAME_ID"
    /\ LET ready == [script EXCEPT !.phase = "READY", !.queue = {}] IN
       \/ Process([ready EXCEPT !.frameId = me], script.queue) /\ Works
       \/ Process([ready EXCEPT !.sound = FALSE], script.queue) /\ Fails
    /\ UNCHANGED <<background, page, changes, moves>>

FrameIdError ==
    /\ script.phase = "AWAITING_FRAME_ID" /\ Fails
    /\ script' = [script EXCEPT !.phase = "IDLE", !.queue = {}, !.sound = FALSE]
    /\ UNCHANGED <<background, page, changes, running, posted, moves>>

\* The page world answers, or ten seconds are over.
MainAnswers(c) ==
    /\ c \in running
    /\ running' = running \ {c}
    /\ \E kind \in {"value", "timeout"} : posted' = posted \cup {<<c, kind>>}
    /\ UNCHANGED <<background, page, script, changes, budget>>

-----------------------------------------------------------------------------
\* The page.

Moves == alive /\ moves < MaxMoves /\ moves' = moves + 1 /\ UNCHANGED upsets

PushState(a) ==
    /\ Moves /\ location # a
    /\ location' = a
    /\ UNCHANGED <<background, alive, document, posted>>

\* Another document, or, with the document around it, none.
Unload(a) ==
    /\ Moves
    /\ location' = a /\ alive' \in {TRUE, me = Top}
    /\ script' = Absent /\ changes' = {} /\ running' = {}
    /\ UNCHANGED <<background, posted>>

-----------------------------------------------------------------------------
Next ==
    \/ \E c \in Commands :
        \/ LookUp(c) \/ Send(c) \/ ResultListener(c) \/ ResultTimeout(c) \/ RemoveKeys(c)
        \/ OthersAnswer(c) \/ OnChanged(c) \/ MainAnswers(c)
    \/ Inject \/ TabIdAnswered \/ StorageRead \/ Scan
    \/ VisibilityChange \/ FrameIdResponse \/ FrameIdError
    \/ \E a \in Addresses : PushState(a) \/ Unload(a)

Spec == Init /\ [][Next]_vars

-----------------------------------------------------------------------------
\* Properties.

\* A command on the bus is never forgotten by the script of its frame, in
\* whatever order the script learns of its tab, of its frame and of the command:
\* it has been taken or refused, or something that is still to come will bring
\* it, as long as nothing failed in this document (content-isolated.js:61-100,
\* 611-666).
NothingForgotten ==
    \A c \in bus : step[c] = "sent" /\ target[c] = me /\ alive /\ script.sound =>
        \/ c \in script.processed \cup script.queue \cup script.snapshot \cup changes
        \/ script.setup \in {"absent", "asks", "scans"}
        \/ <<c, "navigated">> \in posted
=============================================================================
