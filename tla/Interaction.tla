---------------------------- MODULE Interaction ----------------------------
(***************************************************************************)
(* How a tool waits for its element and acts on it                         *)
(* (src/auto-wait.ts and waitAndExecute of src/tools/interaction.ts).      *)
(*                                                                         *)
(* The tool sends two scripts to the page.  The first polls until the      *)
(* element passes the checks of the action; the second looks the element   *)
(* up again and acts.  The page changes between any two steps of them.     *)
(***************************************************************************)
EXTENDS Naturals, Sequences, SequencesExt

CONSTANTS
    Order,      \* the elements a page may hold that the selector matches
    Around,     \* the elements around them
    Above,      \* [element -> the elements around it]
    Faults,     \* what may be wrong with an element, see AllFaults
    Calls,
    Requests,   \* [kind, force]
    None,
    MaxChanges  \* how often the page changes: a bound of the model

Elements == ToSet(Order) \cup Around

AllFaults == {"undisplayed", "invisible", "flat", "disabled", "fieldset", "aria-disabled",
              "readOnly", "aria-readonly", "covered"}

ActionChecks == [
    click |-> {"visible", "stable", "enabled", "receivesEvents"},
    dblclick |-> {"visible", "stable", "enabled", "receivesEvents"},
    check |-> {"visible", "stable", "enabled", "receivesEvents"},
    hover |-> {"visible", "stable", "receivesEvents"},
    drag |-> {"visible", "stable", "receivesEvents"},
    fill |-> {"visible", "enabled", "editable"},
    selectOption |-> {"visible", "enabled"},
    type |-> {}, pressKey |-> {}, scroll |-> {}]

InteractionAssumption ==
    /\ Faults \subseteq AllFaults /\ MaxChanges \in Nat
    /\ None \notin Elements /\ Above \in [Elements -> SUBSET Elements]
    /\ Requests \subseteq [kind : DOMAIN ActionChecks, force : BOOLEAN]

VARIABLES
    inPage,     \* the elements in the page
    wrong,      \* [element -> its faults]
    place,      \* [element -> where it is laid out]
    centered,   \* the element the page was scrolled to last
    rerenders,
    request, phase, actedOn,          \* of each call
    awaiting, element, lastRect, stableCount, failedCheck,   \* its script's
    late,       \* its timeout has passed
    held,       \* history: the checks that held at its last attempt
    samples     \* history: the last three rectangles it saw since

pageVars == <<inPage, wrong, place, rerenders>>
waitVars == <<awaiting, element, lastRect, stableCount, failedCheck, held, samples>>
callVars == <<request, phase, actedOn>>
vars == <<pageVars, centered, callVars, waitVars, late>>

NoSamples == <<None, None, None>>

Init ==
    /\ inPage = Around \cup {Order[1]}
    /\ wrong = [e \in Elements |-> {}]
    /\ place = [e \in Elements |-> 0]
    /\ centered = None /\ rerenders = 0
    /\ request = [c \in Calls |-> None]
    /\ phase = [c \in Calls |-> "idle"]
    /\ actedOn = [c \in Calls |-> None]
    /\ awaiting = [c \in Calls |-> "none"]
    /\ element = [c \in Calls |-> None]
    /\ lastRect = [c \in Calls |-> None]
    /\ stableCount = [c \in Calls |-> 0]
    /\ failedCheck = [c \in Calls |-> "none"]
    /\ late = [c \in Calls |-> FALSE]
    /\ held = [c \in Calls |-> {}]
    /\ samples = [c \in Calls |-> NoSamples]

-----------------------------------------------------------------------------
\* What a script sees of an element.

QuerySelector ==
    LET matched == SelectSeq(Order, LAMBDA e : e \in inPage)
    IN  IF matched = <<>> THEN None ELSE matched[1]

\* An element that left the page has an empty rectangle.
Rect(e) == IF e \in inPage THEN <<place[e], centered>> ELSE <<>>

SelfOrAbove(e) == Above[e] \cup {e}

IsVisible(e) == wrong[e] \cap {"undisplayed", "invisible", "flat"} = {}

IsEnabled(e) ==
    /\ "disabled" \notin wrong[e]
    /\ \A a \in SelfOrAbove(e) : wrong[a] \cap {"fieldset", "aria-disabled"} = {}

IsEditable(e) ==
    /\ IsEnabled(e) /\ "readOnly" \notin wrong[e]
    /\ \A a \in SelfOrAbove(e) : "aria-readonly" \notin wrong[a]

ReceivesEvents(e) == "covered" \notin wrong[e]

Passed(e) ==
    {k \in {"visible", "enabled", "editable", "receivesEvents"} :
        CASE k = "visible" -> IsVisible(e)
          [] k = "enabled" -> IsEnabled(e)
          [] k = "editable" -> IsEditable(e)
          [] k = "receivesEvents" -> ReceivesEvents(e)}

ChecksOf(c) == ActionChecks[request[c].kind]

\* The order of the table's lists.
CheckOrder == <<"visible", "enabled", "editable", "receivesEvents">>

FirstFailed(c, e) ==
    LET failed == {i \in DOMAIN CheckOrder : CheckOrder[i] \in ChecksOf(c) \ Passed(e)}
    IN  CheckOrder[CHOOSE i \in failed : \A j \in failed : i <= j]

\* One attempt.  All checks but the stable one are made at once, and made on
\* although one has failed; whether the element receives events is tried by
\* scrolling to it.  The stable check comes last.
Attempt(c, tooLate) ==
    LET e == QuerySelector
        ends(why) == /\ awaiting' = [awaiting EXCEPT ![c] = IF tooLate THEN "notReady" ELSE "timer"]
                     /\ failedCheck' = [failedCheck EXCEPT ![c] = why]
    IN  IF e = None
        THEN /\ ends("found")
             /\ UNCHANGED <<centered, element, lastRect, stableCount, held, samples>>
        ELSE /\ centered' = IF "receivesEvents" \in ChecksOf(c) THEN e ELSE centered
             /\ held' = [held EXCEPT ![c] = Passed(e)]
             /\ element' = [element EXCEPT ![c] = e]
             /\ lastRect' = [lastRect EXCEPT ![c] = None]
             /\ stableCount' = [stableCount EXCEPT ![c] = 0]
             /\ samples' = [samples EXCEPT ![c] = NoSamples]
             /\ IF ChecksOf(c) \subseteq Passed(e) \cup {"stable"}
                THEN /\ awaiting' = [awaiting EXCEPT ![c] =
                            IF "stable" \in ChecksOf(c) THEN "sampling" ELSE "ready"]
                     /\ UNCHANGED failedCheck
                ELSE ends(FirstFailed(c, e))

-----------------------------------------------------------------------------
\* The tool.

Begin(c, r) ==
    /\ phase[c] = "idle"
    /\ request' = [request EXCEPT ![c] = r]
    /\ phase' = [phase EXCEPT ![c] =
            IF ActionChecks[r.kind] # {} /\ ~r.force THEN "waiting" ELSE "acting"]
    /\ UNCHANGED <<pageVars, centered, actedOn, waitVars, late>>

\* An engine makes the script the body of a function.  The wait script is an
\* expression, not a return, so the function has no value and its promise goes
\* on by itself: the tool reads nothing and acts, ready or not.
RunWait(c) ==
    /\ phase[c] = "waiting"
    /\ phase' = [phase EXCEPT ![c] = "acting"]
    /\ Attempt(c, late[c])
    /\ UNCHANGED <<pageVars, request, actedOn, late>>

\* The engine fails or gives up: the tool acts all the same.
WaitFails(c) ==
    /\ phase[c] = "waiting"
    /\ phase' = [phase EXCEPT ![c] = "acting"]
    /\ UNCHANGED <<pageVars, centered, request, actedOn, waitVars, late>>

\* The element is looked up again; if there is none, the script throws.
Act(c) ==
    /\ phase[c] = "acting"
    /\ phase' = [phase EXCEPT ![c] = IF QuerySelector = None THEN "failed" ELSE "done"]
    /\ actedOn' = [actedOn EXCEPT ![c] = QuerySelector]
    /\ UNCHANGED <<pageVars, centered, request, waitVars, late>>

-----------------------------------------------------------------------------
\* The page.

BackedOff(c) ==
    /\ awaiting[c] = "timer"
    /\ Attempt(c, late[c])
    /\ UNCHANGED <<pageVars, callVars, late>>

\* Mutant: a rectangle that differs does not start the count again.
CountedOn(c, rect) ==
    IF lastRect[c] # None /\ rect = lastRect[c] THEN stableCount[c] + 1 ELSE stableCount[c]

Counted(c, rect) ==
    IF lastRect[c] # None /\ rect = lastRect[c] THEN stableCount[c] + 1 ELSE 0

\* A frame of the stable check.  It never looks at the time.
Sample(c) ==
    /\ awaiting[c] = "sampling"
    /\ LET rect == Rect(element[c])
       IN  /\ stableCount' = [stableCount EXCEPT ![c] = Counted(c, rect)]
           /\ lastRect' = [lastRect EXCEPT ![c] = rect]
           /\ samples' = [samples EXCEPT ![c] = <<@[2], @[3], rect>>]
           /\ awaiting' = [awaiting EXCEPT ![c] = IF Counted(c, rect) >= 2 THEN "ready" ELSE @]
    /\ UNCHANGED <<pageVars, centered, callVars, element, failedCheck, held, late>>

TimeoutPasses(c) ==
    /\ awaiting[c] \in {"timer", "sampling"} /\ ~late[c]
    /\ late' = [late EXCEPT ![c] = TRUE]
    /\ UNCHANGED <<pageVars, centered, callVars, waitVars>>

Change ==
    /\ rerenders < MaxChanges
    /\ rerenders' = rerenders + 1
    /\ \/ \E e \in Elements, f \in Faults :
            /\ wrong' = [wrong EXCEPT ![e] = IF f \in @ THEN @ \ {f} ELSE @ \cup {f}]
            /\ UNCHANGED <<inPage, place>>
       \/ \E e \in ToSet(Order) :
            /\ place' = [place EXCEPT ![e] = 1 - @]
            /\ UNCHANGED <<inPage, wrong>>
       \/ \E e \in ToSet(Order) :
            /\ inPage' = IF e \in inPage THEN inPage \ {e} ELSE inPage \cup {e}
            /\ UNCHANGED <<wrong, place>>
    /\ UNCHANGED <<centered, callVars, waitVars, late>>

Next ==
    \/ \E c \in Calls :
        \/ \E r \in Requests : Begin(c, r)
        \/ RunWait(c) \/ WaitFails(c) \/ Act(c)
        \/ BackedOff(c) \/ Sample(c) \/ TimeoutPasses(c)
    \/ Change

Spec == Init /\ [][Next]_vars

-----------------------------------------------------------------------------
\* Properties.

States == {"none", "timer", "sampling", "ready", "notReady"}

\* What the stable check has counted is what it saw.
CountsSamples(c) ==
    LET saw == samples[c]
    IN  /\ stableCount[c] \in 0..2
        /\ stableCount[c] > 0 => saw[2] = saw[3] /\ saw[2] # None
        /\ stableCount[c] > 1 => saw[1] = saw[2]
        /\ lastRect[c] # None => saw[3] = lastRect[c]
        /\ awaiting[c] = "sampling" => stableCount[c] < 2

WaitTypes ==
    /\ request \in [Calls -> Requests \cup {None}] /\ late \in [Calls -> BOOLEAN]
    /\ phase \in [Calls -> {"idle", "waiting", "acting", "failed", "done"}]
    /\ awaiting \in [Calls -> States]
    /\ DOMAIN held = Calls /\ DOMAIN failedCheck = Calls
    /\ DOMAIN lastRect = Calls /\ DOMAIN stableCount = Calls /\ DOMAIN samples = Calls

\* The checks of a script are those of its call's request, which stays; all but
\* the stable one held when it went on to the frames, and what it blames failed.
CallInv(c) ==
    /\ phase[c] \in {"idle", "waiting"} => awaiting[c] = "none"
    /\ phase[c] # "idle" => request[c] \in Requests
    /\ awaiting[c] \in {"sampling", "ready"} => ChecksOf(c) \subseteq held[c] \cup {"stable"}
    /\ awaiting[c] = "ready" /\ "stable" \in ChecksOf(c) => stableCount[c] = 2
    /\ CountsSamples(c)
    /\ awaiting[c] = "notReady" =>
        late[c] /\ (failedCheck[c] = "found" \/ failedCheck[c] \in ChecksOf(c) \ held[c])

WaitInv == WaitTypes /\ \A c \in Calls : CallInv(c)

\* The promise of a wait tells the truth, however the page changes and other
\* waits scroll it: if it says ready, the element passed every check of the
\* action at one time and its rectangle was the same in three frames since
\* (auto-wait.ts:90-118, 292-375); if not, the timeout has passed and the check
\* it blames had failed (auto-wait.ts:407-460).
WaitTellsTruth ==
    \A c \in Calls :
        /\ awaiting[c] = "ready" =>
            /\ ChecksOf(c) \subseteq held[c] \cup {"stable"}
            /\ "stable" \in ChecksOf(c) =>
                samples[c][1] # None /\ samples[c][1] = samples[c][2] /\ samples[c][2] = samples[c][3]
        /\ awaiting[c] = "notReady" =>
            late[c] /\ (failedCheck[c] = "found" \/ failedCheck[c] \in ChecksOf(c) \ held[c])

\* What waitAndExecute says (tools/interaction.ts:107-109): the action is
\* executed after the checks, which are skipped if there are none or by force.
ActsWhenReady ==
    \A c \in Calls : actedOn[c] # None =>
        request[c].force \/ ChecksOf(c) = {} \/ awaiting[c] = "ready"
=============================================================================
