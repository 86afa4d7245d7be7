------------------------------ MODULE Toolbox ------------------------------
(***************************************************************************)
(* The tools of the server: what each one requires, the scripts its        *)
(* handler gives to the engine, and what the client is told of them; and   *)
(* the two tools that call others, safari_batch and safari_run_skill.      *)
(*                                                                         *)
(* A script is abstracted to its kind (ToolTable): what an engine can make *)
(* of it. The gates before a tool are the matter of ToolPipeline and       *)
(* Gates, and may refuse any call here. One call of the client runs at a   *)
(* time: calls that share the engine proxy are the matter of ToolPipeline, *)
(* too.                                                                    *)
(***************************************************************************)
EXTENDS ToolTable

CONSTANTS
    None,
    Composed,    \* calls of safari_batch and safari_run_skill
    MaxItems,    \* bound on the items a loop of a skill goes over
    MaxShifts    \* bound on the changes of the extension

\* What a batch or a skill is given: a list, or for a skill that is not there
\* none.
WellMade(call) ==
    call.stop \in BOOLEAN /\ (call.parts = None \/ call.parts \in Seq(ToSet(call.parts)))

ToolboxAssumption ==
    /\ {MaxItems, MaxShifts} \subseteq Nat
    /\ \A c \in Composed :
          /\ c.tool \in Composite /\ WellMade(c)
          /\ c.tool = "safari_batch" =>
                /\ c.parts # None
                /\ \A i \in DOMAIN c.parts :
                       c.parts[i].tool = "safari_run_skill" => WellMade(c.parts[i])

VARIABLES
    legacy,      \* legacyMainWorld of the configuration
    strictPage,  \* the page forbids scripts made from strings
    extension,   \* "up", "barred" (breaker or configuration) or "down"
    stack,       \* the calls that run, the innermost first
    answer,      \* what the client is told
    shifts

vars == <<legacy, strictPage, extension, stack, answer, shifts>>

-----------------------------------------------------------------------------
\* Engines and scripts.

Caps == {"shadowDom", "cspBypass", "dialogIntercept", "networkIntercept",
         "cookieHttpOnly", "framesCrossOrigin", "asyncJs", "viewportCapture"}

EngineCaps(engine) == IF engine = "extension" THEN Caps ELSE {}

\* Mutant: asynchronous scripts are left to any engine.
RequiresExtensionButAsync(needs) == needs \cap (Caps \ {"asyncJs"}) # {}

RequiresExtension(needs) == needs \cap Caps # {}

Usable == extension = "up"

\* Without a daemon the last resort is AppleScript.
SelectEngine(needs, daemon) ==
    LET other == IF daemon THEN "daemon" ELSE "applescript"
    IN  IF RequiresExtension(needs) THEN "extension"
        ELSE IF "applescript" \in needs THEN "applescript"
        ELSE IF Usable THEN "extension" ELSE other

\* The content script knows a sentinel by its prefix, and makes a function of
\* any other script, which it awaits.
ByExtension(kind) ==
    IF kind \in {"sentinel", "label", "bare"} THEN "value"
    ELSE IF strictPage \/ kind = "await" THEN "error"  \* await in a function that is not async
    ELSE IF kind = "lost" THEN "nothing"               \* the function has no return of its own
    ELSE "value"

\* The other engines wrap a script in a function, which they do not await. To
\* them a sentinel is no script; a label is one, and an empty block.
ByAppleEvents(kind) ==
    IF kind \in {"sentinel", "bare", "await"} THEN "error"
    ELSE IF kind \in {"label", "promise", "lost"} THEN "nothing" ELSE "value"

\* Some handlers choose the script by the configuration or by the engine.
Outcome(kind, engine) ==
    LET chosen == IF kind = "either" THEN IF engine = "extension" THEN "sentinel" ELSE "plain"
                  ELSE IF kind = "legacy" THEN IF legacy THEN "plain" ELSE "sentinel"
                  ELSE kind
    IN  IF chosen \in {"apple", "raw", "none"} THEN "value"
        ELSE IF engine = "extension" THEN ByExtension(chosen) ELSE ByAppleEvents(chosen)

-----------------------------------------------------------------------------
\* Calls.

\* A call that runs, and what of it is left to do.
Frame(call, engine, left) ==
    [call |-> call, engine |-> engine, left |-> left, todo |-> call.parts, done |-> <<>>,
     hollow |-> FALSE,   \* an empty result was taken for success
     missed |-> FALSE,   \* a script without value was passed over
     faulted |-> FALSE]  \* something failed that need not

\* What the caller gets; the client sees an error only where Failed holds.
Report(frame, says) ==
    [call |-> frame.call, engine |-> frame.engine, says |-> says, done |-> frame.done,
     at |-> IF frame.left = <<>> THEN None ELSE Head(frame.left).role,
     hollow |-> frame.hollow, missed |-> frame.missed, faulted |-> frame.faulted]

Failed(report) == report.says \in {"error", "refused"}

\* The innermost call is over: its caller has the report.
Return(report, below) ==
    IF below = <<>> THEN stack' = <<>> /\ answer' = report
    ELSE /\ stack' = <<[Head(below) EXCEPT !.done = Append(@, report)]>> \o Tail(below)
         /\ UNCHANGED answer

Unstarted(call) == Frame(call, "none", <<>>)

Init ==
    /\ legacy \in BOOLEAN /\ strictPage \in BOOLEAN
    /\ extension \in {"up", "barred", "down"}
    /\ stack = <<>> /\ answer = None
    /\ shifts = 0

ExtensionShifts ==
    /\ shifts < MaxShifts
    /\ shifts' = shifts + 1
    /\ extension' \in {"up", "barred", "down"} \ {extension}
    /\ UNCHANGED <<legacy, strictPage, stack, answer>>

\* The pipeline around a tool. A gate may refuse any call; a tool that needs
\* the extension is refused when it cannot be brought back, and answered
\* without an error flag when it is barred.
Execute(call, below) ==
    LET needs == Tools[call.tool].needs
        known == call.tool \in DOMAIN Tools
    IN  \/ Return(Report(Unstarted(call), "refused"), below)
        \/ /\ known /\ RequiresExtension(needs) /\ extension = "barred"
           /\ Return(Report(Unstarted(call), "unavailable"), below)
        \/ /\ known /\ (RequiresExtension(needs) => Usable)
           /\ \E daemon \in BOOLEAN :
                  stack' = <<Frame(call, SelectEngine(needs, daemon), Tools[call.tool].steps)>> \o below
           /\ UNCHANGED answer

\* A step of a skill goes past the pipeline, straight to the handler.
Dispatch(call, below) ==
    IF Dispatched(call.tool)
    THEN /\ stack' = <<Frame(call, "applescript", Tools[call.tool].steps)>> \o below
         /\ UNCHANGED answer
    ELSE Return(Report(Unstarted(call), "error"), below)

env == <<legacy, strictPage, extension, shifts>>

CallTool(call) ==
    /\ stack = <<>> /\ answer = None
    /\ Execute(call, <<>>)
    /\ UNCHANGED env

\* The client has the answer, and may call again.
Told ==
    /\ answer # None
    /\ answer' = None
    /\ UNCHANGED <<legacy, strictPage, extension, stack, shifts>>

Innermost == Head(stack)
IsTool == stack # <<>> /\ Innermost.call.tool \notin Composite

GoOn(frame) == stack' = <<frame>> \o Tail(stack) /\ UNCHANGED answer
End(frame, says) == Return(Report(frame, says), Tail(stack))

Skip ==
    /\ IsTool /\ Innermost.left # <<>> /\ Head(Innermost.left).opt
    /\ GoOn([Innermost EXCEPT !.left = Tail(@)])
    /\ UNCHANGED env

\* One script, its one retry after a timeout included. Any script may fail.
RunScript(fails) ==
    LET step == Head(Innermost.left)
        result == IF fails THEN "error" ELSE Outcome(step.kind, Innermost.engine)
        now == [Innermost EXCEPT !.faulted = @ \/ fails]
        next == [now EXCEPT !.left = Tail(@)]
    IN  /\ IsTool /\ Innermost.left # <<>> /\ step.kind # "none"
        /\ \/ step.role = "until" /\ (GoOn(next) \/ (result = "value" /\ End(now, "value")))
           \/ step.role = "while" /\ (End(now, "value") \/ (result = "value" /\ GoOn(next)))
           \/ step.role = "try" /\ GoOn([next EXCEPT !.missed = @ \/ result # "value"])
           \/ step.role = "must" /\ IF result = "value" THEN GoOn(next) ELSE End(now, "error")
           \/ /\ step.role \in {"act", "soft"}
              /\ IF result = "error" THEN End(now, IF step.role = "act" THEN "error" ELSE "soft")
                 ELSE GoOn([next EXCEPT !.hollow = @ \/ result = "nothing"])
        /\ UNCHANGED env

\* The steps of a handler that give nothing to the engine.
Control ==
    LET role == Head(Innermost.left).role
        next == [Innermost EXCEPT !.left = Tail(@)]
    IN  /\ IsTool /\ Innermost.left # <<>>
        /\ \/ role = "guard" /\ IF Innermost.engine = "extension" THEN GoOn(next) ELSE End(Innermost, "error")
           \/ role = "again" /\ (GoOn(next) \/ GoOn([Innermost EXCEPT !.left = Tools[Innermost.call.tool].steps]))
           \/ role = "late" /\ End(Innermost, "late")
        /\ UNCHANGED env

ToolAnswers ==
    /\ IsTool /\ Innermost.left = <<>>
    /\ End(Innermost, "value")
    /\ UNCHANGED env

\* Parameters that do not fit, or something of its own that fails.
ToolThrows ==
    /\ IsTool
    /\ End([Innermost EXCEPT !.faulted = TRUE], "error")
    /\ UNCHANGED env

-----------------------------------------------------------------------------
\* safari_batch and safari_run_skill.

MaxBatchActions == 4
Foreign == {"_loop"}   \* names that do not begin with safari_

WellFormed(parts) ==
    /\ Len(parts) \in 1..MaxBatchActions
    /\ \A i \in DOMAIN parts : parts[i].tool \notin Foreign \cup {"safari_batch"}

LastFailed(frame) == frame.done # <<>> /\ Failed(Last(frame.done))
Runs(tool) == stack # <<>> /\ Innermost.call.tool = tool

Rest == <<[Innermost EXCEPT !.todo = Tail(@)]>> \o Tail(stack)

BatchRejected ==
    /\ Runs("safari_batch") /\ ~WellFormed(Innermost.call.parts)
    /\ End(Innermost, "error")
    /\ UNCHANGED env

\* Mutant: a batch goes on after a failure.
StopsNever == FALSE

Stops == Innermost.call.stop /\ LastFailed(Innermost)

BatchNext ==
    /\ Runs("safari_batch") /\ WellFormed(Innermost.call.parts)
    /\ Innermost.todo # <<>> /\ ~Stops
    /\ Execute(Head(Innermost.todo), Rest)
    /\ UNCHANGED env

BatchEnds ==
    /\ Runs("safari_batch") /\ WellFormed(Innermost.call.parts)
    /\ Innermost.todo = <<>> \/ Stops
    /\ End(Innermost, "value")
    /\ UNCHANGED env

\* The skill is not there, or a step of it threw.
SkillThrows ==
    /\ Runs("safari_run_skill")
    /\ Innermost.call.parts = None \/ LastFailed(Innermost)
    /\ End(Innermost, "error")
    /\ UNCHANGED env

SkillRuns == Runs("safari_run_skill") /\ Innermost.call.parts # None /\ ~LastFailed(Innermost)

\* The list may hold any number of items, or be none.
SkillLoops ==
    /\ SkillRuns /\ Innermost.todo # <<>> /\ Head(Innermost.todo).tool = "_loop"
    /\ \/ \E n \in 0..MaxItems :
              GoOn([Innermost EXCEPT !.todo = FlattenSeq([i \in 1..n |-> Head(@).parts]) \o Tail(@)])
       \/ End([Innermost EXCEPT !.faulted = TRUE], "error")
    /\ UNCHANGED env

SkillNext ==
    /\ SkillRuns /\ Innermost.todo # <<>> /\ Head(Innermost.todo).tool # "_loop"
    /\ Dispatch(Head(Innermost.todo), Rest)
    /\ UNCHANGED env

SkillEnds ==
    /\ SkillRuns /\ Innermost.todo = <<>>
    /\ End(Innermost, "value")
    /\ UNCHANGED env

Next ==
    \/ ExtensionShifts \/ Told
    \/ \E call \in Plain \cup Composed : CallTool(call)
    \/ \E fails \in BOOLEAN : RunScript(fails)
    \/ Skip \/ Control \/ ToolAnswers \/ ToolThrows
    \/ BatchRejected \/ BatchNext \/ BatchEnds
    \/ SkillThrows \/ SkillLoops \/ SkillNext \/ SkillEnds

Spec == Init /\ [][Next]_vars

-----------------------------------------------------------------------------
\* Properties.

\* What was reported and is still at hand.
Reports == ({answer} \ {None}) \cup UNION {ToSet(stack[i].done) : i \in DOMAIN stack}

Needs(report) == Tools[report.call.tool].needs
Ran(report) == report.engine # "none"

\* The engine that ran a tool can do all that the tool requires
\* (engine-selector.ts:12-124).
EngineFits(report) == Ran(report) => Needs(report) \cap Caps \subseteq EngineCaps(report.engine)

\* Scripts whose value is lost on the extension: they are expressions, and
\* nothing returns their value (clipboard.ts:12-35, service-workers.ts:11-45,
\* performance.ts:13-119).
LostScripts == DOMAIN Clipboard \cup DOMAIN ServiceWorkers \cup DOMAIN Performance

\* No other tool takes an empty result for success, on whatever engine it runs.
NotHollow(report) == report.hollow => report.call.tool \in LostScripts

\* A tool that requires the CSP bypass has it on a page that forbids made
\* scripts: without a failure, it throws only in the scripts that are still
\* made from strings: the lookup of a pack, and the bodies of get_html and
\* get_attribute (extraction.ts:639-662, 767-780).
BypassHolds(report) ==
    /\ strictPage /\ ~legacy /\ ~report.faulted /\ report.says = "error"
    /\ "cspBypass" \in Needs(report)
    => report.at = "must" \/ report.call.tool \in {"safari_get_html", "safari_get_attribute"}

\* A getter answers about the element it was asked for, if no script failed
\* (extraction.ts:527-535: after a failed seek it reads the whole page).
SeekHolds(report) ==
    report.call.tool \in DOMAIN Getters /\ report.says = "value" /\ report.missed => report.faulted

\* A tool that answers with success has a result to show for it.
SuccessIsReal ==
    \A r \in Reports :
        r.call.tool \in DOMAIN Tools => EngineFits(r) /\ NotHollow(r) /\ BypassHolds(r) /\ SeekHolds(r)

\* The results of a batch are those of its actions, in order; it leaves some
\* out only when it was told to stop and the last one failed, and it never goes
\* past such a failure (batch.ts:139-168).
BatchTold(report) ==
    LET n == Len(report.done)
    IN  report.says = "value" =>
            /\ n <= Len(report.call.parts)
            /\ \A i \in 1..n : report.done[i].call = report.call.parts[i]
            /\ n < Len(report.call.parts) => report.call.stop /\ n > 0 /\ Failed(report.done[n])
            /\ report.call.stop => \A i \in 1..(n - 1) : ~Failed(report.done[i])

\* A skill that answers has run every step, and none of them failed
\* (runner.ts:51-75); all of them are steps of navigation, for the module that
\* is asked first throws at any other name (server.ts:552-565,
\* navigation.ts:133-153).
SkillTold(report) ==
    report.says = "value" =>
        /\ \A i \in DOMAIN report.done :
               ~Failed(report.done[i]) /\ report.done[i].call.tool \in DOMAIN Navigation
        /\ (\A i \in DOMAIN report.call.parts : report.call.parts[i].tool # "_loop") =>
               /\ Len(report.done) = Len(report.call.parts)
               /\ \A i \in DOMAIN report.done : report.done[i].call = report.call.parts[i]

ReportsMatchRuns ==
    \A r \in Reports :
        /\ r.call.tool = "safari_batch" => BatchTold(r)
        /\ r.call.tool = "safari_run_skill" => SkillTold(r)
=============================================================================
