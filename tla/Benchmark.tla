----------------------------- MODULE Benchmark -----------------------------
(***************************************************************************)
(* The benchmark: src/benchmark/runner.ts, worker.ts, eval.ts,             *)
(* task-loader.ts, reporter.ts.                                            *)
(*                                                                         *)
(* For one model after the other the workers take their queues of tasks    *)
(* side by side, a claude process for each.  Its output is evaluated, and  *)
(* the results become a report, an entry of the history and trace files.   *)
(*                                                                         *)
(* A text is its set of words; times and steps are left out.               *)
(***************************************************************************)
EXTENDS Integers, Sequences, FiniteSets, SequencesExt

CONSTANTS
    Suite,      \* the task files, in the order in which they are read
    Configs,    \* what the command line may ask for
    Outputs,    \* the lines a claude process may print
    OldRuns,    \* the runs of the history file, by model
    None,
    MaxHistory

BenchmarkAssumption ==
    /\ MaxHistory \in Nat \ {0}
    /\ \A c \in Configs : c.parallel \in Nat
    /\ \A i, j \in DOMAIN Suite : Suite[i].id = Suite[j].id => i = j

VARIABLES
    config, stage,
    engines,    \* those the preflight found
    eligible, skipped,
    todo,       \* the models whose turn is to come, the present one first
    queue,      \* of each worker
    work,       \* what it is doing
    results, duels,
    history, traces,
    left,       \* what still has to be cleaned up
    passes      \* history: the runs and tasks whose output was found right

setUp == <<config, engines, eligible, skipped>>
records == <<results, duels>>
disk == <<history, traces>>
vars == <<setUp, stage, todo, queue, work, records, disk, left, passes>>

Run == Len(config.models) - Len(todo) + 1

OldHistory == [i \in DOMAIN OldRuns |-> [model |-> OldRuns[i], run |-> i - Len(OldRuns)]]

Init ==
    /\ config \in Configs /\ stage = "start"
    /\ engines \in {{"applescript"}, {"applescript", "daemon"}, {"applescript", "daemon", "extension"}}
    /\ eligible = <<>> /\ skipped = <<>> /\ todo = config.models
    /\ queue = <<>> /\ work = <<>> /\ results = <<>> /\ duels = <<>>
    /\ history = OldHistory /\ traces = {} /\ left = {} /\ passes = {}

-----------------------------------------------------------------------------
\* Before the tasks.

\* A file that cannot be read, parsed or validated is left out with a warning.
LoadTasks == SelectSeq(Suite, LAMBDA t : t.valid)

\* Tasks of other categories or ids are left out without a word.
Selected(t) ==
    /\ config.categories = None \/ t.category \in config.categories
    /\ config.taskIds = None \/ t.id \in config.taskIds

\* The tools of the preflight are a list in the program that has none of the
\* tools of a roadmap gate, and nobody is logged in anywhere.
Capable(t) ==
    /\ ~t.gated /\ t.engines \subseteq engines
    /\ t.competitive => config.competitive

FilterTasks(capable) == SelectSeq(LoadTasks, LAMBDA t : Selected(t) /\ Capable(t) = capable)

Domain(t) == IF t.host \in {None, "localhost", "127.0.0.1"} THEN "local" ELSE t.host

Domains(tasks) ==
    FoldLeft(LAMBDA known, t : IF Contains(known, Domain(t)) THEN known ELSE Append(known, Domain(t)),
             <<>>, tasks)

\* The first of the workers with the shortest queues.
LeastLoaded(slots) ==
    CHOOSE s \in DOMAIN slots : \A r \in DOMAIN slots :
        Len(slots[s]) < Len(slots[r]) \/ (Len(slots[s]) = Len(slots[r]) /\ s <= r)

\* Mutant: every task goes to the least loaded worker.
DistributeTasksSingly(tasks, parallel) ==
    FoldLeft(LAMBDA slots, t : [slots EXCEPT ![LeastLoaded(slots)] = Append(@, t)],
             [s \in 1..parallel |-> <<>>], tasks)

\* The tasks of one domain go to one worker.
DistributeTasksToWorkers(tasks, parallel) ==
    FoldLeft(LAMBDA slots, d :
                 [slots EXCEPT ![LeastLoaded(slots)] = @ \o SelectSeq(tasks, LAMBDA t : Domain(t) = d)],
             [s \in 1..parallel |-> <<>>], Domains(tasks))

Idle == [at |-> "idle", leg |-> "safari", late |-> FALSE, code |-> None, ok |-> FALSE]

Workers == 1..(IF config.parallel > 1 THEN config.parallel ELSE 1)

BeginModel(tasks) ==
    /\ queue' = DistributeTasksToWorkers(tasks, Cardinality(Workers))
    /\ work' = [s \in Workers |-> Idle]
    /\ results' = <<>> /\ duels' = <<>>

NeedsFixture(tasks) == \E i \in DOMAIN tasks : tasks[i].host = "localhost"

Start ==
    /\ stage = "start"
    /\ eligible' = FilterTasks(TRUE) /\ skipped' = FilterTasks(FALSE)
    /\ IF config.dryRun \/ eligible' = <<>>
       THEN stage' = "over" /\ UNCHANGED <<left, queue, work, records>>
       ELSE \/ /\ stage' = "running" /\ BeginModel(eligible')
               /\ left' = {"mcp"} \cup (IF NeedsFixture(eligible') THEN {"fixture"} ELSE {})
            \/ \* The port is taken: nothing is cleaned up yet.
               /\ NeedsFixture(eligible') /\ stage' = "failed" /\ left' = {"mcp"}
               /\ UNCHANGED <<queue, work, records>>
    /\ UNCHANGED <<config, engines, todo, disk, passes>>

-----------------------------------------------------------------------------
\* executeTask, once with Safari Pilot and, in a competition, with Playwright.

Working(s) == stage = "running" /\ s \in Workers

Task(s) == Head(queue[s])

Spawn(s) ==
    /\ Working(s) /\ work[s].at = "idle" /\ queue[s] # <<>>
    /\ work' = [work EXCEPT ![s].at = "running", ![s].late = FALSE, ![s].code = None]
    /\ UNCHANGED <<setUp, stage, todo, queue, records, disk, left, passes>>

\* SIGTERM is all there is, and the process may take its time.
TimedOut(s) ==
    /\ Working(s) /\ work[s].at \in {"running", "exited"} /\ ~work[s].late
    /\ work' = [work EXCEPT ![s].late = TRUE]
    /\ UNCHANGED <<setUp, stage, todo, queue, records, disk, left, passes>>

Exits(s) ==
    /\ Working(s) /\ work[s].at = "running"
    /\ \E code \in {"zero", "other", "signal"} :
          work' = [work EXCEPT ![s].at = "exited", ![s].code = code]
    /\ UNCHANGED <<setUp, stage, todo, queue, records, disk, left, passes>>

\* What becomes of the task after its process.
TaskResult(s, ok) ==
    LET w == work[s]
        done == [queue EXCEPT ![s] = Tail(@)]
    IN  /\ IF w.leg = "playwright"
           THEN /\ duels' = Append(duels, [id |-> Task(s).id, safari |-> w.ok, playwright |-> ok])
                /\ work' = [work EXCEPT ![s] = Idle] /\ queue' = done
                /\ UNCHANGED results
           ELSE /\ results' = Append(results, [id |-> Task(s).id, success |-> ok])
                /\ IF config.competitive /\ Task(s).competitive
                   THEN /\ work' = [work EXCEPT ![s] = [Idle EXCEPT !.leg = "playwright", !.ok = ok]]
                        /\ UNCHANGED queue
                   ELSE work' = [work EXCEPT ![s] = Idle] /\ queue' = done
                /\ UNCHANGED duels
        /\ UNCHANGED <<setUp, stage, todo, disk, left>>

SpawnFails(s) ==
    /\ Working(s) /\ work[s].at = "running" /\ ~work[s].late
    /\ TaskResult(s, FALSE) /\ UNCHANGED passes

\* One that was killed by another signal is evaluated like one that succeeded.
Closes(s) ==
    /\ Working(s) /\ work[s].at = "exited"
    /\ IF work[s].late \/ work[s].code = "other" THEN TaskResult(s, FALSE)
       ELSE /\ work' = [work EXCEPT ![s].at = "printed"]
            /\ UNCHANGED <<setUp, stage, todo, queue, records, disk, left>>
    /\ UNCHANGED passes

\* A line that does not parse, or of another type, is passed over.
ParseStreamEvents(lines) ==
    FoldLeft(LAMBDA events, l :
                 IF l # None /\ l.type \in {"assistant", "result", "tool"} THEN events \o l.content ELSE events,
             <<>>, lines)

NoText == [text |-> {}, result |-> None, json |-> FALSE, fields |-> <<>>]

\* The last text of all.
ExtractFinalOutput(events) ==
    LET texts == SelectSeq(events, LAMBDA b : b.type = "text")
    IN  IF texts = <<>> THEN NoText ELSE Last(texts).content

ExtractResult(out) == IF out.result # None THEN out.result ELSE out.text

ValidateSchemaSimple(schema, fields) ==
    /\ schema.required \subseteq DOMAIN fields
    /\ \A k \in DOMAIN schema.types \cap DOMAIN fields : fields[k] = schema.types[k]

\* With nothing to include, "contains" fails.  The judge is another claude.
Evaluate(e, out, judged) ==
    CASE e.type = "exact_match" -> ExtractResult(out) = e.expected
      [] e.type = "contains" -> e.mustInclude # {} /\ e.mustInclude \subseteq out.text
      [] e.type = "structured_output" -> out.json /\ ValidateSchemaSimple(e.schema, out.fields)
      [] e.type = "llm_judge" -> judged

Evaluates(s) ==
    /\ Working(s) /\ work[s].at = "printed"
    /\ \E lines \in Outputs, first, second \in BOOLEAN :
        LET out == ExtractFinalOutput(ParseStreamEvents(lines))
            ok == \/ Evaluate(Task(s).eval, out, first)
                  \/ Task(s).fallback # None /\ Evaluate(Task(s).fallback, out, second)
        IN  /\ TaskResult(s, ok)
            /\ passes' = IF ok /\ work[s].leg = "safari" THEN passes \cup {<<Run, Task(s).id>>} ELSE passes

-----------------------------------------------------------------------------
\* When the queues are empty.

TaskNamed(id) == eligible[CHOOSE i \in DOMAIN eligible : eligible[i].id = id]

Count(seq, Test(_)) == Len(SelectSeq(seq, Test))

InCategory(cat, ok) ==
    Count(results, LAMBDA r : r.success = ok /\ TaskNamed(r.id).category = cat)

\* The last run of the model in the history.
PreviousRun(model) ==
    LET same == {i \in DOMAIN history : history[i].model = model}
    IN  IF same = {} THEN None
        ELSE (CHOOSE i \in same : \A j \in same : history[j].run <= history[i].run)

ComputeRunReport ==
    LET model == Head(todo)
        cats == {t.category : t \in {eligible[i] : i \in DOMAIN eligible} \cup {skipped[i] : i \in DOMAIN skipped}}
    IN  [model |-> model, run |-> Run,
         passed |-> Count(results, LAMBDA r : r.success),
         failed |-> Count(results, LAMBDA r : ~r.success),
         byCategory |-> [c \in cats |-> [passed |-> InCategory(c, TRUE), failed |-> InCategory(c, FALSE)]],
         perTask |-> {<<r.id, r.success>> : r \in {results[i] : i \in DOMAIN results}},
         wins |-> Count(duels, LAMBDA d : d.safari /\ ~d.playwright),
         previous |-> IF PreviousRun(model) = None THEN None ELSE history[PreviousRun(model)].run]

\* The oldest runs are dropped.
SaveHistory ==
    LET all == Append(history, ComputeRunReport)
    IN  history' = IF Len(all) > MaxHistory THEN SubSeq(all, Len(all) - MaxHistory + 1, Len(all)) ELSE all

AllDone == stage = "running" /\ \A s \in Workers : queue[s] = <<>>

Report ==
    /\ AllDone /\ todo # <<>>
    /\ SaveHistory
    /\ traces' = traces \cup {<<Run, results[i].id, results[i].success>> : i \in DOMAIN results}
    /\ todo' = Tail(todo)
    /\ IF Len(todo) > 1 THEN BeginModel(eligible) /\ UNCHANGED stage
       ELSE stage' = "cleanup" /\ UNCHANGED <<queue, work, records>>
    /\ UNCHANGED <<setUp, left, passes>>

\* A file cannot be written: the report, the history or a trace.
ReportFails ==
    /\ AllDone
    /\ SaveHistory \/ UNCHANGED history
    /\ stage' = "cleanup"
    /\ UNCHANGED <<setUp, todo, queue, work, records, traces, left, passes>>

CleanUp ==
    /\ stage = "cleanup" /\ stage' = "over" /\ left' = {}
    /\ UNCHANGED <<setUp, todo, queue, work, records, disk, passes>>

-----------------------------------------------------------------------------
Next ==
    \/ Start
    \/ \E s \in Workers : Spawn(s) \/ TimedOut(s) \/ Exits(s) \/ SpawnFails(s) \/ Closes(s) \/ Evaluates(s)
    \/ Report \/ ReportFails \/ CleanUp

Spec == Init /\ [][Next]_vars

-----------------------------------------------------------------------------
\* Property.

Busy(s) == Working(s) /\ work[s].at # "idle"

Ids == {eligible[i].id : i \in DOMAIN eligible}

\* Two workers are never on one domain, where their tabs and logins would
\* meet; and a report counts each eligible task of its model once, as passed if
\* and only if its output was found right, whatever timed out, crashed or ran
\* beside it, and compares with the run of the model before it
\* (runner.ts:205-250, 295-359, worker.ts:160-267, reporter.ts:52-150).
ReportTellsRun ==
    /\ \A s, t \in Workers : s # t /\ Busy(s) /\ Busy(t) => Domain(Task(s)) # Domain(Task(t))
    /\ \A i \in DOMAIN history : LET h == history[i] IN h.run > 0 =>
        /\ h.perTask = {<<id, <<h.run, id>> \in passes>> : id \in Ids}
        /\ h.passed + h.failed = Len(eligible)
        /\ \A c \in DOMAIN h.byCategory :
              h.byCategory[c].passed + h.byCategory[c].failed = Count(eligible, LAMBDA t : t.category = c)
        /\ \A j \in 1..(i - 1) : history[j].model = h.model =>
              h.previous # None /\ h.previous >= history[j].run
=============================================================================
