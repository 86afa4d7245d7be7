------------------------- MODULE MCPipelineScenarios -------------------------
(* Two scenarios of the pipeline in one run: two calls together while no page     *)
(* moves by itself, or one call after another while pages do and the user has a   *)
(* tab beside the agent's two.                                                    *)
EXTENDS MCToolPipeline

CONSTANTS c1, c2, t2   \* two calls, and the second of the agent's tabs

ASSUME ScenarioAssumption == c1 \in Calls /\ c2 \in Calls \ {c1} /\ t2 \in Mine

VARIABLE scenario

\* Bound: the calls and tabs of a scenario.
Within ==
    IF scenario = "together"
    THEN /\ page[t2] = 0 /\ total <= 3
         /\ \A c \in Calls : call[c].kind \notin {"click", "closeTab"} /\ TabOf(call[c].url) # t2
    ELSE /\ \A c \in Calls \ {c1} : call[c] = NoCall
         /\ call[c1].kind \notin {"shot", "stop"}

\* Bound: of two calls that may start, the first starts, for they are alike.
FirstStarts ==
    call[c1].phase \in {"idle", "done"} /\ call[c2].phase \in {"idle", "done"} =>
        call'[c2] = call[c2]

ScenarioInit == Init /\ scenario \in {"together", "alone"}

ScenarioNext ==
    /\ Next /\ UNCHANGED scenario
    /\ Within'
    /\ scenario = "together" => FirstStarts /\ ~ \E t \in Movers : PageMoves(t)

ScenarioSpec ==
    /\ ScenarioInit /\ [][ScenarioNext]_<<pipelineVars, scenario>>
    /\ \A c \in Calls : WF_<<pipelineVars, scenario>>(CallStep(c) /\ ScenarioNext)

\* What is promised of calls one at a time.
Alone(property) == scenario = "alone" => property
RunsWhereAskedAlone == Alone(RunsWhereAsked)
RegistryTellsTruthAlone == Alone(RegistryTellsTruth)
OwnsNoUserTabAlone == Alone(OwnsNoUserTab)
AnswersFromOwnedTabsAlone ==
    [][\A c \in Calls : scenario = "alone" /\
         call[c].phase = "running" /\ (call'[c].phase = "adopting" \/ call'[c].answer = "ok")
         => call[c].ran \subseteq Owned(registry')]_pipelineVars
=============================================================================
