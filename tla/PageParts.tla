--------------------------------- MODULE PageParts ---------------------------------
(* What a command meets in the browser: the tab it is routed to, the frame  *)
(* it is sent to, its element, and what the page then does.                 *)
EXTENDS Parts, Naturals, Sequences, FiniteSets

CONSTANTS
    \* TabRouting
    Tabs, Windows, Sessions, Pages, MaxEvents, MaxWakes,
    \* FrameBus
    Frames, Top, Commands, Addresses, MaxMoves,
    \* Locators
    Document, Attr, Locators, MaxRefs, MaxRenders,
    \* Interaction
    Candidates, Around, Above, Flaws, Waiters, Actions, MaxChanges,
    \* FormActions
    Texts, Options, MaxCommands

VARIABLES
    \* TabRouting
    shows, home, events, up, life, cache, stored, load, answer, windowOf,
    dashboard, sent, happened, wakes,
    \* FrameBus
    me, target, step, expected, bus, alive, location, script, changes, running,
    posted, moves, upsets,
    \* Locators
    present, ref, resolved, owner, acted, left, returned, renders,
    \* Interaction
    inPage, wrong, place, rerenders, centered, request, phase, actedOn, awaiting,
    element, lastRect, stableCount, failedCheck, late, held, samples,
    \* FormActions
    tag, framework, control, promised, pending, commands

routingVars == <<shows, home, events, up, life, cache, stored, load, answer,
                 windowOf, dashboard, sent, happened, wakes>>
framesVars == <<me, target, step, expected, bus, alive, location, script, changes,
                running, posted, moves, upsets>>
locatorsVars == <<present, ref, resolved, owner, acted, left, returned, renders>>
interactionVars == <<inPage, wrong, place, rerenders, centered, request, phase,
                     actedOn, awaiting, element, lastRect, stableCount,
                     failedCheck, late, held, samples>>
formsVars == <<tag, framework, control, promised, pending, commands>>

Routing == INSTANCE TabRouting

Bus == INSTANCE FrameBus

Finder == INSTANCE Locators WITH
    Order <- Document

Waits == INSTANCE Interaction WITH
    Order <- Candidates, Calls <- Waiters, Faults <- Flaws, Requests <- Actions

Forms == INSTANCE FormActions WITH
    field <- control
=============================================================================
