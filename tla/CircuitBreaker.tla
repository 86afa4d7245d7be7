---------------------------- MODULE CircuitBreaker ----------------------------
(***************************************************************************)
(* The two breakers of src/security/circuit-breaker.ts as operators on     *)
(* their state: DomainState for one domain, and the failure list and trip  *)
(* time of the extension engine.                                           *)
(*                                                                         *)
(* Times are kept as what the code compares them with: "cooled" says that  *)
(* cooldownMs have passed since openedAt, and a failure window that may    *)
(* have passed is a choice.  Counters stop at their threshold, because the *)
(* code only asks whether they have reached it.                            *)
(***************************************************************************)
EXTENDS Naturals, FiniteSetsExt

CONSTANTS
    FailureThreshold,       \* failures that open a domain's circuit
    EngineErrorThreshold    \* lifecycle errors that trip the extension engine

ASSUME BreakerAssumption ==
    FailureThreshold \in Nat \ {0} /\ EngineErrorThreshold \in Nat \ {0}

DomainState ==
    [failures : 0 .. FailureThreshold, opened : BOOLEAN, cooled : BOOLEAN,
     probeAllowed : BOOLEAN, probeInFlight : BOOLEAN]

EmptyState ==
    [failures |-> 0, opened |-> FALSE, cooled |-> FALSE,
     probeAllowed |-> FALSE, probeInFlight |-> FALSE]

RecordSuccess(s) == EmptyState

\* The possible states after a failure.  A failure while the probe is in flight
\* opens the circuit again whoever failed; another one is counted, from zero if
\* the run of failures began before the window.
RecordFailure(s) ==
    LET Opened(f) ==
            [failures |-> f, opened |-> TRUE, cooled |-> FALSE,
             probeAllowed |-> FALSE, probeInFlight |-> s.probeInFlight]
        Counted(n) ==
            IF n + 1 >= FailureThreshold THEN Opened(FailureThreshold)
            ELSE [s EXCEPT !.failures = n + 1]
    IN IF s.probeInFlight
       THEN {[Opened(FailureThreshold) EXCEPT !.probeInFlight = FALSE]}
       ELSE {Counted(n) : n \in {0, s.failures}}

\* getState is "closed", "open" or "half-open".
HalfOpen(s) == s.opened /\ s.cooled

\* assertClosed: who may pass, and the state it leaves.
Admits(s) == ~s.opened \/ (s.cooled /\ ~s.probeAllowed)

\* Mutant: the probe is let through and not marked as issued.
AssertClosedUnmarked(s) ==
    IF HalfOpen(s) THEN [s EXCEPT !.probeInFlight = TRUE] ELSE s

AssertClosed(s) ==
    IF HalfOpen(s) THEN [s EXCEPT !.probeAllowed = TRUE, !.probeInFlight = TRUE] ELSE s

\* cooldownMs have passed since the circuit was opened.
CanCool(s) == s.opened /\ ~s.cooled
Cooled(s) == [s EXCEPT !.cooled = TRUE]

-----------------------------------------------------------------------------
\* The engine scope.

EngineState == [errors : 0 .. EngineErrorThreshold, tripped : {"no", "yes", "elapsed"}]
EngineFresh == [errors |-> 0, tripped |-> "no"]

\* recordEngineFailure with a lifecycle code: errors older than the window drop
\* out first, any number of them.
RecordEngineFailure(b) ==
    {[errors |-> n, tripped |-> IF n = EngineErrorThreshold THEN "yes" ELSE b.tripped] :
        n \in {Min({k + 1, EngineErrorThreshold}) : k \in 0 .. b.errors}}

\* isEngineTripped: the answer, and the state the reading leaves.
IsEngineTripped(b) == b.tripped = "yes"
EngineRead(b) == IF b.tripped = "elapsed" THEN EngineFresh ELSE b
=============================================================================
