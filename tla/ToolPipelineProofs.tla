------------------------- MODULE ToolPipelineProofs -------------------------
(***************************************************************************)
(* Theorems of ToolPipeline, for any calls, tabs, domains and thresholds:  *)
(* its types; the breaker lets one probe in per opening; the kill switch   *)
(* is thrown only by an emergency stop or by failures of tools; no tab of  *)
(* the user becomes the agent's.  And of calls one after another, the      *)
(* scenario "alone": the registry is truthful, a script runs where its     *)
(* call asked, and its result comes from a tab that is the agent's.        *)
(***************************************************************************)
EXTENDS MCPipelineScenarios, SequenceTheorems, FiniteSetTheorems, TLAPS

-----------------------------------------------------------------------------
\* The smaller of two naturals, as the module library defines it.
LEMMA MinOfTwo ==
    ASSUME NEW a \in Nat, NEW b \in Nat
    PROVE  /\ Min({a, b}) \in Nat
           /\ Min({a, b}) = IF a <= b THEN a ELSE b
<1>1. CASE a <= b
  <2>1. a \in {a, b} /\ \A y \in {a, b} : a <= y
    BY <1>1
  <2>2. \A x \in {a, b} : (\A y \in {a, b} : x <= y) => x = a
    BY <1>1
  <2>3. Min({a, b}) = a
    BY <2>1, <2>2 DEF Min
  <2> QED BY <1>1, <2>3
<1>2. CASE ~(a <= b)
  <2>1. b \in {a, b} /\ \A y \in {a, b} : b <= y
    BY <1>2
  <2>2. \A x \in {a, b} : (\A y \in {a, b} : x <= y) => x = b
    BY <1>2
  <2>3. Min({a, b}) = b
    BY <2>1, <2>2 DEF Min
  <2> QED BY <1>2, <2>3
<1> QED BY <1>1, <1>2

-----------------------------------------------------------------------------
\* The breaker.

\* A domain's state whose two probe flags agree.
Sound(s) == s \in DomainState /\ s.probeAllowed = s.probeInFlight

\* The state after a failure is sound; it has just been opened, or it is as open
\* and as cool as before and no probe is or was in flight.
LEMMA FailureSound ==
    ASSUME NEW s, Sound(s), NEW s2 \in RecordFailure(s)
    PROVE  /\ Sound(s2)
           /\ \/ s2.opened /\ ~s2.cooled
              \/ /\ s2.opened = s.opened /\ s2.cooled = s.cooled
                 /\ ~s.probeInFlight /\ ~s2.probeInFlight
<1>0. FailureThreshold \in Nat \ {0}
  BY BreakerAssumption
<1>1. CASE s.probeInFlight
  <2>1. s2 = [failures |-> FailureThreshold, opened |-> TRUE, cooled |-> FALSE,
              probeAllowed |-> FALSE, probeInFlight |-> FALSE]
    BY <1>1 DEF RecordFailure
  <2> QED BY <1>0, <2>1 DEF Sound, DomainState
<1>2. CASE ~s.probeInFlight
  <2>1. PICK n \in {0, s.failures} :
          s2 = IF n + 1 >= FailureThreshold
               THEN [failures |-> FailureThreshold, opened |-> TRUE, cooled |-> FALSE,
                     probeAllowed |-> FALSE, probeInFlight |-> s.probeInFlight]
               ELSE [s EXCEPT !.failures = n + 1]
    BY <1>2 DEF RecordFailure
  <2>2. n \in Nat
    BY <1>0 DEF Sound, DomainState
  <2>3. CASE n + 1 >= FailureThreshold
    <3>1. s2 = [failures |-> FailureThreshold, opened |-> TRUE, cooled |-> FALSE,
                probeAllowed |-> FALSE, probeInFlight |-> FALSE]
      BY <1>2, <2>1, <2>3 DEF Sound, DomainState
    <3> QED BY <1>0, <3>1 DEF Sound, DomainState
  <2>4. CASE ~(n + 1 >= FailureThreshold)
    <3>1. n + 1 \in 0 .. FailureThreshold
      BY <1>0, <2>2, <2>4
    <3>2. s2 = [s EXCEPT !.failures = n + 1]
      BY <2>1, <2>4
    <3> QED BY <1>2, <3>1, <3>2 DEF Sound, DomainState
  <2> QED BY <2>3, <2>4
<1> QED BY <1>1, <1>2

LEMMA EmptySound == Sound(EmptyState) /\ ~EmptyState.opened
BY BreakerAssumption DEF Sound, EmptyState, DomainState

\* A call that is let in through an open circuit finds no probe issued and leaves
\* one.
LEMMA AdmissionSound ==
    ASSUME NEW s, Sound(s), Admits(s)
    PROVE  /\ Sound(AssertClosed(s))
           /\ AssertClosed(s).opened = s.opened
           /\ s.opened => ~s.probeInFlight /\ AssertClosed(s).probeInFlight
BY DEF Sound, DomainState, Admits, AssertClosed, HalfOpen

\* One domain: n calls let in since its circuit, now s, was opened.  A probe let
\* in is still marked, which is what keeps the next one out.
ProbeCounted(s, n) ==
    /\ Sound(s) /\ n \in Nat
    /\ s.opened => n <= 1
    /\ s.opened /\ n > 0 => s.probeInFlight

BreakerInv ==
    /\ circuit \in [Domains -> DomainState] /\ probes \in [Domains -> Nat]
    /\ \A d \in Domains : ProbeCounted(circuit[d], probes[d])

\* A step that touches one domain has to answer for that domain only.
LEMMA OneDomain ==
    ASSUME BreakerInv, NEW d0, NEW s2, NEW n2,
           d0 \in Domains => ProbeCounted(s2, n2),
           circuit' = [circuit EXCEPT ![d0] = s2],
           probes' = [probes EXCEPT ![d0] = n2]
    PROVE  BreakerInv'
<1>1. circuit' \in [Domains -> DomainState] /\ probes' \in [Domains -> Nat]
  BY DEF BreakerInv, ProbeCounted, Sound
<1>2. ASSUME NEW d \in Domains
      PROVE  ProbeCounted(circuit'[d], probes'[d])
  <2>1. CASE d = d0
    BY <2>1 DEF BreakerInv
  <2>2. CASE d # d0
    <3>1. circuit'[d] = circuit[d] /\ probes'[d] = probes[d]
      BY <2>2 DEF BreakerInv
    <3> QED BY <3>1 DEF BreakerInv
  <2> QED BY <2>1, <2>2
<1> QED BY <1>1, <1>2 DEF BreakerInv

\* A failure recorded from a sound state keeps the count right.
LEMMA FailureCounted ==
    ASSUME NEW s, NEW n, ProbeCounted(s, n), NEW s2 \in RecordFailure(s)
    PROVE  ProbeCounted(s2, IF s2.opened /\ ~s2.cooled THEN 0 ELSE n)
<1>1. Sound(s) /\ n \in Nat /\ (s.opened /\ n > 0 => s.probeInFlight)
  BY DEF ProbeCounted
<1>2. Sound(s2) /\ (\/ s2.opened /\ ~s2.cooled
                    \/ /\ s2.opened = s.opened /\ s2.cooled = s.cooled
                       /\ ~s.probeInFlight /\ ~s2.probeInFlight)
  BY <1>1, FailureSound
<1>3. CASE s2.opened /\ ~s2.cooled
  BY <1>2, <1>3 DEF ProbeCounted
<1>4. CASE ~(s2.opened /\ ~s2.cooled)
  <2>1. s2.opened => s.opened /\ ~(n > 0)
    BY <1>1, <1>2, <1>4
  <2> QED BY <1>1, <1>2, <1>4, <2>1 DEF ProbeCounted
<1> QED BY <1>3, <1>4

LEMMA EmptyCounted ==
    ASSUME NEW n \in Nat
    PROVE  ProbeCounted(EmptyState, n)
BY EmptySound DEF ProbeCounted

\* DomainFails from the state before, or from the one a success has just left.
LEMMA DomainFailsInv ==
    ASSUME BreakerInv, NEW c,
           NEW s, s = circuit[DomainOfCall(c)] \/ s = EmptyState, DomainFails(c, s)
    PROVE  BreakerInv'
<1> DEFINE d == DomainOfCall(c)
           n2(s2) == IF s2.opened /\ ~s2.cooled THEN 0 ELSE probes[d]
<1>1. PICK s2 \in RecordFailure(s) :
        /\ circuit' = [circuit EXCEPT ![d] = s2]
        /\ probes' = [probes EXCEPT ![d] = n2(s2)]
  BY DEF DomainFails
<1>2. ASSUME d \in Domains PROVE ProbeCounted(s2, n2(s2))
  <2>1. probes[d] \in Nat /\ ProbeCounted(circuit[d], probes[d])
    BY <1>2 DEF BreakerInv
  <2>2. ProbeCounted(s, probes[d])
    BY <2>1, EmptyCounted
  <2> QED BY <2>2, FailureCounted
<1> HIDE DEF d, n2
<1> QED BY <1>1, <1>2, OneDomain

LEMMA CaughtInv ==
    ASSUME BreakerInv, NEW c, NEW e,
           NEW s, s = circuit[DomainOfCall(c)] \/ s = EmptyState,
           e = "thrash" => s = EmptyState, Caught(c, e, s)
    PROVE  BreakerInv'
<1>1. CASE e = "thrash"
  <2> DEFINE d == DomainOfCall(c)
  <2>1. circuit' = [circuit EXCEPT ![d] = EmptyState] /\ probes' = probes
    BY <1>1 DEF Caught
  <2>2. probes' = [probes EXCEPT ![d] = probes[d]]
    BY <2>1 DEF BreakerInv
  <2>3. d \in Domains => ProbeCounted(EmptyState, probes[d])
    BY EmptyCounted DEF BreakerInv
  <2> HIDE DEF d
  <2> QED BY <2>1, <2>2, <2>3, OneDomain
<1>2. CASE e # "thrash"
  <2>1. DomainFails(c, s)
    BY <1>2 DEF Caught
  <2> QED BY <2>1, DomainFailsInv
<1> QED BY <1>1, <1>2

LEMMA LetInInv ==
    ASSUME BreakerInv, NEW c, NEW ext, LetIn(c, ext)
    PROVE  BreakerInv'
<1> DEFINE d == DomainOfCall(c)
           s2 == AssertClosed(circuit[d])
           n2 == IF circuit[d].opened THEN probes[d] + 1 ELSE probes[d]
<1>1. /\ Admits(circuit[d])
      /\ circuit' = [circuit EXCEPT ![d] = s2]
      /\ probes' = IF circuit[d].opened THEN [probes EXCEPT ![d] = probes[d] + 1] ELSE probes
  BY DEF LetIn
<1>2. probes' = [probes EXCEPT ![d] = n2]
  BY <1>1 DEF BreakerInv
<1>3. ASSUME d \in Domains PROVE ProbeCounted(s2, n2)
  <2>1. Sound(circuit[d]) /\ probes[d] \in Nat
    BY <1>3 DEF BreakerInv, ProbeCounted
  <2>2. circuit[d].opened /\ probes[d] > 0 => circuit[d].probeInFlight
    BY <1>3 DEF BreakerInv, ProbeCounted
  <2>3. /\ Sound(s2) /\ s2.opened = circuit[d].opened
        /\ circuit[d].opened => ~circuit[d].probeInFlight /\ s2.probeInFlight
    BY <1>1, <2>1, AdmissionSound
  <2> HIDE DEF s2
  <2> QED BY <2>1, <2>2, <2>3 DEF ProbeCounted
<1> HIDE DEF d, s2, n2
<1> QED BY <1>1, <1>2, <1>3, OneDomain

LEMMA GatesInv ==
    ASSUME BreakerInv, NEW c, NEW ext, Gates(c, ext)
    PROVE  BreakerInv'
<1>1. CASE Refuse(c)
  BY <1>1 DEF Refuse, breakerVars, BreakerInv
<1>2. CASE LetIn(c, ext)
  BY <1>2, LetInInv
<1> QED BY <1>1, <1>2 DEF Gates

LEMMA BreakerInit == Init => BreakerInv
<1> SUFFICES ASSUME Init PROVE BreakerInv
  OBVIOUS
<1>1. circuit = [d \in Domains |-> EmptyState] /\ probes = [d \in Domains |-> 0]
  BY DEF Init
<1>2. EmptyState \in DomainState
  BY EmptySound DEF Sound
<1>3. ProbeCounted(EmptyState, 0)
  BY EmptyCounted
<1> QED BY <1>1, <1>2, <1>3 DEF BreakerInv

LEMMA BreakerNext == BreakerInv /\ [Next]_pipelineVars => BreakerInv'
<1> SUFFICES ASSUME BreakerInv, [Next]_pipelineVars PROVE BreakerInv'
  OBVIOUS
<1>1. ASSUME NEW c \in Calls, Receive(c) PROVE BreakerInv'
  BY <1>1 DEF Receive, breakerVars, BreakerInv
<1>2. ASSUME NEW c \in Calls, CallStep(c) PROVE BreakerInv'
  <2>1. CASE HealthCheck(c)
    <3>1. PICK ext, window \in BOOLEAN :
            Gates(c, ext) \/ UNCHANGED breakerVars
      BY <2>1 DEF HealthCheck, breakerVars
    <3>2. CASE Gates(c, ext)
      BY <3>2, GatesInv
    <3>3. CASE UNCHANGED breakerVars
      BY <3>3 DEF breakerVars, BreakerInv
    <3> QED BY <3>1, <3>2, <3>3
  <2>2. CASE Recover(c)
    BY <2>2 DEF Recover, breakerVars, BreakerInv
  <2>3. CASE RecoveryFails(c)
    BY <2>3 DEF RecoveryFails, breakerVars, BreakerInv
  <2>4. CASE Registered(c)
    BY <2>4, GatesInv DEF Registered
  <2>5. CASE Snapshot(c)
    BY <2>5 DEF Snapshot, breakerVars, BreakerInv
  <2>6. CASE IssueNext(c)
    BY <2>6 DEF IssueNext, breakerVars, BreakerInv
  <2>7. CASE EngineAnswer(c)
    BY <2>7 DEF EngineAnswer, breakerVars, BreakerInv
  <2>8. CASE GiveUp(c)
    BY <2>8 DEF GiveUp, breakerVars, BreakerInv
  <2>9. CASE ToolFails(c)
    <3>1. PICK e \in {"lifecycle", "other"} : Caught(c, e, circuit[DomainOfCall(c)])
      BY <2>9 DEF ToolFails
    <3> QED BY <3>1, CaughtInv
  <2>10. CASE ToolReturns(c)
    <3>1. \/ Caught(c, "notRecognized", EmptyState)
          \/ Caught(c, "thrash", EmptyState)
          \/ DomainSucceeds(c)
      BY <2>10 DEF ToolReturns
    <3>2. CASE Caught(c, "notRecognized", EmptyState)
      BY <3>2, CaughtInv
    <3>3. CASE Caught(c, "thrash", EmptyState)
      BY <3>3, CaughtInv
    <3>4. CASE DomainSucceeds(c)
      <4> DEFINE d == DomainOfCall(c)
      <4>1. /\ circuit' = [circuit EXCEPT ![d] = EmptyState]
            /\ probes' = [probes EXCEPT ![d] = 0]
        BY <3>4 DEF DomainSucceeds, RecordSuccess
      <4>2. ProbeCounted(EmptyState, 0)
        BY EmptyCounted
      <4> HIDE DEF d
      <4> QED BY <4>1, <4>2, OneDomain
    <3> QED BY <3>1, <3>2, <3>3, <3>4
  <2>11. CASE Adopt(c)
    BY <2>11 DEF Adopt, breakerVars, BreakerInv
  <2> QED BY <1>2, <2>1, <2>2, <2>3, <2>4, <2>5, <2>6, <2>7, <2>8, <2>9, <2>10, <2>11
          DEF CallStep
<1>3. ASSUME NEW u \in Urls, LateAnswer(u) PROVE BreakerInv'
  BY <1>3 DEF LateAnswer, breakerVars, BreakerInv
<1>4. ASSUME NEW t \in Tabs, PageMoves(t) \/ PageOpens(t) PROVE BreakerInv'
  BY <1>4 DEF PageMoves, PageOpens, breakerVars, BreakerInv
<1>5. ASSUME NEW d \in Domains, Cooldown(d) PROVE BreakerInv'
  <2> DEFINE s2 == Cooled(circuit[d])
             n2 == probes[d]
  <2>1. circuit' = [circuit EXCEPT ![d] = s2] /\ probes' = [probes EXCEPT ![d] = n2]
    BY <1>5 DEF Cooldown, BreakerInv
  <2>2. ProbeCounted(s2, n2)
    BY <1>5 DEF BreakerInv, ProbeCounted, Sound, Cooled, DomainState
  <2> HIDE DEF s2, n2
  <2> QED BY <2>1, <2>2, OneDomain
<1>6. CASE EngineCooldown
  BY <1>6 DEF EngineCooldown, BreakerInv
<1>7. CASE UNCHANGED pipelineVars
  BY <1>7 DEF pipelineVars, breakerVars, BreakerInv
<1> QED BY <1>1, <1>2, <1>3, <1>4, <1>5, <1>6, <1>7 DEF Next

\* While a domain's circuit is open, at most one call has passed the breaker since
\* it was opened, for any number of calls and domains and any thresholds.
THEOREM OneProbeCorrect == Spec => []OneProbePerOpening
<1>1. BreakerInv => OneProbePerOpening
  BY DEF BreakerInv, ProbeCounted, OneProbePerOpening
<1> QED BY BreakerInit, BreakerNext, <1>1, PTL DEF Spec

-----------------------------------------------------------------------------
\* The kill switch: the window it counts in never holds more errors than tools
\* have failed.
KillInv ==
    /\ errorWindow \in 0 .. MaxErrors /\ failures \in 0 .. MaxErrors
    /\ errorWindow <= failures
    /\ KillSwitchCounts

LEMMA KillUnchanged ==
    ASSUME KillInv, UNCHANGED killVars
    PROVE  KillInv'
BY DEF KillInv, KillSwitchCounts, killVars

LEMMA CaughtKill ==
    ASSUME KillInv, NEW c, NEW s,
           NEW e \in {"lifecycle", "other", "notRecognized", "thrash"}, Caught(c, e, s)
    PROVE  KillInv'
<1>0. MaxErrors \in Nat \ {0}
  BY PipelineAssumption
<1>1. CASE IsSecurityPipelineError(e)
  <2>1. UNCHANGED killVars
    BY <1>1 DEF Caught, IsSecurityPipelineError, killVars
  <2> QED BY <2>1, KillUnchanged
<1>2. CASE ~IsSecurityPipelineError(e)
  <2>1. /\ failures' = Min({failures + 1, MaxErrors}) /\ asked' = asked
        /\ RecordError
    BY <1>2 DEF Caught, IsSecurityPipelineError
  <2>2. PICK n \in 0 .. errorWindow :
          /\ errorWindow' = Min({n + 1, MaxErrors})
          /\ stopped' = (stopped \/ n + 1 >= MaxErrors)
    BY <2>1 DEF RecordError
  <2>3. failures' = IF failures + 1 <= MaxErrors THEN failures + 1 ELSE MaxErrors
    BY <1>0, <2>1, MinOfTwo DEF KillInv
  <2>4. errorWindow' = IF n + 1 <= MaxErrors THEN n + 1 ELSE MaxErrors
    BY <1>0, <2>2, MinOfTwo DEF KillInv
  <2>5. n \in Nat /\ n <= failures /\ failures \in Nat /\ failures <= MaxErrors
    BY <1>0 DEF KillInv
  <2>6. /\ errorWindow' \in 0 .. MaxErrors /\ failures' \in 0 .. MaxErrors
        /\ errorWindow' <= failures'
    BY <1>0, <2>3, <2>4, <2>5
  <2>7. failures >= MaxErrors \/ n + 1 >= MaxErrors => failures' >= MaxErrors
    BY <1>0, <2>3, <2>5
  <2>8. KillSwitchCounts'
    <3>1. stopped => asked \/ failures >= MaxErrors
      BY DEF KillInv, KillSwitchCounts
    <3> QED BY <2>1, <2>2, <2>7, <3>1 DEF KillSwitchCounts
  <2> QED BY <2>6, <2>8 DEF KillInv
<1> QED BY <1>1, <1>2

LEMMA GatesKill ==
    ASSUME KillInv, NEW c, NEW ext, Gates(c, ext)
    PROVE  KillInv'
<1>1. \/ UNCHANGED killVars
      \/ stopped' = TRUE /\ asked' = TRUE /\ UNCHANGED <<errorWindow, failures>>
  BY DEF Gates, Refuse, LetIn, NoEngine, NotRecognized, Dispatch
<1>2. CASE UNCHANGED killVars
  BY <1>2, KillUnchanged
<1>3. CASE stopped' = TRUE /\ asked' = TRUE /\ UNCHANGED <<errorWindow, failures>>
  BY <1>3 DEF KillInv, KillSwitchCounts
<1> QED BY <1>1, <1>2, <1>3

LEMMA KillInit == Init => KillInv
BY PipelineAssumption DEF Init, KillInv, KillSwitchCounts

LEMMA KillNext == KillInv /\ [Next]_pipelineVars => KillInv'
<1> SUFFICES ASSUME KillInv, [Next]_pipelineVars PROVE KillInv'
  OBVIOUS
<1>1. ASSUME NEW c \in Calls, Receive(c) PROVE KillInv'
  BY <1>1, KillUnchanged DEF Receive
<1>2. ASSUME NEW c \in Calls, CallStep(c) PROVE KillInv'
  <2>1. CASE HealthCheck(c)
    <3>1. PICK ext, window \in BOOLEAN : Gates(c, ext) \/ UNCHANGED killVars
      BY <2>1 DEF HealthCheck
    <3> QED BY <3>1, GatesKill, KillUnchanged
  <2>2. CASE Registered(c)
    BY <2>2, GatesKill DEF Registered
  <2>3. CASE ToolFails(c)
    <3>1. PICK e \in {"lifecycle", "other"} : Caught(c, e, circuit[DomainOfCall(c)])
      BY <2>3 DEF ToolFails
    <3> QED BY <3>1, CaughtKill
  <2>4. CASE ToolReturns(c)
    <3>1. \/ Caught(c, "notRecognized", EmptyState)
          \/ Caught(c, "thrash", EmptyState)
          \/ UNCHANGED killVars
      BY <2>4 DEF ToolReturns
    <3> QED BY <3>1, CaughtKill, KillUnchanged
  <2>5. CASE Recover(c) \/ RecoveryFails(c) \/ Snapshot(c) \/ IssueNext(c)
    BY <2>5, KillUnchanged DEF Recover, RecoveryFails, Snapshot, IssueNext
  <2>6. CASE EngineAnswer(c) \/ GiveUp(c) \/ Adopt(c)
    BY <2>6, KillUnchanged DEF EngineAnswer, GiveUp, Adopt
  <2> QED BY <1>2, <2>1, <2>2, <2>3, <2>4, <2>5, <2>6 DEF CallStep
<1>3. ASSUME NEW u \in Urls, LateAnswer(u) PROVE KillInv'
  BY <1>3, KillUnchanged DEF LateAnswer
<1>4. ASSUME NEW t \in Tabs, PageMoves(t) \/ PageOpens(t) PROVE KillInv'
  BY <1>4, KillUnchanged DEF PageMoves, PageOpens
<1>5. ASSUME NEW d \in Domains, Cooldown(d) PROVE KillInv'
  BY <1>5, KillUnchanged DEF Cooldown
<1>6. CASE EngineCooldown
  BY <1>6, KillUnchanged DEF EngineCooldown
<1>7. CASE UNCHANGED pipelineVars
  BY <1>7, KillUnchanged DEF pipelineVars
<1> QED BY <1>1, <1>2, <1>3, <1>4, <1>5, <1>6, <1>7 DEF Next

\* The kill switch is thrown by an emergency stop or by MaxErrors failures of
\* tools, for any calls and any threshold: no refusal of the pipeline throws it.
THEOREM KillSwitchCorrect == Spec => []KillSwitchCounts
<1>1. KillInv => KillSwitchCounts
  BY DEF KillInv
<1> QED BY KillInit, KillNext, <1>1, PTL DEF Spec

-----------------------------------------------------------------------------
\* Sequences.

\* Some natural number of a set is its smallest: of the intervals 1 .. x, ordered
\* by strict inclusion, one is minimal.
LEMMA MinOfNaturals ==
    ASSUME NEW S \in SUBSET Nat, S # {}
    PROVE  Min(S) \in S /\ \A y \in S : Min(S) <= y
<1> DEFINE R == StrictSubsetOrdering(Nat)
           T == {1 .. x : x \in S}
<1>1. T \subseteq FiniteSubsetsOf(Nat) /\ T # {}
  <2>1. ASSUME NEW x \in S
          PROVE  1 .. x \in FiniteSubsetsOf(Nat)
    <3>1. 1 \in Int /\ x \in Int /\ 1 .. x \in SUBSET Nat
      OBVIOUS
    <3>. QED  BY <3>1, FS_Interval DEF FiniteSubsetsOf
  <2>. QED  BY <2>1
<1>2. PICK I \in T : \A J \in T : ~(<<J, I>> \in R)
  <2>1. IsWellFoundedOn(R, FiniteSubsetsOf(Nat))
    BY FS_StrictSubsetOrderingWellFounded
  <2>. HIDE DEF R, T
  <2>. QED  BY <1>1, <2>1, WFMin
<1>3. PICK x \in S : I = 1 .. x
  OBVIOUS
<1>4. ASSUME NEW y \in S
      PROVE  x <= y
  <2>1. SUFFICES ASSUME y < x
                   PROVE  FALSE
    OBVIOUS
  <2>2. 1 .. y \subseteq 1 .. x /\ x \in 1 .. x /\ x \notin 1 .. y
    BY <2>1
  <2>3. <<1 .. y, 1 .. x>> \in R
    BY <2>2 DEF StrictSubsetOrdering
  <2>. QED  BY <1>2, <1>3, <2>3
<1>. QED  BY <1>3, <1>4 DEF Min

\* The first index of a set of them, 0 for none: what SelectInSeq returns.
LEMMA FirstIndex ==
    ASSUME NEW n \in Nat, NEW I \in SUBSET (1 .. n),
           NEW k, k = IF I # {} THEN Min(I) ELSE 0
    PROVE  k \in 0 .. n /\ (k # 0 => k \in I) /\ (k = 0 => I = {})
<1>1. CASE I = {}
  BY <1>1
<1>2. CASE I # {}
  <2>1. I \in SUBSET Nat
    OBVIOUS
  <2>2. k \in I
    BY <1>2, <2>1, MinOfNaturals
  <2> QED BY <1>2, <2>2
<1> QED BY <1>1, <1>2

\* What a look-up in the registry finds has the URL, or the id, looked for.
LEMMA Found ==
    ASSUME NEW reg \in Seq(Entry), NEW url, NEW t
    PROVE  /\ FindByUrl(reg, url) \in 0 .. Len(reg)
           /\ FindByUrl(reg, url) # 0 => reg[FindByUrl(reg, url)].url = url
           /\ FindByExtensionTabId(reg, t) \in 0 .. Len(reg)
           /\ FindByExtensionTabId(reg, t) # 0 => reg[FindByExtensionTabId(reg, t)].ext = t
<1> DEFINE I == {i \in 1 .. Len(reg) : reg[i].url = url}
           J == {i \in 1 .. Len(reg) : reg[i].ext = t}
<1>1. Len(reg) \in Nat
  BY LenProperties
<1>2. FindByUrl(reg, url) = IF I # {} THEN Min(I) ELSE 0
  BY DEF FindByUrl, SelectInSeq
<1>3. FindByExtensionTabId(reg, t) = IF J # {} THEN Min(J) ELSE 0
  BY DEF FindByExtensionTabId, SelectInSeq
<1>4. /\ FindByUrl(reg, url) \in 0 .. Len(reg)
      /\ FindByUrl(reg, url) # 0 => FindByUrl(reg, url) \in I
  <2>1. I \in SUBSET (1 .. Len(reg))
    OBVIOUS
  <2> HIDE DEF I
  <2> QED BY <1>1, <1>2, <2>1, FirstIndex
<1>5. /\ FindByExtensionTabId(reg, t) \in 0 .. Len(reg)
      /\ FindByExtensionTabId(reg, t) # 0 => FindByExtensionTabId(reg, t) \in J
  <2>1. J \in SUBSET (1 .. Len(reg))
    OBVIOUS
  <2> HIDE DEF J
  <2> QED BY <1>1, <1>3, <2>1, FirstIndex
<1> QED BY <1>4, <1>5

\* Removing an entry leaves a list of old entries.
LEMMA RemovedEntries ==
    ASSUME NEW reg \in Seq(Entry), NEW i \in 1 .. Len(reg)
    PROVE  /\ RemoveAt(reg, i) \in Seq(Entry)
           /\ \A j \in DOMAIN RemoveAt(reg, i) :
                \E k \in DOMAIN reg : RemoveAt(reg, i)[j] = reg[k]
<1> DEFINE a == SubSeq(reg, 1, i - 1)
           b == SubSeq(reg, i + 1, Len(reg))
<1>1. Len(reg) \in Nat /\ DOMAIN reg = 1 .. Len(reg) /\ \A k \in 1 .. Len(reg) : reg[k] \in Entry
  BY LenProperties, ElementOfSeq
<1>2. a \in Seq(Entry) /\ Len(a) = i - 1 /\ \A k \in 1 .. i - 1 : a[k] = reg[k]
  <2>1. \A k \in 1 .. i - 1 : reg[k] \in Entry
    BY <1>1
  <2> QED BY <1>1, <2>1, SubSeqProperties
<1>3. b \in Seq(Entry) /\ Len(b) = Len(reg) - i /\ \A k \in 1 .. Len(reg) - i : b[k] = reg[i + k]
  <2>1. \A k \in i + 1 .. Len(reg) : reg[k] \in Entry
    BY <1>1
  <2>2. /\ b \in Seq(Entry)
        /\ Len(b) = IF i + 1 <= Len(reg) THEN Len(reg) - (i + 1) + 1 ELSE 0
        /\ \A k \in 1 .. Len(reg) - (i + 1) + 1 : b[k] = reg[(i + 1) + k - 1]
    BY <1>1, <2>1, SubSeqProperties
  <2>3. /\ Len(reg) - (i + 1) + 1 = Len(reg) - i
        /\ \A k \in 1 .. Len(reg) - i : (i + 1) + k - 1 = i + k
    BY <1>1
  <2>4. Len(b) = Len(reg) - i
    <3>1. Len(b) = IF i + 1 <= Len(reg) THEN Len(reg) - (i + 1) + 1 ELSE 0
      BY <2>2
    <3>2. i \in Nat /\ i <= Len(reg) /\ Len(reg) \in Nat
      BY <1>1
    <3> HIDE DEF b
    <3> QED BY <3>1, <3>2
  <2>5. ASSUME NEW k \in 1 .. Len(reg) - i
        PROVE  b[k] = reg[i + k]
    <3>1. b[k] = reg[(i + 1) + k - 1] /\ (i + 1) + k - 1 = i + k
      BY <1>1, <2>2, <2>3
    <3> HIDE DEF b
    <3> QED BY <3>1
  <2> QED BY <2>2, <2>4, <2>5
<1>4. RemoveAt(reg, i) = a \o b
  BY DEF RemoveAt
<1> HIDE DEF a, b
<1>5. /\ a \o b \in Seq(Entry)
      /\ Len(a \o b) = Len(reg) - 1
      /\ \A j \in 1 .. Len(reg) - 1 : (a \o b)[j] = IF j <= i - 1 THEN a[j] ELSE b[j - (i - 1)]
  <2>1. /\ a \o b \in Seq(Entry)
        /\ Len(a \o b) = Len(a) + Len(b)
        /\ \A j \in 1 .. Len(a) + Len(b) : (a \o b)[j] = IF j <= Len(a) THEN a[j] ELSE b[j - Len(a)]
    BY <1>2, <1>3, ConcatProperties
  <2>2. Len(a) + Len(b) = Len(reg) - 1
    BY <1>1, <1>2, <1>3
  <2> QED BY <1>2, <2>1, <2>2
<1>6. ASSUME NEW j \in 1 .. Len(reg) - 1
      PROVE  \E k \in 1 .. Len(reg) : (a \o b)[j] = reg[k]
  <2>1. CASE j <= i - 1
    BY <1>1, <1>2, <1>5, <2>1
  <2>2. CASE ~(j <= i - 1)
    <3>1. j - (i - 1) \in 1 .. Len(reg) - i /\ i + (j - (i - 1)) \in 1 .. Len(reg)
      BY <1>1, <2>2
    <3> QED BY <1>3, <1>5, <2>2, <3>1
  <2> QED BY <2>1, <2>2
<1>7. DOMAIN (a \o b) = 1 .. Len(reg) - 1
  BY <1>5, LenProperties
<1> QED BY <1>1, <1>4, <1>5, <1>6, <1>7

\* SetToSeq lists the members of a finite set, and nothing else.
LEMMA Listing ==
    ASSUME NEW S, IsFiniteSet(S)
    PROVE  SetToSeq(S) \in Seq(S)
<1>1. Cardinality(S) \in Nat /\ ExistsBijection(1 .. Cardinality(S), S)
  BY FS_CardinalityType
<1>2. PICK f : f \in Bijection(1 .. Cardinality(S), S)
  BY <1>1 DEF ExistsBijection
<1>3. f \in [1 .. Cardinality(S) -> S] /\ IsInjective(f)
  BY <1>2 DEF Bijection, Injection, Surjection, IsInjective
<1>4. SetToSeq(S) \in [1 .. Cardinality(S) -> S]
  BY <1>3 DEF SetToSeq
<1> QED BY <1>1, <1>4, IsASeq

-----------------------------------------------------------------------------
\* Types.  Beside TypeOK's own conjuncts: what the steps of a call rely on.

ProxyRecord ==
    [delegate : Engines, position : Tabs \cup {NoTab}, meta : Urls \cup {NoUrl}]

\* One call: its phase, its kind and its URL go together.
CallOK(r) ==
    /\ r \in CallRecord
    /\ r.phase \in {"snapshot", "waiting"} => r.left > 0
    /\ r.left > 0 => r.kind \in {"script", "click", "shot"}
    /\ r.phase \in {"snapshot", "adopting"} => r.kind = "click"
    /\ r.strict => r.kind \in {"script", "shot"}
    /\ r.kind \notin {"none", "stop"} => r.url \in Urls
    /\ r.phase \notin {"idle", "done"} => r.kind # "none"
    /\ r.kind = "navigate" /\ r.phase = "running" => r.pos \in Tabs
    /\ r.via = "extension" => r.at = NoTab
    /\ r.kind = "newTab" => TabOf(r.url) \in Mine

CallsOK == call \in [Calls -> CallRecord] /\ \A c \in Calls : CallOK(call[c])

SafariOK ==
    /\ page \in [Tabs -> 0 .. MaxMoves + 1] /\ closed \subseteq Tabs /\ late \subseteq Urls

FlagsOK ==
    /\ engineBreaker \in EngineState /\ stopped \in BOOLEAN /\ extension \in BOOLEAN
    /\ asked \in BOOLEAN /\ total \in 0 .. MaxCalls

TypeInv ==
    FlagsOK /\ proxy \in ProxyRecord /\ registry \in Seq(Entry) /\ SafariOK /\ CallsOK

\* A step that changes one call has to answer for that call only.
LEMMA OneCall ==
    ASSUME CallsOK, NEW c, NEW r, c \in Calls => CallOK(r), call' = [call EXCEPT ![c] = r]
    PROVE  CallsOK'
<1>1. call' \in [Calls -> CallRecord]
  BY DEF CallsOK, CallOK
<1>2. ASSUME NEW d \in Calls PROVE CallOK(call'[d])
  <2>1. call'[d] = IF d = c THEN r ELSE call[d]
    BY DEF CallsOK
  <2> QED BY <2>1 DEF CallsOK
<1> QED BY <1>1, <1>2 DEF CallsOK, CallOK, CallRecord

LEMMA NoTabs == NoTab \notin Tabs /\ NoUrl \notin Urls /\ TabOf(NoUrl) = NoTab
BY PipelineAssumption DEF NoUrl, Urls, TabOf

LEMMA UrlParts ==
    ASSUME NEW u \in Urls
    PROVE  TabOf(u) \in Tabs /\ u = <<TabOf(u), u[2]>> /\ u[2] \in 1 .. MaxMoves + 1
BY DEF Urls, TabOf

\* What an open tab shows is a URL, its own.
LEMMA CurrentUrl ==
    ASSUME SafariOK, NEW t \in Tabs, page[t] > 0
    PROVE  Current(t) \in Urls /\ TabOf(Current(t)) = t
<1>1. page[t] \in 1 .. MaxMoves + 1
  BY PipelineAssumption DEF SafariOK
<1> QED BY <1>1 DEF Current, Urls, TabOf

LEMMA ShownUrls ==
    ASSUME SafariOK
    PROVE  Shown \subseteq Urls /\ \A u \in Shown : Open(TabOf(u)) /\ u = Current(TabOf(u))
<1>1. ASSUME NEW u \in Shown
      PROVE  u \in Urls /\ Open(TabOf(u)) /\ u = Current(TabOf(u))
  <2>1. PICK t \in Tabs : Open(t) /\ u = Current(t)
    BY DEF Shown
  <2>2. page[t] > 0
    BY <2>1 DEF Open
  <2> QED BY <2>1, <2>2, CurrentUrl
<1> QED BY <1>1

LEMMA NamedUrls == Named \subseteq Urls
BY DEF Named

\* A call that has been answered.
LEMMA AnsweredOK ==
    ASSUME NEW a \in Answers
    PROVE  CallOK([NoCall EXCEPT !.phase = "done", !.answer = a])
<1> DEFINE r == [NoCall EXCEPT !.phase = "done", !.answer = a]
<1>1. NoCall \in CallRecord
  BY DEF NoCall, CallRecord, Phases, Answers
<1>2. r \in CallRecord
  BY <1>1 DEF CallRecord, Phases
<1>3. r.phase = "done" /\ r.kind = "none" /\ ~r.strict /\ r.via = "none" /\ r.left = 0
  BY DEF NoCall
<1> QED BY <1>2, <1>3 DEF CallOK

LEMMA AnswerCalls ==
    ASSUME CallsOK, NEW c, NEW a \in Answers, Answer(c, a)
    PROVE  CallsOK'
<1> DEFINE r == [NoCall EXCEPT !.phase = "done", !.answer = a]
<1>1. CallOK(r)
  BY AnsweredOK
<1>2. call' = [call EXCEPT ![c] = r]
  BY DEF Answer
<1> HIDE DEF r
<1> QED BY <1>1, <1>2, OneCall

\* A call that is issued to an engine through the proxy.
LEMMA IssuedOK ==
    ASSUME NEW r, CallOK(r), r.left > 0, r.phase \notin {"idle", "done"}, NEW p \in ProxyRecord
    PROVE  CallOK(Issue(r, p))
<1> DEFINE q == Issue(r, p)
           at == IF p.delegate = "applescript" THEN p.position ELSE NoTab
<1>1. r \in CallRecord /\ at \in Tabs \cup {NoTab} /\ p.delegate \in Engines
  BY DEF CallOK, ProxyRecord
<1>2. q = [r EXCEPT !.phase = "waiting", !.via = p.delegate, !.at = at]
  BY DEF Issue
<1> HIDE DEF at, q
<1>3. q \in CallRecord
  BY <1>1, <1>2 DEF CallRecord, Phases, Engines
<1>4. /\ q.phase = "waiting" /\ q.left = r.left /\ q.strict = r.strict /\ q.kind = r.kind
      /\ q.url = r.url /\ q.via = p.delegate /\ q.at = at
  BY <1>1, <1>2 DEF CallRecord
<1>5. p.delegate = "extension" => at = NoTab
  BY DEF at
<1>6. CallOK(q)
  BY <1>3, <1>4, <1>5 DEF CallOK
<1> QED BY <1>6 DEF q

-----------------------------------------------------------------------------
\* The registry's operations keep it a list of entries.

LEMMA UpdateUrlType ==
    ASSUME NEW reg \in Seq(Entry), NEW i \in 0 .. Len(reg), NEW url \in Urls
    PROVE  UpdateUrl(reg, i, url) \in Seq(Entry)
<1>1. CASE i = 0
  BY <1>1 DEF UpdateUrl
<1>2. CASE i # 0
  <2>1. i \in 1 .. Len(reg) /\ reg[i] \in Entry
    BY <1>2, LenProperties, ElementOfSeq
  <2>2. [reg[i] EXCEPT !.url = url] \in Entry
    BY <2>1 DEF Entry
  <2>3. UpdateUrl(reg, i, url) = [reg EXCEPT ![i] = [reg[i] EXCEPT !.url = url]]
    BY <1>2 DEF UpdateUrl
  <2> QED BY <2>1, <2>2, <2>3, ExceptSeq
<1> QED BY <1>1, <1>2

LEMMA SetIdType ==
    ASSUME NEW reg \in Seq(Entry), NEW i \in 0 .. Len(reg), NEW t \in Tabs \cup {NoTab}
    PROVE  SetExtensionTabId(reg, i, t) \in Seq(Entry)
<1>1. CASE i = 0 \/ reg[i].ext # NoTab
  BY <1>1 DEF SetExtensionTabId
<1>2. CASE ~(i = 0 \/ reg[i].ext # NoTab)
  <2>1. i \in 1 .. Len(reg) /\ reg[i] \in Entry
    BY <1>2, LenProperties, ElementOfSeq
  <2>2. [reg[i] EXCEPT !.ext = t] \in Entry
    BY <2>1 DEF Entry
  <2>3. SetExtensionTabId(reg, i, t) = [reg EXCEPT ![i] = [reg[i] EXCEPT !.ext = t]]
    BY <1>2 DEF SetExtensionTabId
  <2> QED BY <2>1, <2>2, <2>3, ExceptSeq
<1> QED BY <1>1, <1>2

LEMMA RegisterType ==
    ASSUME NEW reg \in Seq(Entry), NEW url \in Urls
    PROVE  RegisterTab(reg, url) \in Seq(Entry)
<1>1. [tab |-> TabOf(url), url |-> url, ext |-> NoTab] \in Entry
  BY UrlParts DEF Entry
<1> QED BY <1>1, AppendProperties DEF RegisterTab

LEMMA RefreshedType ==
    ASSUME NEW reg \in Seq(Entry), NEW r, NEW meta \in Urls \cup {NoUrl}
    PROVE  Refreshed(reg, r, meta) \in Seq(Entry)
<1>1. CASE meta = NoUrl
  BY <1>1 DEF Refreshed
<1>2. CASE meta # NoUrl
  <2> DEFINE filled == Backfill(reg, r, meta)
             j == FindByExtensionTabId(filled, TabOf(meta))
  <2>1. meta \in Urls /\ TabOf(meta) \in Tabs
    BY <1>2, UrlParts
  <2>2. FindByUrl(reg, r.url) \in 0 .. Len(reg)
    BY Found
  <2>3. filled \in Seq(Entry)
    BY <2>1, <2>2, SetIdType DEF Backfill
  <2>4. Refreshed(reg, r, meta) = UpdateUrl(filled, j, meta)
    BY <1>2 DEF Refreshed
  <2> HIDE DEF filled
  <2>5. j \in 0 .. Len(filled)
    BY <2>3, Found
  <2> HIDE DEF j
  <2> QED BY <2>1, <2>3, <2>4, <2>5, UpdateUrlType
<1> QED BY <1>1, <1>2

\* The entries a click adopts, for a set of URLs.
Adopted(S) ==
    LET new == SetToSeq(S)
    IN [i \in DOMAIN new |-> [tab |-> TabOf(new[i]), url |-> new[i], ext |-> NoTab]]

LEMMA AdoptedEntries ==
    ASSUME NEW S \in SUBSET Urls, IsFiniteSet(S)
    PROVE  /\ Adopted(S) \in Seq(Entry)
           /\ \A i \in DOMAIN Adopted(S) :
                \E u \in S : Adopted(S)[i] = [tab |-> TabOf(u), url |-> u, ext |-> NoTab]
<1> DEFINE new == SetToSeq(S)
           n == Len(new)
<1>1. n \in Nat /\ DOMAIN new = 1 .. n /\ \A i \in 1 .. n : new[i] \in S
  BY Listing, LenProperties, ElementOfSeq
<1>2. Adopted(S) = [i \in 1 .. n |-> [tab |-> TabOf(new[i]), url |-> new[i], ext |-> NoTab]]
  BY <1>1 DEF Adopted
<1> HIDE DEF new, n
<1>3. \A i \in 1 .. n : [tab |-> TabOf(new[i]), url |-> new[i], ext |-> NoTab] \in Entry
  BY <1>1, UrlParts DEF Entry
<1>4. Adopted(S) \in Seq(Entry)
  BY <1>1, <1>2, <1>3, IsASeq
<1> QED BY <1>1, <1>2, <1>4

LEMMA FiniteTabs == IsFiniteSet(Tabs)
BY PipelineAssumption, FS_Union DEF Tabs

LEMMA FiniteShown == IsFiniteSet(Shown)
<1> DEFINE O == {u \in Tabs : Open(u)}
           f == [t \in O |-> Current(t)]
<1>1. O \in SUBSET Tabs
  OBVIOUS
<1>2. IsFiniteSet(O)
  <2> HIDE DEF O
  <2> QED BY <1>1, FiniteTabs, FS_Subset
<1>3. f \in [O -> Shown] /\ \A u \in Shown : \E t \in O : f[t] = u
  BY DEF Shown
<1>4. f \in Surjection(O, Shown)
  BY <1>3 DEF Surjection
<1> QED BY <1>2, <1>4, FS_Surjection

-----------------------------------------------------------------------------
\* Every step keeps the types.

\* Looking up a call's entry, in the registry as it is.
LEMMA Lookup ==
    ASSUME TypeInv, NEW url, NEW i, i = FindByUrl(registry, url)
    PROVE  i \in 0 .. Len(registry) /\ (i # 0 => i \in 1 .. Len(registry) /\ registry[i] \in Entry)
<1>1. i \in 0 .. Len(registry)
  BY Found DEF TypeInv
<1>2. i # 0 => i \in 1 .. Len(registry)
  BY <1>1, LenProperties DEF TypeInv
<1> QED BY <1>1, <1>2, ElementOfSeq DEF TypeInv

LEMMA ProxyForOK ==
    ASSUME NEW e \in Engines, NEW pos \in Tabs \cup {NoTab}
    PROVE  ProxyFor(e, pos) \in ProxyRecord
BY DEF ProxyFor, ProxyRecord

LEMMA SelectEngineType ==
    ASSUME NEW r, NEW ext
    PROVE  /\ SelectEngine(r, ext) \in Engines \cup {"none"}
           /\ ~r.strict /\ r.kind \in {"navigate", "closeTab", "newTab"} =>
                SelectEngine(r, ext) = "applescript"
BY DEF SelectEngine, Engines

\* The call that goes on to its handler, and its fields.
Dispatched(x, ph, e, n, pos, u, h) ==
    [x EXCEPT !.phase = ph, !.engine = e, !.left = n, !.pos = pos, !.deferred = u, !.probe = h]

LEMMA DispatchedType ==
    ASSUME NEW x \in CallRecord, NEW ph \in {"snapshot", "running"}, NEW e \in Engines,
           NEW n \in 0 .. 2, NEW pos \in Tabs \cup {NoTab}, NEW u \in BOOLEAN, NEW h \in BOOLEAN
    PROVE  Dispatched(x, ph, e, n, pos, u, h) \in CallRecord
<1> DEFINE r == Dispatched(x, ph, e, n, pos, u, h)
<1>1. PICK r1 : r1 = [x EXCEPT !.phase = ph, !.engine = e, !.left = n]
  OBVIOUS
<1>2. r1 \in CallRecord
  BY <1>1 DEF CallRecord, Phases
<1>3. r = [r1 EXCEPT !.pos = pos, !.deferred = u, !.probe = h]
  BY <1>1 DEF CallRecord, Dispatched
<1> QED BY <1>2, <1>3 DEF CallRecord

LEMMA DispatchedFields ==
    ASSUME NEW x \in CallRecord, NEW ph, NEW e, NEW n, NEW pos, NEW u, NEW h
    PROVE  LET r == Dispatched(x, ph, e, n, pos, u, h)
           IN  /\ r.phase = ph /\ r.engine = e /\ r.left = n /\ r.pos = pos /\ r.deferred = u
               /\ r.kind = x.kind /\ r.strict = x.strict /\ r.url = x.url /\ r.via = x.via
               /\ r.at = x.at /\ r.ran = x.ran /\ r.seen = x.seen /\ r.answer = x.answer
<1> DEFINE r == Dispatched(x, ph, e, n, pos, u, h)
<1>1. r.phase = ph /\ r.engine = e /\ r.left = n /\ r.pos = pos /\ r.deferred = u
  BY DEF CallRecord, Dispatched
<1>2. r.kind = x.kind /\ r.strict = x.strict /\ r.url = x.url /\ r.via = x.via
  BY DEF CallRecord, Dispatched
<1>3. r.at = x.at /\ r.ran = x.ran /\ r.seen = x.seen /\ r.answer = x.answer
  BY DEF CallRecord, Dispatched
<1> QED BY <1>1, <1>2, <1>3

\* Where a call's tab is, as the registry says.
PositionOf(c) ==
    LET i == FindByUrl(registry, call[c].url)
    IN IF i = 0 \/ SkipsOwnership(call[c].kind) THEN NoTab ELSE registry[i].tab

\* What is kept of a call, and what it is given, on its way to its handler.
KeptOnTheWay(x, r) ==
    /\ x.kind = r.kind /\ x.strict = r.strict /\ x.url = r.url /\ x.via = r.via
    /\ x.at = r.at /\ x.seen = r.seen /\ x.ran = r.ran /\ x.answer = r.answer
    /\ x.phase = IF r.kind = "click" THEN "snapshot" ELSE "running"
    /\ x.left \in 0 .. 2 /\ (x.left > 0 <=> r.kind \in {"script", "click", "shot"})

GivenOnTheWay(c, x, ext) ==
    /\ x.engine \in Engines /\ x.engine = SelectEngine(call[c], ext)
    /\ Unrecognized(c) => x.engine = "extension"
    /\ x.deferred = Unrecognized(c) /\ x.pos = PositionOf(c)
    /\ proxy' = ProxyFor(x.engine, x.pos) /\ proxy' \in ProxyRecord
    /\ call' = [call EXCEPT ![c] = IF Proxied(x.kind) THEN Issue(x, proxy') ELSE x]

LEMMA DispatchFields ==
    ASSUME TypeInv, NEW c \in Calls, NEW ext, Dispatch(c, ext)
    PROVE  \E x \in CallRecord : KeptOnTheWay(x, call[c]) /\ GivenOnTheWay(c, x, ext)
<1> DEFINE e == SelectEngine(call[c], ext)
           i == FindByUrl(registry, call[c].url)
           pos == IF i = 0 \/ SkipsOwnership(call[c].kind) THEN NoTab ELSE registry[i].tab
           steps == CASE call[c].kind \in {"script", "click"} -> {1, 2}
                      [] call[c].kind = "shot" -> {1}
                      [] OTHER -> {0}
           ph == IF call[c].kind = "click" THEN "snapshot" ELSE "running"
           u == Unrecognized(c)
           h == HalfOpen(circuit[DomainOfCall(c)])
           x(n) == Dispatched(call[c], ph, e, n, pos, u, h)
<1>1. PICK n \in steps :
        /\ e # "none"
        /\ Unrecognized(c) => e = "extension"
        /\ proxy' = ProxyFor(e, pos)
        /\ call' = [call EXCEPT ![c] =
                      IF Proxied(x(n).kind) THEN Issue(x(n), ProxyFor(e, pos)) ELSE x(n)]
  BY DEF Dispatch, Dispatched
<1>2. call[c] \in CallRecord
  BY DEF TypeInv, CallsOK
<1>3. e \in Engines
  BY <1>1, SelectEngineType
<1>4. pos \in Tabs \cup {NoTab}
  BY Lookup DEF Entry
<1>5. n \in 0 .. 2 /\ (n > 0 <=> call[c].kind \in {"script", "click", "shot"})
  BY <1>1
<1>6. u \in BOOLEAN /\ h \in BOOLEAN /\ ph \in {"snapshot", "running"}
  BY DEF Unrecognized, HalfOpen
<1>7. ProxyFor(e, pos) \in ProxyRecord
  BY <1>3, <1>4, ProxyForOK
<1>8. PICK z : z = Dispatched(call[c], ph, e, n, pos, u, h)
  OBVIOUS
<1>9. call' = [call EXCEPT ![c] = IF Proxied(z.kind) THEN Issue(z, proxy') ELSE z]
  BY <1>1, <1>8
<1> HIDE DEF e, i, pos, steps, u, h, ph, x
<1>10. z \in CallRecord
  BY <1>2, <1>3, <1>4, <1>5, <1>6, <1>8, DispatchedType
<1>11. /\ z.phase = ph /\ z.engine = e /\ z.left = n /\ z.pos = pos /\ z.deferred = u
       /\ z.kind = call[c].kind /\ z.strict = call[c].strict /\ z.url = call[c].url
       /\ z.via = call[c].via /\ z.at = call[c].at /\ z.ran = call[c].ran
       /\ z.seen = call[c].seen /\ z.answer = call[c].answer
  BY <1>2, <1>8, DispatchedFields
<1>12. KeptOnTheWay(z, call[c])
  BY <1>5, <1>11 DEF KeptOnTheWay, ph
<1>13. GivenOnTheWay(c, z, ext)
  <2>1. z.engine = e /\ z.pos = pos /\ z.deferred = u
    BY <1>11
  <2>2. pos = PositionOf(c)
    BY DEF PositionOf, pos, i
  <2>3. z.engine \in Engines /\ proxy' = ProxyFor(z.engine, z.pos) /\ proxy' \in ProxyRecord
    BY <1>1, <1>3, <1>7, <2>1
  <2>4. z.engine = SelectEngine(call[c], ext) /\ z.deferred = Unrecognized(c)
    BY <2>1 DEF e, u
  <2>5. Unrecognized(c) => z.engine = "extension"
    BY <1>1, <2>1
  <2> QED BY <1>9, <2>1, <2>2, <2>3, <2>4, <2>5 DEF GivenOnTheWay
<1> QED BY <1>10, <1>12, <1>13

\* Where the gates send a call that goes on to its handler.
LEMMA DispatchOK ==
    ASSUME TypeInv, NEW c \in Calls, call[c].phase \in {"received", "registering"},
           NEW ext, Dispatch(c, ext)
    PROVE  CallsOK' /\ proxy' \in ProxyRecord
<1>1. PICK x \in CallRecord : KeptOnTheWay(x, call[c]) /\ GivenOnTheWay(c, x, ext)
  BY DispatchFields
<1>2. CallOK(call[c])
  BY DEF TypeInv, CallsOK
<1>3. call[c].kind = "navigate" => x.pos \in Tabs
  <2> DEFINE i == FindByUrl(registry, call[c].url)
  <2>1. SUFFICES ASSUME call[c].kind = "navigate" PROVE x.pos \in Tabs
    OBVIOUS
  <2>2. ~call[c].strict
    BY <1>2, <2>1 DEF CallOK, CallRecord
  <2>3. x.engine = "applescript"
    BY <1>1, <2>1, <2>2, SelectEngineType DEF GivenOnTheWay
  <2>4. i # 0 /\ ~SkipsOwnership(call[c].kind)
    BY <1>1, <2>1, <2>3 DEF GivenOnTheWay, Unrecognized, SkipsOwnership
  <2> QED BY <1>1, <2>4, Lookup DEF GivenOnTheWay, PositionOf, Entry
<1>4. CallOK(x)
  BY <1>1, <1>2, <1>3 DEF CallOK, KeptOnTheWay
<1>5. Proxied(x.kind) => CallOK(Issue(x, proxy'))
  <2>1. Proxied(x.kind) => x.left > 0 /\ x.phase = "running"
    BY <1>1 DEF Proxied, KeptOnTheWay
  <2> QED BY <1>1, <1>4, <2>1, IssuedOK DEF GivenOnTheWay
<1> DEFINE y == IF Proxied(x.kind) THEN Issue(x, proxy') ELSE x
<1>6. CallOK(y) /\ call' = [call EXCEPT ![c] = y] /\ proxy' \in ProxyRecord
  BY <1>1, <1>4, <1>5 DEF GivenOnTheWay
<1> HIDE DEF y
<1> QED BY <1>6, OneCall DEF TypeInv

LEMMA GatesOK ==
    ASSUME TypeInv, NEW c \in Calls, call[c].phase \in {"received", "registering"},
           NEW ext \in BOOLEAN, Gates(c, ext)
    PROVE  TypeInv'
<1>1. UNCHANGED <<registry, tabVars, late, total>> /\ extension' = ext
  BY DEF Gates
<1>2. /\ registry' \in Seq(Entry) /\ SafariOK' /\ extension' \in BOOLEAN /\ total' \in 0 .. MaxCalls
  BY <1>1 DEF TypeInv, SafariOK, FlagsOK, tabVars
<1>3. CASE Refuse(c)
  <2>1. CallsOK'
    BY <1>3, AnswerCalls DEF Refuse, TypeInv, Answers
  <2> QED BY <1>2, <1>3, <2>1 DEF Refuse, breakerVars, killVars, TypeInv, FlagsOK
<1>4. CASE LetIn(c, ext)
  <2>1. engineBreaker' \in EngineState
    BY <1>4, BreakerAssumption DEF LetIn, EngineRead, EngineFresh, EngineState, TypeInv, FlagsOK
  <2>2. stopped' \in BOOLEAN /\ asked' \in BOOLEAN
    BY <1>4 DEF LetIn, NoEngine, NotRecognized, Dispatch, killVars, TypeInv, FlagsOK
  <2>3. CallsOK' /\ proxy' \in ProxyRecord
    <3>1. CASE NoEngine(c, ext)
      BY <3>1, AnswerCalls DEF NoEngine, TypeInv, Answers
    <3>2. CASE NotRecognized(c, ext)
      BY <3>2, AnswerCalls, ProxyForOK DEF NotRecognized, TypeInv, Answers, Engines
    <3>3. CASE Dispatch(c, ext)
      BY <3>3, DispatchOK
    <3> QED BY <1>4, <3>1, <3>2, <3>3 DEF LetIn
  <2> QED BY <1>2, <2>1, <2>2, <2>3 DEF TypeInv, FlagsOK
<1> QED BY <1>3, <1>4 DEF Gates

\* A call whose phase alone changes.
LEMMA PhaseOK ==
    ASSUME NEW x, CallOK(x), x.phase \notin {"idle", "done"},
           NEW ph \in {"recovering", "registering", "adopting"},
           ph = "adopting" => x.kind = "click"
    PROVE  CallOK([x EXCEPT !.phase = ph])
<1> DEFINE r == [x EXCEPT !.phase = ph]
<1>1. x \in CallRecord
  BY DEF CallOK
<1>2. r \in CallRecord
  BY <1>1 DEF CallRecord, Phases
<1>3. /\ r.phase = ph /\ r.kind = x.kind /\ r.strict = x.strict /\ r.url = x.url /\ r.left = x.left
      /\ r.via = x.via /\ r.at = x.at
  BY <1>1 DEF CallRecord
<1> HIDE DEF r
<1>4. CallOK(r)
  BY <1>2, <1>3 DEF CallOK
<1> QED BY <1>4 DEF r

\* A call received.
Received(kind, url, strict) ==
    [NoCall EXCEPT !.phase = "received", !.kind = kind, !.url = url, !.strict = strict]

LEMMA ReceivedOK ==
    ASSUME NEW kind \in Kinds, NEW url \in RequestUrls(kind), NEW strict \in Strictness(kind)
    PROVE  CallOK(Received(kind, url, strict))
<1> DEFINE r == Received(kind, url, strict)
<1>1. NoCall \in CallRecord
  BY DEF NoCall, CallRecord, Phases, Answers
<1>2. kind \in AllKinds /\ strict \in BOOLEAN /\ (strict => kind \in {"script", "shot"})
  BY PipelineAssumption DEF Strictness
<1>3. /\ kind = "stop" => url = NoUrl
      /\ kind # "stop" => url \in Urls
      /\ kind = "newTab" => TabOf(url) \in Mine
  <2>1. CASE kind = "stop"
    BY <2>1 DEF RequestUrls
  <2>2. CASE kind = "newTab"
    <3>1. PICK t \in ToOpen : url = <<t, 1>>
      BY <2>2 DEF RequestUrls
    <3>2. t \in Mine /\ 1 \in 1 .. MaxMoves + 1
      BY <3>1, PipelineAssumption DEF ToOpen
    <3> QED BY <2>2, <3>1, <3>2 DEF Urls, Tabs, TabOf
  <2>3. CASE kind \notin {"stop", "newTab"}
    BY <2>3, NamedUrls DEF RequestUrls
  <2> QED BY <2>1, <2>2, <2>3
<1>4. r \in CallRecord
  BY <1>1, <1>2, <1>3 DEF CallRecord, Phases, Received
<1>5. r.phase = "received" /\ r.kind = kind /\ r.url = url /\ r.strict = strict /\ r.via = "none"
      /\ r.left = 0
  BY DEF NoCall, Received
<1>6. kind # "none"
  BY <1>2 DEF AllKinds
<1> HIDE DEF r
<1>7. CallOK(r)
  BY <1>2, <1>3, <1>4, <1>5, <1>6 DEF CallOK
<1> QED BY <1>7 DEF r

\* A call whose engine has answered, or that has given up on it.
Answered(x, left, ran) ==
    [x EXCEPT !.phase = "running", !.left = left, !.via = "none", !.at = NoTab, !.ran = ran]

LEMMA AnsweredRecord ==
    ASSUME NEW x \in CallRecord, NEW left \in 0 .. 2, NEW ran \in SUBSET Tabs
    PROVE  LET r == Answered(x, left, ran)
           IN  /\ r \in CallRecord /\ r.kind = x.kind /\ r.strict = x.strict /\ r.url = x.url
               /\ r.phase = "running" /\ r.left = left /\ r.via = "none" /\ r.at = NoTab
               /\ r.pos = x.pos /\ r.engine = x.engine /\ r.ran = ran
               /\ r.deferred = x.deferred /\ r.seen = x.seen /\ r.answer = x.answer
<1> DEFINE r == Answered(x, left, ran)
<1>1. PICK r1 : r1 = [x EXCEPT !.phase = "running", !.left = left, !.via = "none"]
  OBVIOUS
<1>2. r1 \in CallRecord
  BY <1>1 DEF CallRecord, Phases
<1>3. r = [r1 EXCEPT !.at = NoTab, !.ran = ran]
  BY <1>1 DEF CallRecord, Answered
<1>4. r \in CallRecord
  BY <1>2, <1>3 DEF CallRecord
<1>5. /\ r.kind = x.kind /\ r.strict = x.strict /\ r.url = x.url
      /\ r.phase = "running" /\ r.left = left /\ r.via = "none" /\ r.at = NoTab
  BY DEF CallRecord, Answered
<1>6. /\ r.pos = x.pos /\ r.engine = x.engine /\ r.ran = ran
      /\ r.deferred = x.deferred /\ r.seen = x.seen /\ r.answer = x.answer
  BY DEF CallRecord, Answered
<1> QED BY <1>4, <1>5, <1>6

LEMMA AnsweredCallOK ==
    ASSUME NEW x, CallOK(x), x.phase = "waiting", NEW left \in 0 .. 2, NEW ran \in SUBSET Tabs
    PROVE  CallOK(Answered(x, left, ran))
<1> DEFINE r == Answered(x, left, ran)
<1>1. x \in CallRecord
  BY DEF CallOK
<1>2. /\ r \in CallRecord /\ r.kind = x.kind /\ r.strict = x.strict /\ r.url = x.url
      /\ r.phase = "running" /\ r.left = left /\ r.via = "none" /\ r.at = NoTab
  BY <1>1, AnsweredRecord
<1> HIDE DEF r
<1>3. CallOK(r)
  BY <1>2 DEF CallOK
<1> QED BY <1>3 DEF r

\* A script only runs in open tabs of Safari.
LEMMA TargetTabs ==
    ASSUME SafariOK, NEW r \in CallRecord
    PROVE  /\ Target(r) \in SUBSET Tabs
           /\ r.at = NoTab => \A t \in Target(r) : page[t] > 0 /\ r.url \in Urls /\ t = TabOf(r.url)
<1>1. r.at \in Tabs \cup {NoTab}
  BY DEF CallRecord
<1>2. ASSUME NEW u \in Shown
      PROVE  TabOf(u) \in Tabs /\ page[TabOf(u)] > 0 /\ u \in Urls
  BY ShownUrls, UrlParts DEF Open
<1> QED BY <1>1, <1>2 DEF Target

LEMMA MetaOK ==
    ASSUME SafariOK, proxy \in ProxyRecord, NEW via, NEW T \in SUBSET Tabs,
           via = "extension" => \A t \in T : page[t] > 0,
           NEW meta \in Meta(via, T)
    PROVE  meta \in Urls \cup {NoUrl} /\ [proxy EXCEPT !.meta = meta] \in ProxyRecord
<1>1. meta \in Urls \cup {NoUrl}
  BY CurrentUrl DEF Meta
<1> QED BY <1>1 DEF ProxyRecord

LEMMA CaughtType ==
    ASSUME FlagsOK, NEW c, NEW e, NEW s, Caught(c, e, s)
    PROVE  engineBreaker' \in EngineState /\ stopped' \in BOOLEAN /\ asked' \in BOOLEAN
<1>1. stopped' \in BOOLEAN /\ asked' \in BOOLEAN
  BY DEF Caught, RecordError, FlagsOK
<1>2. ASSUME NEW b \in EngineState, NEW b2 \in RecordEngineFailure(b)
      PROVE  b2 \in EngineState
  <2>1. PICK k \in 0 .. b.errors :
          b2 = [errors |-> Min({k + 1, EngineErrorThreshold}),
                tripped |-> IF Min({k + 1, EngineErrorThreshold}) = EngineErrorThreshold
                            THEN "yes" ELSE b.tripped]
    BY <1>2 DEF RecordEngineFailure
  <2>2. EngineErrorThreshold \in Nat /\ b.errors \in 0 .. EngineErrorThreshold
    BY BreakerAssumption DEF EngineState
  <2>3. k + 1 \in Nat
    BY <2>2
  <2>4. Min({k + 1, EngineErrorThreshold}) \in 0 .. EngineErrorThreshold
    BY <2>2, <2>3, MinOfTwo
  <2>5. b.tripped \in {"no", "yes", "elapsed"}
    BY DEF EngineState
  <2> QED BY <2>1, <2>4, <2>5 DEF EngineState
<1>3. engineBreaker' \in EngineState
  BY <1>2 DEF Caught, FlagsOK
<1> QED BY <1>1, <1>3

\* The registry and Safari after a handler returns.
LEMMA AfterTypes ==
    ASSUME TypeInv, NEW r, CallOK(r), r.phase = "running",
           NEW after \in RegistriesAfter(r), SafariAfter(r)
    PROVE  after \in Seq(Entry) /\ page' \in [Tabs -> 0 .. MaxMoves + 1] /\ closed' \subseteq Tabs
<1>1. /\ registry \in Seq(Entry) /\ page \in [Tabs -> 0 .. MaxMoves + 1] /\ closed \subseteq Tabs
      /\ SafariOK
  BY DEF TypeInv, SafariOK
<1>2. 1 \in 0 .. MaxMoves + 1
  BY PipelineAssumption
<1>3. CASE r.kind = "navigate"
  <2>1. r.url \in Urls /\ r.pos \in Tabs
    BY <1>3 DEF CallOK
  <2>2. PICK v \in 1 .. page[r.pos] :
          after = UpdateUrl(registry, FindByUrl(registry, r.url), <<r.pos, v>>)
    BY <1>3 DEF RegistriesAfter
  <2>3. <<r.pos, v>> \in Urls
    BY <1>1, <2>1, <2>2, PipelineAssumption DEF Urls
  <2>4. after \in Seq(Entry)
    BY <1>1, <2>2, <2>3, Found, UpdateUrlType
  <2> QED BY <1>1, <1>3, <2>4 DEF SafariAfter, tabVars
<1>4. CASE r.kind = "newTab"
  <2>1. r.url \in Urls
    BY <1>4 DEF CallOK
  <2>2. after \in Seq(Entry)
    BY <1>1, <1>4, <2>1, RegisterType DEF RegistriesAfter
  <2> QED BY <1>1, <1>2, <1>4, <2>2 DEF SafariAfter
<1>5. CASE r.kind = "closeTab" /\ r.url \in Shown
  <2>1. TabOf(r.url) \in Tabs
    BY <1>1, <1>5, ShownUrls, UrlParts
  <2>2. after = RemoveTab(registry, FindByUrl(registry, r.url))
    BY <1>5 DEF RegistriesAfter
  <2>3. after \in Seq(Entry)
    BY <1>1, <2>2, Lookup, RemovedEntries DEF RemoveTab
  <2> QED BY <1>1, <1>5, <2>1, <2>3 DEF SafariAfter
<1>6. CASE ~(r.kind \in {"navigate", "newTab"} \/ (r.kind = "closeTab" /\ r.url \in Shown))
  BY <1>1, <1>6 DEF RegistriesAfter, SafariAfter, tabVars
<1> QED BY <1>3, <1>4, <1>5, <1>6

LEMMA TypeInit == Init => TypeInv
<1> SUFFICES ASSUME Init PROVE TypeInv
  OBVIOUS
<1>1. FlagsOK
  <2>1. engineBreaker \in EngineState
    BY BreakerAssumption DEF Init, EngineState, EngineFresh
  <2>2. total \in 0 .. MaxCalls
    BY PipelineAssumption DEF Init
  <2> QED BY <2>1, <2>2 DEF Init, FlagsOK
<1>2. proxy \in ProxyRecord /\ registry \in Seq(Entry)
  BY EmptySeq DEF Init, ProxyRecord, Engines
<1>3. SafariOK
  BY PipelineAssumption DEF Init, SafariOK
<1>4. CallOK(NoCall)
  <2>1. NoCall \in CallRecord
    BY DEF NoCall, CallRecord, Phases, Answers
  <2>2. /\ NoCall.phase = "idle" /\ NoCall.kind = "none" /\ ~NoCall.strict /\ NoCall.left = 0
        /\ NoCall.via = "none"
    BY DEF NoCall
  <2> QED BY <2>1, <2>2 DEF CallOK
<1>5. CallsOK
  BY <1>4 DEF Init, CallsOK, CallOK
<1> QED BY <1>1, <1>2, <1>3, <1>5 DEF TypeInv

LEMMA TypeNext == TypeInv /\ [Next]_pipelineVars => TypeInv'
<1> SUFFICES ASSUME TypeInv, [Next]_pipelineVars PROVE TypeInv'
  OBVIOUS
<1> USE DEF tabVars
<1>0. /\ FlagsOK /\ proxy \in ProxyRecord /\ registry \in Seq(Entry) /\ SafariOK /\ CallsOK
      /\ \A c \in Calls : CallOK(call[c]) /\ call[c] \in CallRecord
  BY DEF TypeInv, CallsOK, CallOK
<1>1. ASSUME NEW c \in Calls, Receive(c) PROVE TypeInv'
  <2>1. PICK kind \in Kinds : \E url \in RequestUrls(kind) : \E strict \in Strictness(kind) :
          call' = [call EXCEPT ![c] = Received(kind, url, strict)]
    BY <1>1 DEF Receive, Received
  <2>2. PICK url \in RequestUrls(kind), strict \in Strictness(kind) :
          call' = [call EXCEPT ![c] = Received(kind, url, strict)]
    BY <2>1
  <2>3. CallsOK'
    BY <1>0, <2>2, ReceivedOK, OneCall
  <2>4. total' \in 0 .. MaxCalls
    BY <1>0, <1>1, PipelineAssumption DEF Receive, FlagsOK
  <2> QED BY <1>0, <1>1, <2>3, <2>4 DEF Receive, TypeInv, FlagsOK, SafariOK, breakerVars, killVars
<1>2. ASSUME NEW c \in Calls, CallStep(c) PROVE TypeInv'
  <2>1. CASE HealthCheck(c)
    <3>1. PICK ext \in BOOLEAN, window \in BOOLEAN :
            \/ Gates(c, ext)
            \/ \E ph \in {"recovering", "registering"} :
                 /\ call' = [call EXCEPT ![c] = [call[c] EXCEPT !.phase = ph]]
                 /\ extension' = ext
                 /\ UNCHANGED <<breakerVars, killVars, proxy, registry, tabVars, late, total>>
      BY <2>1 DEF HealthCheck
    <3>2. CASE Gates(c, ext)
      BY <2>1, <3>2, GatesOK DEF HealthCheck
    <3>3. ASSUME NEW ph \in {"recovering", "registering"},
                 call' = [call EXCEPT ![c] = [call[c] EXCEPT !.phase = ph]],
                 extension' = ext,
                 UNCHANGED <<breakerVars, killVars, proxy, registry, tabVars, late, total>>
          PROVE  TypeInv'
      <4>1. CallOK([call[c] EXCEPT !.phase = ph])
        BY <1>0, <2>1, PhaseOK DEF HealthCheck
      <4>2. CallsOK'
        BY <1>0, <3>3, <4>1, OneCall
      <4> QED BY <1>0, <3>3, <4>2 DEF TypeInv, FlagsOK, SafariOK, breakerVars, killVars
    <3> QED BY <3>1, <3>2, <3>3
  <2>2. CASE Recover(c)
    <3>1. CallOK([call[c] EXCEPT !.phase = "registering"])
      BY <1>0, <2>2, PhaseOK DEF Recover
    <3>2. CallsOK'
      BY <1>0, <2>2, <3>1, OneCall DEF Recover
    <3> QED BY <1>0, <2>2, <3>2 DEF Recover, TypeInv, FlagsOK, SafariOK, breakerVars, killVars
  <2>3. CASE RecoveryFails(c)
    <3>1. CallsOK'
      BY <1>0, <2>3, AnswerCalls DEF RecoveryFails, Answers
    <3> QED BY <1>0, <2>3, <3>1 DEF RecoveryFails, TypeInv, FlagsOK, SafariOK, breakerVars, killVars
  <2>4. CASE Registered(c)
    BY <1>0, <2>4, GatesOK DEF Registered, FlagsOK
  <2>5. CASE Snapshot(c)
    <3>1. PICK seen \in Listed :
            call' = [call EXCEPT ![c] = Issue([call[c] EXCEPT !.seen = seen], proxy)]
      BY <2>5 DEF Snapshot
    <3> DEFINE x == [call[c] EXCEPT !.seen = seen]
    <3>2. seen \in SUBSET Urls
      BY <1>0, ShownUrls DEF Listed
    <3>3. x \in CallRecord
      BY <1>0, <3>2 DEF CallRecord
    <3>4. /\ x.phase = "snapshot" /\ x.kind = call[c].kind /\ x.strict = call[c].strict
          /\ x.url = call[c].url /\ x.left = call[c].left /\ x.via = call[c].via /\ x.at = call[c].at
      BY <1>0, <2>5 DEF CallRecord, Snapshot
    <3>5. call' = [call EXCEPT ![c] = Issue(x, proxy)]
      BY <3>1
    <3> HIDE DEF x
    <3>6. CallOK(x) /\ x.left > 0
      BY <1>0, <2>5, <3>3, <3>4 DEF CallOK, Snapshot
    <3>7. CallsOK'
      BY <1>0, <3>4, <3>5, <3>6, IssuedOK, OneCall
    <3> QED BY <1>0, <2>5, <3>7 DEF Snapshot, TypeInv, FlagsOK, SafariOK, breakerVars, killVars
  <2>6. CASE IssueNext(c)
    <3>1. CallOK(Issue(call[c], proxy))
      BY <1>0, <2>6, IssuedOK DEF IssueNext
    <3>2. CallsOK'
      BY <1>0, <2>6, <3>1, OneCall DEF IssueNext
    <3> QED BY <1>0, <2>6, <3>2 DEF IssueNext, TypeInv, FlagsOK, SafariOK, breakerVars, killVars
  <2>7. CASE EngineAnswer(c)
    <3> DEFINE T == Target(call[c])
               r == Answered(call[c], call[c].left - 1, call[c].ran \cup T)
    <3>1. T \in SUBSET Tabs /\ (call[c].via = "extension" => \A t \in T : page[t] > 0)
      BY <1>0, TargetTabs DEF CallOK
    <3>2. call[c].left - 1 \in 0 .. 2 /\ call[c].ran \in SUBSET Tabs
      BY <1>0, <2>7 DEF EngineAnswer, CallOK, CallRecord
    <3>3. call' = [call EXCEPT ![c] = r]
      BY <1>0, <2>7 DEF EngineAnswer, Answered
    <3>4. PICK meta \in Meta(call[c].via, T) : proxy' = [proxy EXCEPT !.meta = meta]
      BY <2>7 DEF EngineAnswer
    <3> HIDE DEF T
    <3>5. CallOK(r)
      <4>1. call[c].ran \cup T \in SUBSET Tabs
        BY <3>1, <3>2
      <4> QED BY <1>0, <2>7, <3>2, <4>1, AnsweredCallOK DEF EngineAnswer
    <3>6. proxy' \in ProxyRecord
      BY <1>0, <3>1, <3>4, MetaOK
    <3> HIDE DEF r
    <3>7. CallsOK'
      BY <1>0, <3>3, <3>5, OneCall
    <3> QED BY <1>0, <2>7, <3>6, <3>7 DEF EngineAnswer, TypeInv, FlagsOK, SafariOK, breakerVars, killVars
  <2>8. CASE GiveUp(c)
    <3> DEFINE r == Answered(call[c], 0, call[c].ran)
    <3>1. call[c].ran \in SUBSET Tabs /\ 0 \in 0 .. 2
      BY <1>0 DEF CallRecord
    <3>2. call' = [call EXCEPT ![c] = r]
      BY <1>0, <2>8 DEF GiveUp, Answered, CallsOK, CallRecord
    <3>3. CallOK(r)
      BY <1>0, <2>8, <3>1, AnsweredCallOK DEF GiveUp
    <3>4. late' \subseteq Urls
      BY <1>0, <2>8 DEF GiveUp, CallOK, SafariOK
    <3> HIDE DEF r
    <3>5. CallsOK'
      BY <1>0, <3>2, <3>3, OneCall
    <3> QED BY <1>0, <2>8, <3>4, <3>5 DEF GiveUp, TypeInv, FlagsOK, SafariOK, breakerVars, killVars
  <2>9. CASE ToolFails(c)
    <3>1. PICK e \in {"lifecycle", "other"} : Caught(c, e, circuit[DomainOfCall(c)])
      BY <2>9 DEF ToolFails
    <3>2. engineBreaker' \in EngineState /\ stopped' \in BOOLEAN /\ asked' \in BOOLEAN
      BY <1>0, <3>1, CaughtType
    <3>3. CallsOK'
      BY <1>0, <2>9, AnswerCalls DEF ToolFails, Answers
    <3> QED BY <1>0, <2>9, <3>2, <3>3 DEF ToolFails, TypeInv, FlagsOK, SafariOK
  <2>10. CASE ToolReturns(c)
    <3>1. PICK after \in RegistriesAfter(call[c]) :
            /\ registry' = Refreshed(after, call[c], proxy.meta)
            /\ SafariAfter(call[c])
            /\ \/ Caught(c, "notRecognized", EmptyState) /\ Answer(c, "notRecognized")
               \/ Caught(c, "thrash", EmptyState) /\ Answer(c, "refused")
               \/ /\ \/ /\ call[c].kind = "click"
                        /\ call' = [call EXCEPT ![c] = [call[c] EXCEPT !.phase = "adopting"]]
                     \/ Answer(c, "ok")
                  /\ UNCHANGED <<engineBreaker, killVars>>
            /\ UNCHANGED <<extension, proxy, late, total>>
      BY <2>10 DEF ToolReturns
    <3>2. call[c].phase = "running"
      BY <2>10 DEF ToolReturns
    <3>3. after \in Seq(Entry) /\ page' \in [Tabs -> 0 .. MaxMoves + 1] /\ closed' \subseteq Tabs
      BY <1>0, <3>1, <3>2, AfterTypes
    <3>4. registry' \in Seq(Entry)
      BY <1>0, <3>1, <3>3, RefreshedType DEF ProxyRecord
    <3>5. engineBreaker' \in EngineState /\ stopped' \in BOOLEAN /\ asked' \in BOOLEAN
      BY <1>0, <3>1, CaughtType DEF FlagsOK, killVars
    <3>6. CallsOK'
      <4>1. call[c].kind = "click" => CallOK([call[c] EXCEPT !.phase = "adopting"])
        BY <1>0, <3>2, PhaseOK
      <4> QED BY <1>0, <3>1, <4>1, AnswerCalls, OneCall DEF Answers
    <3> QED BY <1>0, <3>1, <3>3, <3>4, <3>5, <3>6 DEF TypeInv, FlagsOK, SafariOK
  <2>11. CASE Adopt(c)
    <3>1. PICK listed \in Listed : registry' = registry \o Adopted(listed \ call[c].seen)
      BY <2>11 DEF Adopt, Adopted
    <3> DEFINE S == listed \ call[c].seen
    <3>2. S \in SUBSET Urls /\ IsFiniteSet(S)
      <4>1. S \in SUBSET Shown
        BY <3>1 DEF Listed
      <4> HIDE DEF S
      <4> QED BY <1>0, <4>1, ShownUrls, FiniteShown, FS_Subset
    <3> HIDE DEF S
    <3>3. Adopted(S) \in Seq(Entry)
      BY <3>2, AdoptedEntries
    <3>4. registry' \in Seq(Entry)
      BY <1>0, <3>1, <3>3, ConcatProperties DEF S
    <3>5. CallsOK'
      BY <1>0, <2>11, AnswerCalls DEF Adopt, Answers
    <3> QED BY <1>0, <2>11, <3>4, <3>5 DEF Adopt, TypeInv, FlagsOK, SafariOK, breakerVars, killVars
  <2> QED BY <1>2, <2>1, <2>2, <2>3, <2>4, <2>5, <2>6, <2>7, <2>8, <2>9, <2>10, <2>11
          DEF CallStep
<1>3. ASSUME NEW u \in Urls, LateAnswer(u) PROVE TypeInv'
  <2> DEFINE T == {TabOf(v) : v \in Shown \cap {u}}
  <2>1. T \in SUBSET Tabs /\ \A t \in T : page[t] > 0
    BY <1>0, ShownUrls, UrlParts DEF Open
  <2>2. PICK meta \in Meta("extension", T) : proxy' = [proxy EXCEPT !.meta = meta]
    BY <1>3 DEF LateAnswer
  <2> HIDE DEF T
  <2>3. proxy' \in ProxyRecord
    BY <1>0, <2>1, <2>2, MetaOK
  <2> QED BY <1>0, <1>3, <2>3 DEF LateAnswer, TypeInv, FlagsOK, SafariOK, CallsOK, breakerVars, killVars
<1>4. ASSUME NEW t \in Tabs, PageMoves(t) \/ PageOpens(t) PROVE TypeInv'
  <2>1. page' \in [Tabs -> 0 .. MaxMoves + 1]
    BY <1>0, <1>4, PipelineAssumption DEF PageMoves, PageOpens, SafariOK
  <2> QED BY <1>0, <1>4, <2>1
          DEF PageMoves, PageOpens, TypeInv, FlagsOK, SafariOK, CallsOK, breakerVars, killVars
<1>5. ASSUME NEW d \in Domains, Cooldown(d) PROVE TypeInv'
  BY <1>0, <1>5 DEF Cooldown, TypeInv, FlagsOK, SafariOK, CallsOK, killVars
<1>6. CASE EngineCooldown
  BY <1>0, <1>6 DEF EngineCooldown, EngineState, TypeInv, FlagsOK, SafariOK, CallsOK, killVars
<1>7. CASE UNCHANGED pipelineVars
  BY <1>0, <1>7 DEF pipelineVars, TypeInv, FlagsOK, SafariOK, CallsOK, breakerVars, killVars
<1> QED BY <1>1, <1>2, <1>3, <1>4, <1>5, <1>6, <1>7 DEF Next

LEMMA TypeInvariant == Spec => []TypeInv
BY TypeInit, TypeNext, PTL DEF Spec

\* The pipeline's variables keep their types, for any calls, tabs, domains and
\* thresholds.
THEOREM PipelineTypeCorrect == Spec => []TypeOK
<1>1. BreakerInv /\ KillInv /\ TypeInv => TypeOK
  BY DEF BreakerInv, KillInv, TypeInv, TypeOK, FlagsOK, SafariOK, CallsOK, ProxyRecord
<1> QED BY BreakerInit, BreakerNext, KillInit, KillNext, TypeInvariant, <1>1, PTL DEF Spec

-----------------------------------------------------------------------------
\* What the registry's operations do to each entry.

LEMMA UpdateUrlEntries ==
    ASSUME NEW reg \in Seq(Entry), NEW i \in 0 .. Len(reg), NEW url
    PROVE  /\ DOMAIN UpdateUrl(reg, i, url) = DOMAIN reg
           /\ \A j \in DOMAIN reg :
                /\ UpdateUrl(reg, i, url)[j].tab = reg[j].tab
                /\ UpdateUrl(reg, i, url)[j].ext = reg[j].ext
                /\ UpdateUrl(reg, i, url)[j].url = IF j = i THEN url ELSE reg[j].url
<1>1. DOMAIN reg = 1 .. Len(reg) /\ Len(reg) \in Nat /\ \A j \in 1 .. Len(reg) : reg[j] \in Entry
  BY LenProperties, ElementOfSeq
<1>2. reg = [j \in 1 .. Len(reg) |-> reg[j]]
  BY LenProperties
<1>3. CASE i = 0
  BY <1>1, <1>3 DEF UpdateUrl
<1>4. CASE i # 0
  <2>1. UpdateUrl(reg, i, url) = [reg EXCEPT ![i] = [reg[i] EXCEPT !.url = url]]
    BY <1>4 DEF UpdateUrl
  <2>2. DOMAIN UpdateUrl(reg, i, url) = DOMAIN reg
    BY <2>1
  <2>3. ASSUME NEW j \in DOMAIN reg
        PROVE  UpdateUrl(reg, i, url)[j] = IF j = i THEN [reg[j] EXCEPT !.url = url] ELSE reg[j]
    BY <2>1
  <2>4. \A e \in Entry : /\ [e EXCEPT !.url = url].tab = e.tab
                         /\ [e EXCEPT !.url = url].ext = e.ext
                         /\ [e EXCEPT !.url = url].url = url
    BY DEF Entry
  <2> QED BY <1>1, <2>2, <2>3, <2>4
<1> QED BY <1>3, <1>4

LEMMA SetIdEntries ==
    ASSUME NEW reg \in Seq(Entry), NEW i \in 0 .. Len(reg), NEW t
    PROVE  /\ DOMAIN SetExtensionTabId(reg, i, t) = DOMAIN reg
           /\ \A j \in DOMAIN reg :
                /\ SetExtensionTabId(reg, i, t)[j].tab = reg[j].tab
                /\ SetExtensionTabId(reg, i, t)[j].url = reg[j].url
                /\ SetExtensionTabId(reg, i, t)[j].ext \in {reg[j].ext, IF j = i THEN t ELSE reg[j].ext}
<1>1. DOMAIN reg = 1 .. Len(reg) /\ Len(reg) \in Nat /\ \A j \in 1 .. Len(reg) : reg[j] \in Entry
  BY LenProperties, ElementOfSeq
<1>3. CASE i = 0 \/ reg[i].ext # NoTab
  BY <1>1, <1>3 DEF SetExtensionTabId
<1>4. CASE ~(i = 0 \/ reg[i].ext # NoTab)
  <2>1. SetExtensionTabId(reg, i, t) = [reg EXCEPT ![i] = [reg[i] EXCEPT !.ext = t]]
    BY <1>4 DEF SetExtensionTabId
  <2>2. DOMAIN SetExtensionTabId(reg, i, t) = DOMAIN reg
    BY <2>1
  <2>3. ASSUME NEW j \in DOMAIN reg
        PROVE  SetExtensionTabId(reg, i, t)[j] = IF j = i THEN [reg[j] EXCEPT !.ext = t] ELSE reg[j]
    BY <2>1
  <2>4. \A e \in Entry : /\ [e EXCEPT !.ext = t].tab = e.tab
                         /\ [e EXCEPT !.ext = t].url = e.url
                         /\ [e EXCEPT !.ext = t].ext = t
    BY DEF Entry
  <2> QED BY <1>1, <2>2, <2>3, <2>4, ZenonT(60)
<1> QED BY <1>3, <1>4

\* Neither filling in an id nor refreshing a URL changes which tabs are owned.
LEMMA RefreshedOwned ==
    ASSUME NEW reg \in Seq(Entry), NEW r, NEW meta \in Urls \cup {NoUrl}
    PROVE  Owned(Refreshed(reg, r, meta)) = Owned(reg)
<1>1. CASE meta = NoUrl
  BY <1>1 DEF Refreshed
<1>2. CASE meta # NoUrl
  <2> DEFINE filled == Backfill(reg, r, meta)
             j == FindByExtensionTabId(filled, TabOf(meta))
             i == FindByUrl(reg, r.url)
  <2>1. meta \in Urls /\ TabOf(meta) \in Tabs
    BY <1>2, UrlParts
  <2>2. i \in 0 .. Len(reg)
    BY Found
  <2>3. filled \in Seq(Entry)
    BY <2>1, <2>2, SetIdType DEF Backfill
  <2>4. DOMAIN filled = DOMAIN reg /\ \A k \in DOMAIN reg : filled[k].tab = reg[k].tab
    BY <2>2, SetIdEntries DEF Backfill
  <2>5. Refreshed(reg, r, meta) = UpdateUrl(filled, j, meta)
    BY <1>2 DEF Refreshed
  <2> HIDE DEF filled
  <2>6. j \in 0 .. Len(filled)
    BY <2>3, Found
  <2> HIDE DEF j
  <2>7. /\ DOMAIN UpdateUrl(filled, j, meta) = DOMAIN filled
        /\ \A k \in DOMAIN filled : UpdateUrl(filled, j, meta)[k].tab = filled[k].tab
    BY <2>3, <2>6, UpdateUrlEntries
  <2> QED BY <2>4, <2>5, <2>7 DEF Owned
<1> QED BY <1>1, <1>2

\* An entry of two lists joined is an entry of one of them.
LEMMA JoinedEntries ==
    ASSUME NEW a \in Seq(Entry), NEW b \in Seq(Entry), NEW i \in DOMAIN (a \o b)
    PROVE  (\E k \in DOMAIN a : (a \o b)[i] = a[k]) \/ (\E k \in DOMAIN b : (a \o b)[i] = b[k])
<1>1. /\ Len(a) \in Nat /\ Len(b) \in Nat /\ DOMAIN a = 1 .. Len(a) /\ DOMAIN b = 1 .. Len(b)
  BY LenProperties
<1>2. /\ a \o b \in Seq(Entry) /\ Len(a \o b) = Len(a) + Len(b)
      /\ \A k \in 1 .. Len(a) + Len(b) : (a \o b)[k] = IF k <= Len(a) THEN a[k] ELSE b[k - Len(a)]
  BY ConcatProperties
<1>3. i \in 1 .. Len(a) + Len(b)
  BY <1>2, LenProperties
<1>4. CASE i <= Len(a)
  BY <1>1, <1>2, <1>3, <1>4
<1>5. CASE ~(i <= Len(a))
  <2>1. i - Len(a) \in 1 .. Len(b)
    BY <1>1, <1>3, <1>5
  <2> QED BY <1>1, <1>2, <1>3, <1>5, <2>1
<1> QED BY <1>4, <1>5

LEMMA AppendedEntries ==
    ASSUME NEW a \in Seq(Entry), NEW e \in Entry, NEW i \in DOMAIN Append(a, e)
    PROVE  (\E k \in DOMAIN a : Append(a, e)[i] = a[k]) \/ Append(a, e)[i] = e
<1>1. Len(a) \in Nat /\ DOMAIN a = 1 .. Len(a)
  BY LenProperties
<1>2. /\ Append(a, e) \in Seq(Entry) /\ Len(Append(a, e)) = Len(a) + 1
      /\ \A k \in 1 .. Len(a) : Append(a, e)[k] = a[k]
      /\ Append(a, e)[Len(a) + 1] = e
  BY AppendProperties
<1>3. i \in 1 .. Len(a) + 1
  BY <1>2, LenProperties
<1> QED BY <1>1, <1>2, <1>3

\* The tabs owned after a call, its page's meta apart, are those owned before, and
\* the one it opened.
LEMMA AfterOwned ==
    ASSUME TypeInv, NEW r, CallOK(r), r.phase = "running", NEW after \in RegistriesAfter(r)
    PROVE  Owned(after) \subseteq Owned(registry) \cup (IF r.kind = "newTab" THEN {TabOf(r.url)} ELSE {})
<1>1. registry \in Seq(Entry)
  BY DEF TypeInv
<1>2. CASE r.kind = "navigate"
  <2>1. PICK v \in 1 .. page[r.pos] :
          after = UpdateUrl(registry, FindByUrl(registry, r.url), <<r.pos, v>>)
    BY <1>2 DEF RegistriesAfter
  <2>2. DOMAIN after = DOMAIN registry /\ \A j \in DOMAIN registry : after[j].tab = registry[j].tab
    BY <1>1, <2>1, Found, UpdateUrlEntries
  <2> QED BY <2>2 DEF Owned
<1>3. CASE r.kind = "newTab"
  <2> DEFINE e == [tab |-> TabOf(r.url), url |-> r.url, ext |-> NoTab]
  <2>1. r.url \in Urls
    BY <1>3 DEF CallOK
  <2>2. after = Append(registry, e)
    BY <1>3 DEF RegistriesAfter, RegisterTab
  <2>3. e \in Entry /\ e.tab = TabOf(r.url)
    BY <2>1, UrlParts DEF Entry
  <2> HIDE DEF e
  <2>4. \A i \in DOMAIN after : (\E k \in DOMAIN registry : after[i] = registry[k]) \/ after[i] = e
    BY <1>1, <2>2, <2>3, AppendedEntries
  <2> QED BY <1>3, <2>3, <2>4 DEF Owned
<1>4. CASE r.kind = "closeTab" /\ r.url \in Shown
  <2> DEFINE i == FindByUrl(registry, r.url)
  <2>1. after = RemoveTab(registry, i)
    BY <1>4 DEF RegistriesAfter
  <2>2. i # 0 => i \in 1 .. Len(registry)
    BY Lookup
  <2> HIDE DEF i
  <2>3. \A j \in DOMAIN after : \E k \in DOMAIN registry : after[j] = registry[k]
    BY <1>1, <2>1, <2>2, RemovedEntries DEF RemoveTab
  <2> QED BY <2>3 DEF Owned
<1>5. CASE ~(r.kind \in {"navigate", "newTab"} \/ (r.kind = "closeTab" /\ r.url \in Shown))
  BY <1>5 DEF RegistriesAfter
<1> QED BY <1>2, <1>3, <1>4, <1>5

\* A call that has been issued, field by field.
LEMMA IssuedRecord ==
    ASSUME NEW x \in CallRecord, NEW p \in ProxyRecord
    PROVE  LET r == Issue(x, p)
           IN  /\ r.phase = "waiting" /\ r.kind = x.kind /\ r.url = x.url /\ r.via = p.delegate
               /\ r.at = IF p.delegate = "applescript" THEN p.position ELSE NoTab
               /\ r.engine = x.engine /\ r.pos = x.pos /\ r.ran = x.ran
               /\ r.deferred = x.deferred /\ r.seen = x.seen /\ r.answer = x.answer
<1> DEFINE r == Issue(x, p)
<1>1. /\ r.phase = "waiting" /\ r.kind = x.kind /\ r.url = x.url /\ r.via = p.delegate
      /\ r.at = IF p.delegate = "applescript" THEN p.position ELSE NoTab
  BY DEF CallRecord, Issue
<1>2. /\ r.engine = x.engine /\ r.pos = x.pos /\ r.ran = x.ran
      /\ r.deferred = x.deferred /\ r.seen = x.seen /\ r.answer = x.answer
  BY DEF CallRecord, Issue
<1> QED BY <1>1, <1>2

LEMMA SeenRecord ==
    ASSUME NEW x \in CallRecord, NEW seen \in SUBSET Urls
    PROVE  LET r == [x EXCEPT !.seen = seen]
           IN  /\ r \in CallRecord /\ r.phase = x.phase /\ r.kind = x.kind /\ r.url = x.url
               /\ r.engine = x.engine /\ r.pos = x.pos /\ r.ran = x.ran
               /\ r.deferred = x.deferred /\ r.seen = seen /\ r.answer = x.answer
<1> DEFINE r == [x EXCEPT !.seen = seen]
<1>1. r \in CallRecord
  BY DEF CallRecord
<1>2. r.phase = x.phase /\ r.kind = x.kind /\ r.url = x.url /\ r.engine = x.engine
  BY DEF CallRecord
<1>3. /\ r.pos = x.pos /\ r.ran = x.ran /\ r.deferred = x.deferred /\ r.seen = seen
      /\ r.answer = x.answer
  BY DEF CallRecord
<1> QED BY <1>1, <1>2, <1>3

LEMMA PhaseRecord ==
    ASSUME NEW x \in CallRecord, NEW ph
    PROVE  LET r == [x EXCEPT !.phase = ph]
           IN  /\ r.phase = ph /\ r.kind = x.kind /\ r.url = x.url /\ r.ran = x.ran
               /\ r.seen = x.seen /\ r.answer = x.answer
BY DEF CallRecord

-----------------------------------------------------------------------------
\* The user's tabs.  What a click lists before it acts includes them, as long as
\* they stay where they are and listing them works; so what it adopts does not.

UserPages == {u \in Shown : TabOf(u) \in Theirs}

SeenOK(r) ==
    r.kind = "click" /\ r.phase \in {"running", "waiting", "adopting"} => UserPages \subseteq r.seen

OwnInv == OwnsNoUserTab /\ \A c \in Calls : SeenOK(call[c])

\* A step of one call, or of none, has to answer for that call only.
LEMMA SeenCalls ==
    ASSUME TypeInv, OwnInv, UserPages' \subseteq UserPages, NEW c, NEW r,
           c \in Calls => (r.kind = "click" /\ r.phase \in {"running", "waiting", "adopting"}
                             => UserPages \subseteq r.seen),
           call' = [call EXCEPT ![c] = r] \/ call' = call
    PROVE  \A d \in Calls : SeenOK(call[d])'
<1>1. ASSUME NEW d \in Calls PROVE SeenOK(call[d])'
  <2>1. call'[d] = call[d] \/ (d = c /\ call'[d] = r)
    BY DEF TypeInv, CallsOK
  <2> QED BY <2>1 DEF OwnInv, SeenOK
<1> QED BY <1>1

LEMMA UserPagesShrink ==
    ASSUME TypeInv, Movers \cap Theirs = {}, [Next]_pipelineVars
    PROVE  UserPages' \subseteq UserPages
<1>0. \A c \in Calls : CallOK(call[c])
  BY DEF TypeInv, CallsOK
<1>1. ASSUME closed \subseteq closed', \A t \in Theirs : page'[t] = page[t]
      PROVE  UserPages' \subseteq UserPages
  <2>1. ASSUME NEW u \in UserPages'
        PROVE  u \in UserPages
    <3>1. PICK t \in Tabs : page'[t] > 0 /\ t \notin closed' /\ u = <<t, page'[t]>>
      BY <2>1 DEF UserPages, Shown, Open, Current
    <3>2. t \in Theirs
      BY <2>1, <3>1 DEF UserPages, TabOf
    <3> QED BY <1>1, <3>1, <3>2 DEF UserPages, Shown, Open, Current, TabOf
  <2> QED BY <2>1
<1>2. ASSUME NEW c \in Calls, CallStep(c)
      PROVE  closed \subseteq closed' /\ \A t \in Theirs : page'[t] = page[t]
  <2>1. CASE ToolReturns(c)
    <3>1. SafariAfter(call[c])
      BY <2>1 DEF ToolReturns
    <3>2. call[c].kind = "newTab" => TabOf(call[c].url) \notin Theirs
      BY <1>0, PipelineAssumption DEF CallOK
    <3>3. Theirs \subseteq Tabs /\ page \in [Tabs -> 0 .. MaxMoves + 1]
      BY DEF Tabs, TypeInv, SafariOK
    <3>4. CASE call[c].kind = "newTab"
      BY <3>1, <3>2, <3>3, <3>4 DEF SafariAfter
    <3>5. CASE call[c].kind # "newTab"
      BY <3>1, <3>5 DEF SafariAfter, tabVars
    <3> QED BY <3>4, <3>5
  <2>2. CASE ~ToolReturns(c)
    <3>1. UNCHANGED tabVars
      BY <1>2, <2>2 DEF CallStep, HealthCheck, Gates, Recover, RecoveryFails, Registered, Snapshot,
                        IssueNext, EngineAnswer, GiveUp, ToolFails, Adopt
    <3> QED BY <3>1 DEF tabVars
  <2> QED BY <2>1, <2>2
<1>3. ASSUME NEW t \in Tabs, PageMoves(t) \/ PageOpens(t)
      PROVE  closed \subseteq closed' /\ \A v \in Theirs : page'[v] = page[v]
  <2>1. t \notin Theirs
    BY <1>3, PipelineAssumption DEF PageMoves, PageOpens, ToOpen
  <2>2. page \in [Tabs -> 0 .. MaxMoves + 1] /\ Theirs \subseteq Tabs
    BY DEF Tabs, TypeInv, SafariOK
  <2> QED BY <1>3, <2>1, <2>2 DEF PageMoves, PageOpens
<1>4. CASE UNCHANGED tabVars
  BY <1>1, <1>4 DEF tabVars
<1>5. UNCHANGED tabVars \/ (\E c \in Calls : CallStep(c)) \/ (\E t \in Tabs : PageMoves(t) \/ PageOpens(t))
  BY DEF Next, pipelineVars, Receive, LateAnswer, Cooldown, EngineCooldown
<1> QED BY <1>1, <1>2, <1>3, <1>4, <1>5

LEMMA OwnInit == Init => OwnInv
BY DEF Init, OwnInv, OwnsNoUserTab, Owned, SeenOK, NoCall

LEMMA OwnNext ==
    ASSUME Movers \cap Theirs = {}, ~SnapshotFails
    PROVE  TypeInv /\ OwnInv /\ [Next]_pipelineVars => OwnInv'
<1> SUFFICES ASSUME TypeInv, OwnInv, [Next]_pipelineVars PROVE OwnInv'
  OBVIOUS
<1>0. /\ UserPages' \subseteq UserPages
      /\ \A c \in Calls : CallOK(call[c]) /\ call[c] \in CallRecord /\ SeenOK(call[c])
      /\ registry \in Seq(Entry) /\ proxy \in ProxyRecord /\ SafariOK
  BY UserPagesShrink DEF TypeInv, CallsOK, OwnInv
\* Steps that leave the registry alone, for the new state r of a call.
<1>1. ASSUME registry' = registry, NEW c, NEW r,
             r.kind = "click" /\ r.phase \in {"running", "waiting", "adopting"}
               => UserPages \subseteq r.seen,
             call' = [call EXCEPT ![c] = r] \/ call' = call
      PROVE  OwnInv'
  <2>1. \A d \in Calls : SeenOK(call[d])'
    BY <1>0, <1>1, SeenCalls
  <2> QED BY <1>1, <2>1 DEF OwnInv, OwnsNoUserTab, Owned
<1>a. ASSUME NEW c, NEW a, Answer(c, a)
      PROVE  \E r : call' = [call EXCEPT ![c] = r] /\ r.phase = "done"
  <2>1. PICK r : r = [NoCall EXCEPT !.phase = "done", !.answer = a]
    OBVIOUS
  <2>2. r.phase = "done"
    BY <2>1 DEF NoCall
  <2> QED BY <1>a, <2>1, <2>2 DEF Answer
<1>2. ASSUME registry' = registry, NEW c, NEW a, Answer(c, a)
      PROVE  OwnInv'
  BY <1>1, <1>2, <1>a
<1>3. ASSUME NEW c \in Calls, call[c].phase \in {"received", "registering"}, NEW ext, Gates(c, ext)
      PROVE  OwnInv'
  <2>1. registry' = registry
    BY <1>3 DEF Gates
  <2>2. (\E a \in Answers : Answer(c, a)) \/ Dispatch(c, ext)
    BY <1>3 DEF Gates, Refuse, LetIn, NoEngine, NotRecognized, Answers
  <2>3. ASSUME Dispatch(c, ext) PROVE OwnInv'
    <3>1. PICK x \in CallRecord : KeptOnTheWay(x, call[c]) /\ GivenOnTheWay(c, x, ext)
      BY <2>3, DispatchFields
    <3>2. CASE Proxied(x.kind)
      <4>1. Issue(x, proxy').kind # "click"
        BY <3>1, <3>2, IssuedRecord DEF Proxied, GivenOnTheWay
      <4> QED BY <1>1, <2>1, <3>1, <3>2, <4>1 DEF GivenOnTheWay
    <3>3. CASE ~Proxied(x.kind)
      <4>1. x.kind = "click" => x.phase = "snapshot"
        BY <3>1 DEF KeptOnTheWay
      <4> QED BY <1>1, <2>1, <3>1, <3>3, <4>1 DEF GivenOnTheWay
    <3> QED BY <3>2, <3>3
  <2> QED BY <1>2, <2>1, <2>2, <2>3
<1>4. ASSUME NEW c \in Calls, Receive(c) PROVE OwnInv'
  <2>1. PICK kind, url, strict : call' = [call EXCEPT ![c] = Received(kind, url, strict)]
    BY <1>4 DEF Receive, Received
  <2>2. Received(kind, url, strict).phase = "received"
    BY DEF Received, NoCall
  <2> QED BY <1>1, <1>4, <2>1, <2>2 DEF Receive
<1>5. ASSUME NEW c \in Calls, HealthCheck(c) \/ Recover(c) PROVE OwnInv'
  <2>1. \/ call[c].phase = "received" /\ \E ext : Gates(c, ext)
        \/ \E ph \in {"recovering", "registering"} :
             call' = [call EXCEPT ![c] = [call[c] EXCEPT !.phase = ph]] /\ registry' = registry
    BY <1>5 DEF HealthCheck, Recover
  <2>2. ASSUME NEW ph \in {"recovering", "registering"}, registry' = registry,
               call' = [call EXCEPT ![c] = [call[c] EXCEPT !.phase = ph]]
        PROVE  OwnInv'
    <3>1. [call[c] EXCEPT !.phase = ph].phase = ph
      BY <1>0, PhaseRecord
    <3> QED BY <1>1, <2>2, <3>1
  <2> QED BY <1>3, <2>1, <2>2
<1>6. ASSUME NEW c \in Calls, RecoveryFails(c) \/ ToolFails(c) PROVE OwnInv'
  BY <1>2, <1>6 DEF RecoveryFails, ToolFails
<1>7. ASSUME NEW c \in Calls, Registered(c) PROVE OwnInv'
  BY <1>3, <1>7 DEF Registered
<1>8. ASSUME NEW c \in Calls, Snapshot(c) PROVE OwnInv'
  <2>1. call' = [call EXCEPT ![c] = Issue([call[c] EXCEPT !.seen = Shown], proxy)]
    BY <1>8 DEF Snapshot, Listed
  <2>2. PICK x : x = [call[c] EXCEPT !.seen = Shown]
    OBVIOUS
  <2>3. x \in CallRecord /\ x.seen = Shown
    BY <1>0, <2>2, ShownUrls, SeenRecord, ZenonT(60)
  <2>4. Issue(x, proxy).seen = Shown
    BY <1>0, <2>3, IssuedRecord
  <2>5. UserPages \subseteq Shown
    BY DEF UserPages
  <2> QED BY <1>1, <1>8, <2>1, <2>2, <2>4, <2>5 DEF Snapshot
<1>9. ASSUME NEW c \in Calls, IssueNext(c) PROVE OwnInv'
  <2>1. /\ Issue(call[c], proxy).seen = call[c].seen /\ Issue(call[c], proxy).kind = call[c].kind
        /\ call[c].phase = "running"
    BY <1>0, <1>9, IssuedRecord DEF IssueNext
  <2> QED BY <1>0, <1>1, <1>9, <2>1 DEF IssueNext, SeenOK
<1>10. ASSUME NEW c \in Calls, EngineAnswer(c) \/ GiveUp(c) PROVE OwnInv'
  <2>1. PICK left \in 0 .. 2, ran \in SUBSET Tabs :
          call' = [call EXCEPT ![c] = Answered(call[c], left, ran)]
    <3>1. CASE EngineAnswer(c)
      <4>1. call[c].left - 1 \in 0 .. 2 /\ call[c].ran \cup Target(call[c]) \in SUBSET Tabs
        BY <1>0, <3>1, TargetTabs DEF EngineAnswer, CallOK, CallRecord
      <4>2. call' = [call EXCEPT ![c] =
                       Answered(call[c], call[c].left - 1, call[c].ran \cup Target(call[c]))]
        BY <3>1 DEF EngineAnswer, Answered
      <4> QED BY <4>1, <4>2
    <3>2. CASE GiveUp(c)
      <4>1. call' = [call EXCEPT ![c] = Answered(call[c], 0, call[c].ran)]
        BY <1>0, <3>2, ZenonT(60) DEF GiveUp, Answered, CallRecord
      <4>2. 0 \in 0 .. 2 /\ call[c].ran \in SUBSET Tabs
        BY <1>0 DEF CallRecord
      <4> QED BY <4>1, <4>2
    <3> QED BY <1>10, <3>1, <3>2
  <2>2. /\ Answered(call[c], left, ran).seen = call[c].seen
        /\ Answered(call[c], left, ran).kind = call[c].kind
    BY <1>0, AnsweredRecord
  <2>3. registry' = registry /\ call[c].phase = "waiting"
    BY <1>10 DEF EngineAnswer, GiveUp
  <2> QED BY <1>0, <1>1, <2>1, <2>2, <2>3 DEF SeenOK
<1>11. ASSUME NEW c \in Calls, ToolReturns(c) PROVE OwnInv'
  <2>1. PICK after \in RegistriesAfter(call[c]) :
          /\ registry' = Refreshed(after, call[c], proxy.meta)
          /\ SafariAfter(call[c])
          /\ \/ \E a \in Answers : Answer(c, a)
             \/ call' = [call EXCEPT ![c] = [call[c] EXCEPT !.phase = "adopting"]]
    BY <1>11 DEF ToolReturns, Answers
  <2>2. call[c].phase = "running"
    BY <1>11 DEF ToolReturns
  <2>3. after \in Seq(Entry)
    BY <1>0, <2>1, <2>2, AfterTypes
  <2>4. Owned(registry') \subseteq
          Owned(registry) \cup (IF call[c].kind = "newTab" THEN {TabOf(call[c].url)} ELSE {})
    BY <1>0, <2>1, <2>2, <2>3, RefreshedOwned, AfterOwned DEF ProxyRecord
  <2>5. call[c].kind = "newTab" => TabOf(call[c].url) \notin Theirs
    BY <1>0, PipelineAssumption DEF CallOK
  <2>6. OwnsNoUserTab'
    BY <2>4, <2>5 DEF OwnInv, OwnsNoUserTab, Owned
  <2>7. PICK r : /\ call' = [call EXCEPT ![c] = r]
                 /\ r.phase = "done" \/ r = [call[c] EXCEPT !.phase = "adopting"]
    BY <1>a, <2>1
  <2>8. /\ [call[c] EXCEPT !.phase = "adopting"].kind = call[c].kind
        /\ [call[c] EXCEPT !.phase = "adopting"].seen = call[c].seen
    BY <1>0, PhaseRecord
  <2>9. r.kind = "click" /\ r.phase \in {"running", "waiting", "adopting"}
          => UserPages \subseteq r.seen
    BY <1>0, <2>2, <2>7, <2>8 DEF SeenOK
  <2>10. \A d \in Calls : SeenOK(call[d])'
    BY <1>0, <2>7, <2>9, SeenCalls
  <2> QED BY <2>6, <2>10 DEF OwnInv
<1>12. ASSUME NEW c \in Calls, Adopt(c) PROVE OwnInv'
  <2>1. registry' = registry \o Adopted(Shown \ call[c].seen)
    BY <1>12 DEF Adopt, Adopted, Listed
  <2> DEFINE S == Shown \ call[c].seen
  <2>2. S \in SUBSET Urls /\ IsFiniteSet(S)
    <3>1. S \in SUBSET Shown
      OBVIOUS
    <3> HIDE DEF S
    <3> QED BY <1>0, <3>1, ShownUrls, FiniteShown, FS_Subset
  <2>3. \A u \in S : TabOf(u) \notin Theirs
    BY <1>0, <1>12 DEF Adopt, SeenOK, UserPages, CallOK
  <2> HIDE DEF S
  <2>4. /\ Adopted(S) \in Seq(Entry)
        /\ \A i \in DOMAIN Adopted(S) : \E u \in S : Adopted(S)[i].tab = TabOf(u)
    BY <2>2, AdoptedEntries
  <2>5. \A i \in DOMAIN (registry \o Adopted(S)) :
          \/ \E k \in DOMAIN registry : (registry \o Adopted(S))[i] = registry[k]
          \/ \E k \in DOMAIN Adopted(S) : (registry \o Adopted(S))[i] = Adopted(S)[k]
    BY <1>0, <2>4, JoinedEntries
  <2>6. OwnsNoUserTab'
    <3>1. \A k \in DOMAIN registry : registry[k].tab \notin Theirs
      BY DEF OwnInv, OwnsNoUserTab, Owned
    <3>2. \A k \in DOMAIN Adopted(S) : Adopted(S)[k].tab \notin Theirs
      BY <2>3, <2>4
    <3>3. registry' = registry \o Adopted(S)
      BY <2>1 DEF S
    <3>4. \A i \in DOMAIN registry' : registry'[i].tab \notin Theirs
      BY <2>5, <3>1, <3>2, <3>3
    <3> QED BY <3>4 DEF OwnsNoUserTab, Owned
  <2>7. PICK r : call' = [call EXCEPT ![c] = r] /\ r.phase = "done"
    BY <1>12, <1>a DEF Adopt
  <2>8. \A d \in Calls : SeenOK(call[d])'
    BY <1>0, <2>7, SeenCalls
  <2> QED BY <2>6, <2>8 DEF OwnInv
<1>13. ASSUME registry' = registry, call' = call PROVE OwnInv'
  <2>1. \A d \in Calls : SeenOK(call[d])'
    BY <1>0, <1>13 DEF SeenOK
  <2> QED BY <1>13, <2>1 DEF OwnInv, OwnsNoUserTab, Owned
<1>14. ASSUME NEW c \in Calls, CallStep(c) PROVE OwnInv'
  BY <1>14, <1>5, <1>6, <1>7, <1>8, <1>9, <1>10, <1>11, <1>12 DEF CallStep
<1>15. CASE UNCHANGED <<registry, call>>
  BY <1>13, <1>15
<1>16. \/ UNCHANGED <<registry, call>>
       \/ \E c \in Calls : Receive(c) \/ CallStep(c)
  BY DEF Next, pipelineVars, LateAnswer, PageMoves, PageOpens, Cooldown, EngineCooldown
<1> QED BY <1>4, <1>14, <1>15, <1>16

\* As long as no page of the user navigates by itself and listing the tabs works,
\* no tab of the user ever becomes the agent's: for any calls together, any tabs
\* and any number of clicks.
THEOREM OwnershipCorrect ==
    ASSUME Movers \cap Theirs = {}, ~SnapshotFails
    PROVE  Spec => []OwnsNoUserTab
<1>1. TypeInv /\ OwnInv /\ [Next]_pipelineVars => OwnInv'
  BY OwnNext
<1>2. OwnInv => OwnsNoUserTab
  BY DEF OwnInv
<1> QED BY OwnInit, <1>1, <1>2, TypeInvariant, PTL DEF Spec

-----------------------------------------------------------------------------
\* One call after another.

\* RegistryTellsTruth, of any list of entries.
Truthful(reg) ==
    \A i \in DOMAIN reg : TabOf(reg[i].url) = reg[i].tab /\ reg[i].ext \in {NoTab, reg[i].tab}

LEMMA TruthOfRegistry == RegistryTellsTruth <=> Truthful(registry)
BY DEF RegistryTellsTruth, Truthful

\* An entry found under a URL is that of the URL's tab, and one found under an id
\* that of the id's tab.
LEMMA FoundTruth ==
    ASSUME NEW reg \in Seq(Entry), Truthful(reg), NEW url, NEW t \in Tabs, NEW i, NEW k,
           i = FindByUrl(reg, url), k = FindByExtensionTabId(reg, t)
    PROVE  /\ i # 0 => i \in DOMAIN reg /\ reg[i].tab = TabOf(url)
           /\ k # 0 => k \in DOMAIN reg /\ reg[k].tab = t
<1>1. DOMAIN reg = 1 .. Len(reg) /\ Len(reg) \in Nat
  BY LenProperties
<1>2. i \in 0 .. Len(reg) /\ k \in 0 .. Len(reg)
  BY Found
<1>3. (i # 0 => reg[i].url = url) /\ (k # 0 => reg[k].ext = t)
  BY Found
<1>4. i # 0 => i \in DOMAIN reg
  BY <1>1, <1>2
<1>5. k # 0 => k \in DOMAIN reg
  BY <1>1, <1>2
<1>6. t # NoTab
  BY NoTabs
<1> QED BY <1>3, <1>4, <1>5, <1>6 DEF Truthful

\* Renaming an entry to a URL of its own tab keeps the list truthful.
LEMMA UpdateUrlTruth ==
    ASSUME NEW reg \in Seq(Entry), Truthful(reg), NEW i \in 0 .. Len(reg), NEW url,
           i # 0 => reg[i].tab = TabOf(url)
    PROVE  Truthful(UpdateUrl(reg, i, url))
<1>1. PICK new : new = UpdateUrl(reg, i, url)
  OBVIOUS
<1>2. /\ DOMAIN new = DOMAIN reg
      /\ \A j \in DOMAIN reg : /\ new[j].tab = reg[j].tab
                               /\ new[j].ext = reg[j].ext
                               /\ new[j].url = IF j = i THEN url ELSE reg[j].url
  BY <1>1, UpdateUrlEntries
<1>3. DOMAIN reg = 1 .. Len(reg)
  BY LenProperties
<1>4. Truthful(new)
  BY <1>2, <1>3 DEF Truthful
<1> QED BY <1>1, <1>4

LEMMA SetIdTruth ==
    ASSUME NEW reg \in Seq(Entry), Truthful(reg), NEW i \in 0 .. Len(reg), NEW t,
           i # 0 => reg[i].tab = t
    PROVE  Truthful(SetExtensionTabId(reg, i, t))
<1>1. PICK new : new = SetExtensionTabId(reg, i, t)
  OBVIOUS
<1>2. /\ DOMAIN new = DOMAIN reg
      /\ \A j \in DOMAIN reg : /\ new[j].tab = reg[j].tab
                               /\ new[j].url = reg[j].url
                               /\ new[j].ext \in {reg[j].ext, IF j = i THEN t ELSE reg[j].ext}
  BY <1>1, SetIdEntries
<1>3. DOMAIN reg = 1 .. Len(reg)
  BY LenProperties
<1>4. Truthful(new)
  BY <1>2, <1>3 DEF Truthful
<1> QED BY <1>1, <1>4

\* A meta of the call's own tab leaves the registry truthful.
LEMMA RefreshedTruth ==
    ASSUME NEW reg \in Seq(Entry), Truthful(reg), NEW r, NEW meta \in Urls \cup {NoUrl},
           meta = NoUrl \/ TabOf(meta) = TabOf(r.url)
    PROVE  Truthful(Refreshed(reg, r, meta))
<1>1. CASE meta = NoUrl
  BY <1>1 DEF Refreshed
<1>2. CASE meta # NoUrl
  <2>1. PICK t : t = TabOf(meta)
    OBVIOUS
  <2>2. meta \in Urls /\ t \in Tabs /\ t = TabOf(r.url)
    BY <1>2, <2>1, UrlParts
  <2>3. PICK i : i = FindByUrl(reg, r.url)
    OBVIOUS
  <2>4. PICK filled : filled = Backfill(reg, r, meta)
    OBVIOUS
  <2>5. i \in 0 .. Len(reg) /\ (i # 0 => reg[i].tab = t)
    BY <2>2, <2>3, Found, FoundTruth
  <2>6. filled = reg \/ filled = SetExtensionTabId(reg, i, t)
    BY <2>1, <2>3, <2>4 DEF Backfill
  <2>7. filled \in Seq(Entry)
    BY <2>2, <2>5, <2>6, SetIdType
  <2>8. Truthful(filled)
    BY <2>5, <2>6, SetIdTruth
  <2>9. PICK k : k = FindByExtensionTabId(filled, t)
    OBVIOUS
  <2>10. k \in 0 .. Len(filled) /\ (k # 0 => filled[k].tab = TabOf(meta))
    BY <2>1, <2>2, <2>7, <2>8, <2>9, Found, FoundTruth
  <2>11. Refreshed(reg, r, meta) = UpdateUrl(filled, k, meta)
    BY <1>2, <2>1, <2>4, <2>9 DEF Refreshed
  <2> QED BY <2>7, <2>8, <2>10, <2>11, UpdateUrlTruth
<1> QED BY <1>1, <1>2

\* What a call does to the registry, its page's meta apart, keeps it truthful.
LEMMA AfterTruth ==
    ASSUME TypeInv, Truthful(registry), NEW r, CallOK(r), r.phase = "running",
           r.pos \in {NoTab, TabOf(r.url)}, NEW after \in RegistriesAfter(r)
    PROVE  Truthful(after)
<1>1. registry \in Seq(Entry) /\ DOMAIN registry = 1 .. Len(registry)
  BY LenProperties DEF TypeInv
<1>2. PICK i : i = FindByUrl(registry, r.url)
  OBVIOUS
<1>3. i \in 0 .. Len(registry) /\ (i # 0 => i \in 1 .. Len(registry))
  BY <1>2, Lookup
<1>4. CASE r.kind = "navigate"
  <2>1. PICK v \in 1 .. page[r.pos] : after = UpdateUrl(registry, i, <<r.pos, v>>)
    BY <1>2, <1>4 DEF RegistriesAfter
  <2>2. r.pos \in Tabs /\ r.url \in Urls
    BY <1>4 DEF CallOK
  <2>3. r.pos = TabOf(r.url) /\ TabOf(r.url) \in Tabs
    BY <2>2, NoTabs
  <2>4. i # 0 => registry[i].tab = TabOf(r.url)
    BY <1>1, <1>2, <2>3, FoundTruth
  <2>5. PICK url : url = <<r.pos, v>>
    OBVIOUS
  <2>6. TabOf(url) = r.pos
    BY <2>5 DEF TabOf
  <2> QED BY <1>1, <1>3, <2>1, <2>3, <2>4, <2>5, <2>6, UpdateUrlTruth
<1>5. CASE r.kind = "newTab"
  <2>1. PICK e : e = [tab |-> TabOf(r.url), url |-> r.url, ext |-> NoTab]
    OBVIOUS
  <2>2. r.url \in Urls
    BY <1>5 DEF CallOK
  <2>3. after = Append(registry, e)
    BY <1>5, <2>1 DEF RegistriesAfter, RegisterTab
  <2>4. e \in Entry /\ e.tab = TabOf(e.url) /\ e.ext = NoTab
    BY <2>1, <2>2, UrlParts DEF Entry
  <2>5. \A j \in DOMAIN after : (\E k \in DOMAIN registry : after[j] = registry[k]) \/ after[j] = e
    BY <1>1, <2>3, <2>4, AppendedEntries
  <2> QED BY <2>4, <2>5 DEF Truthful
<1>6. CASE r.kind = "closeTab" /\ r.url \in Shown
  <2>1. after = RemoveTab(registry, i)
    BY <1>2, <1>6 DEF RegistriesAfter
  <2>2. \A j \in DOMAIN after : \E k \in DOMAIN registry : after[j] = registry[k]
    BY <1>1, <1>3, <2>1, RemovedEntries DEF RemoveTab
  <2> QED BY <2>2 DEF Truthful
<1>7. CASE ~(r.kind \in {"navigate", "newTab"} \/ (r.kind = "closeTab" /\ r.url \in Shown))
  BY <1>7 DEF RegistriesAfter
<1> QED BY <1>4, <1>5, <1>6, <1>7

\* A call on its own, with the proxy p and the registry reg: from its handler's
\* start to its return the proxy holds what was put there for it, and its entry is
\* where it was found.
Placed(r, p, reg) ==
    /\ p.delegate = r.engine /\ p.position = r.pos
    /\ r.pos \in {NoTab, TabOf(r.url)}
    /\ p.meta = NoUrl \/ TabOf(p.meta) = TabOf(r.url)
    /\ r.deferred \/ SkipsOwnership(r.kind) \/ FindByUrl(reg, r.url) # 0

SoloCall(r, p, reg) ==
    /\ r.phase \in {"snapshot", "running", "waiting"} => Placed(r, p, reg)
    /\ r.phase = "waiting" => r.via = r.engine /\ r.at \in {NoTab, TabOf(r.url)}
    /\ r.ran \subseteq {TabOf(r.url)}
    /\ r.ran # {} => r.kind \in {"script", "click"}
    /\ r.phase # "done" => r.answer = "none"

SoloInv == scenario = "alone" =>
    /\ Within
    /\ late = {}
    /\ RegistryTellsTruth
    /\ SoloCall(call[c1], proxy, registry)

LEMMA AnsweredSolo ==
    ASSUME NEW a, NEW p, NEW reg
    PROVE  SoloCall([NoCall EXCEPT !.phase = "done", !.answer = a], p, reg)
<1>1. PICK r : r = [NoCall EXCEPT !.phase = "done", !.answer = a]
  OBVIOUS
<1>2. r.phase = "done" /\ r.ran = {}
  BY <1>1 DEF NoCall
<1>3. SoloCall(r, p, reg)
  BY <1>2 DEF SoloCall
<1> QED BY <1>1, <1>3

LEMMA PhaseSolo ==
    ASSUME NEW x \in CallRecord, NEW p, NEW reg, NEW p2, NEW reg2, SoloCall(x, p, reg),
           NEW ph \in {"recovering", "registering", "adopting"}, x.phase # "done"
    PROVE  SoloCall([x EXCEPT !.phase = ph], p2, reg2)
<1>1. PICK r : r = [x EXCEPT !.phase = ph]
  OBVIOUS
<1>2. /\ r.phase = ph /\ r.kind = x.kind /\ r.url = x.url /\ r.ran = x.ran
      /\ r.answer = x.answer
  BY <1>1, PhaseRecord
<1>3. SoloCall(r, p2, reg2)
  BY <1>2 DEF SoloCall
<1> QED BY <1>1, <1>3

LEMMA IssuedSolo ==
    ASSUME NEW x \in CallRecord, NEW p \in ProxyRecord, NEW reg, SoloCall(x, p, reg),
           x.phase \in {"snapshot", "running"}
    PROVE  SoloCall(Issue(x, p), p, reg)
<1>1. PICK r : r = Issue(x, p)
  OBVIOUS
<1>2. /\ r.phase = "waiting" /\ r.kind = x.kind /\ r.url = x.url /\ r.via = p.delegate
      /\ r.at = IF p.delegate = "applescript" THEN p.position ELSE NoTab
      /\ r.engine = x.engine /\ r.pos = x.pos /\ r.ran = x.ran
      /\ r.deferred = x.deferred /\ r.answer = x.answer
  BY <1>1, IssuedRecord
<1>3. Placed(x, p, reg)
  BY DEF SoloCall
<1>4. Placed(r, p, reg)
  BY <1>2, <1>3 DEF Placed
<1>5. r.via = r.engine /\ r.at \in {NoTab, TabOf(r.url)}
  BY <1>2, <1>3 DEF Placed
<1>6. SoloCall(r, p, reg)
  BY <1>2, <1>4, <1>5 DEF SoloCall
<1> QED BY <1>1, <1>6

LEMMA SeenSolo ==
    ASSUME NEW x \in CallRecord, NEW p, NEW reg, SoloCall(x, p, reg), NEW seen \in SUBSET Urls,
           NEW r, r = [x EXCEPT !.seen = seen]
    PROVE  r \in CallRecord /\ r.phase = x.phase /\ (x.phase = "snapshot" => SoloCall(r, p, reg))
<1>1. /\ r \in CallRecord /\ r.phase = x.phase /\ r.kind = x.kind /\ r.url = x.url
      /\ r.engine = x.engine /\ r.pos = x.pos /\ r.ran = x.ran
      /\ r.deferred = x.deferred /\ r.answer = x.answer
  BY SeenRecord
<1>2. ASSUME x.phase = "snapshot" PROVE SoloCall(r, p, reg)
  <2>1. Placed(r, p, reg)
    BY <1>1, <1>2 DEF SoloCall, Placed
  <2> QED BY <1>1, <1>2, <2>1 DEF SoloCall
<1> QED BY <1>1, <1>2

\* The call goes on to its handler.
LEMMA DispatchSolo ==
    ASSUME TypeInv, RegistryTellsTruth, NEW c \in Calls, SoloCall(call[c], proxy, registry),
           call[c].phase \in {"received", "registering"}, NEW ext, Dispatch(c, ext)
    PROVE  \E r : call' = [call EXCEPT ![c] = r] /\ SoloCall(r, proxy', registry)
<1>1. PICK x \in CallRecord : KeptOnTheWay(x, call[c]) /\ GivenOnTheWay(c, x, ext)
  BY DispatchFields
<1>2. x.phase \in {"snapshot", "running"} /\ x.kind = call[c].kind /\ x.url = call[c].url
  BY <1>1 DEF KeptOnTheWay
<1>3. x.pos \in {NoTab, TabOf(x.url)}
  <2>1. PICK i : i = FindByUrl(registry, call[c].url)
    OBVIOUS
  <2>2. registry \in Seq(Entry) /\ Truthful(registry)
    BY TruthOfRegistry DEF TypeInv
  <2>3. i \in 0 .. Len(registry) /\ (i # 0 => i \in 1 .. Len(registry))
    BY <2>1, Lookup
  <2>4. DOMAIN registry = 1 .. Len(registry)
    BY <2>2, LenProperties
  <2>5. i # 0 => registry[i].url = call[c].url
    BY <2>1, <2>2, Found
  <2>6. i # 0 => registry[i].tab = TabOf(call[c].url)
    BY <2>2, <2>3, <2>4, <2>5 DEF Truthful
  <2>7. x.pos = IF i = 0 \/ SkipsOwnership(call[c].kind) THEN NoTab ELSE registry[i].tab
    BY <1>1, <2>1 DEF GivenOnTheWay, PositionOf
  <2> QED BY <1>2, <2>6, <2>7
<1>4. proxy'.delegate = x.engine /\ proxy'.position = x.pos /\ proxy'.meta = NoUrl /\ proxy' \in ProxyRecord
  BY <1>1 DEF GivenOnTheWay, ProxyFor
<1>5. x.deferred \/ SkipsOwnership(x.kind) \/ FindByUrl(registry, x.url) # 0
  BY <1>1, <1>2 DEF GivenOnTheWay, Unrecognized
<1>6. Placed(x, proxy', registry)
  BY <1>3, <1>4, <1>5 DEF Placed
<1>7. x.ran = call[c].ran /\ x.answer = call[c].answer
  BY <1>1 DEF KeptOnTheWay
<1>8. SoloCall(x, proxy', registry)
  BY <1>2, <1>6, <1>7 DEF SoloCall
<1>9. SoloCall(Issue(x, proxy'), proxy', registry)
  BY <1>2, <1>4, <1>8, IssuedSolo
<1> QED BY <1>1, <1>8, <1>9 DEF GivenOnTheWay

\* The engine answers.
LEMMA AnswerSolo ==
    ASSUME TypeInv, NEW c \in Calls, SoloCall(call[c], proxy, registry), call[c].kind # "shot",
           EngineAnswer(c)
    PROVE  \E r : call' = [call EXCEPT ![c] = r] /\ SoloCall(r, proxy', registry)
<1>1. PICK x : x = call[c]
  OBVIOUS
<1>2. x \in CallRecord /\ CallOK(x) /\ SoloCall(x, proxy, registry) /\ x.phase = "waiting"
  BY <1>1 DEF TypeInv, CallsOK, EngineAnswer
<1>3. Target(x) \in SUBSET Tabs /\ Target(x) \subseteq {TabOf(x.url)}
  <2>1. x.at \in {NoTab, TabOf(x.url)}
    BY <1>2 DEF SoloCall
  <2> QED BY <1>2, <2>1, TargetTabs DEF Target, TypeInv
<1>4. PICK meta \in Meta(x.via, Target(x)) : proxy' = [proxy EXCEPT !.meta = meta]
  BY <1>1 DEF EngineAnswer
<1>5. meta = NoUrl \/ TabOf(meta) = TabOf(x.url)
  BY <1>3, <1>4 DEF Meta, Current, TabOf
<1>6. PICK r : r = Answered(x, x.left - 1, x.ran \cup Target(x))
  OBVIOUS
<1>7. call' = [call EXCEPT ![c] = r]
  BY <1>1, <1>6 DEF EngineAnswer, Answered
<1>8. x.left - 1 \in 0 .. 2 /\ x.ran \cup Target(x) \in SUBSET Tabs
      /\ x.kind \in {"script", "click", "shot"}
  BY <1>2, <1>3 DEF CallOK, CallRecord
<1>9. /\ r.kind = x.kind /\ r.url = x.url /\ r.phase = "running"
      /\ r.pos = x.pos /\ r.engine = x.engine /\ r.ran = x.ran \cup Target(x)
      /\ r.deferred = x.deferred /\ r.answer = x.answer
  BY <1>2, <1>6, <1>8, AnsweredRecord
<1>10. proxy'.delegate = proxy.delegate /\ proxy'.position = proxy.position /\ proxy'.meta = meta
  BY <1>4 DEF TypeInv, ProxyRecord
<1>11. Placed(x, proxy, registry) /\ x.ran \subseteq {TabOf(x.url)} /\ x.answer = "none"
  BY <1>2 DEF SoloCall
<1>12. Placed(r, proxy', registry)
  BY <1>5, <1>9, <1>10, <1>11 DEF Placed
<1>13. SoloCall(r, proxy', registry)
  BY <1>1, <1>3, <1>8, <1>9, <1>11, <1>12 DEF SoloCall
<1> QED BY <1>7, <1>13

\* The handler returns.  A result reaches the agent only from a tab that is its own.
LEMMA ReturnSolo ==
    ASSUME TypeInv, RegistryTellsTruth, NEW c \in Calls, SoloCall(call[c], proxy, registry),
           ToolReturns(c)
    PROVE  /\ RegistryTellsTruth'
           /\ \E r : call' = [call EXCEPT ![c] = r] /\ SoloCall(r, proxy', registry')
           /\ call'[c].phase = "adopting" \/ call'[c].answer = "ok"
                => call[c].ran \subseteq Owned(registry')
<1>1. PICK x : x = call[c]
  OBVIOUS
<1>2. x \in CallRecord /\ CallOK(x) /\ SoloCall(x, proxy, registry) /\ x.phase = "running"
  BY <1>1 DEF TypeInv, CallsOK, ToolReturns
<1>3. PICK after \in RegistriesAfter(x) :
        /\ registry' = Refreshed(after, x, proxy.meta)
        /\ SafariAfter(x)
        /\ \/ \E a \in {"notRecognized", "refused"} : Answer(c, a)
           \/ /\ Verified(registry', x, proxy.meta)
              /\ call' = [call EXCEPT ![c] = [x EXCEPT !.phase = "adopting"]] \/ Answer(c, "ok")
        /\ UNCHANGED proxy
  BY <1>1 DEF ToolReturns
<1>4. Placed(x, proxy, registry) /\ Truthful(registry) /\ registry \in Seq(Entry)
      /\ proxy.meta \in Urls \cup {NoUrl}
  BY <1>2, TruthOfRegistry DEF SoloCall, TypeInv, ProxyRecord
<1>5. after \in Seq(Entry)
  BY <1>2, <1>3, AfterTypes
<1>6. Truthful(after)
  BY <1>2, <1>3, <1>4, AfterTruth DEF Placed
<1>7. Truthful(registry')
  BY <1>3, <1>4, <1>5, <1>6, RefreshedTruth DEF Placed
<1>8. RegistryTellsTruth'
  BY <1>7 DEF RegistryTellsTruth, Truthful
<1>9. \E r : call' = [call EXCEPT ![c] = r] /\ SoloCall(r, proxy', registry')
  <2>1. ASSUME NEW a, Answer(c, a)
        PROVE  \E r : call' = [call EXCEPT ![c] = r] /\ SoloCall(r, proxy', registry')
    BY <2>1, AnsweredSolo DEF Answer
  <2>2. SoloCall([x EXCEPT !.phase = "adopting"], proxy', registry')
    BY <1>2, PhaseSolo
  <2> QED BY <1>3, <2>1, <2>2
<1>10. ASSUME call'[c].phase = "adopting" \/ call'[c].answer = "ok"
       PROVE  x.ran \subseteq Owned(registry')
  <2>1. Verified(registry', x, proxy.meta)
    <3>1. ASSUME NEW a \in {"notRecognized", "refused"}, Answer(c, a) PROVE FALSE
      <4>1. call'[c] = [NoCall EXCEPT !.phase = "done", !.answer = a]
        BY <3>1 DEF Answer, TypeInv, CallsOK
      <4>2. call'[c].phase = "done" /\ call'[c].answer = a
        BY <4>1 DEF NoCall
      <4> QED BY <1>10, <3>1, <4>2
    <3> QED BY <1>3, <3>1
  <2>2. SUFFICES ASSUME x.ran # {} PROVE TabOf(x.url) \in Owned(registry')
    BY <1>2 DEF SoloCall
  <2>3. x.kind \in {"script", "click"}
    BY <1>2, <2>2 DEF SoloCall
  <2>4. after = registry
    BY <1>3, <2>3 DEF RegistriesAfter
  <2>5. CASE x.deferred
    <3>1. PICK t : t = TabOf(proxy.meta)
      OBVIOUS
    <3>2. PICK k : k = FindByExtensionTabId(registry', t)
      OBVIOUS
    <3>3. proxy.meta # NoUrl /\ k # 0
      BY <2>1, <2>5, <3>1, <3>2 DEF Verified
    <3>4. t \in Tabs /\ t = TabOf(x.url)
      BY <1>4, <3>1, <3>3, UrlParts DEF Placed
    <3>5. registry' \in Seq(Entry)
      BY <1>3, <1>4, <1>5, RefreshedType
    <3>6. k \in DOMAIN registry' /\ registry'[k].tab = t
      BY <1>7, <3>2, <3>3, <3>4, <3>5, FoundTruth
    <3> QED BY <3>4, <3>6 DEF Owned
  <2>6. CASE ~x.deferred
    <3>1. PICK i : i = FindByUrl(registry, x.url)
      OBVIOUS
    <3>2. i # 0
      BY <1>4, <2>3, <2>6, <3>1 DEF Placed, SkipsOwnership
    <3>3. i \in 1 .. Len(registry) /\ registry[i].url = x.url
      BY <1>4, <3>1, <3>2, Lookup, Found
    <3>4. DOMAIN registry = 1 .. Len(registry)
      BY <1>4, LenProperties
    <3>5. registry[i].tab = TabOf(x.url) /\ i \in DOMAIN registry
      BY <1>4, <3>3, <3>4 DEF Truthful
    <3>6. Owned(registry') = Owned(registry)
      BY <1>3, <1>4, <2>4, RefreshedOwned
    <3>7. TabOf(x.url) \in Owned(registry)
      BY <3>5 DEF Owned
    <3> QED BY <3>6, <3>7
  <2> QED BY <2>5, <2>6
<1> QED BY <1>1, <1>8, <1>9, <1>10

\* The tabs that appeared during a click are registered.
LEMMA AdoptSolo ==
    ASSUME TypeInv, RegistryTellsTruth, NEW c \in Calls, Adopt(c)
    PROVE  RegistryTellsTruth'
<1>1. PICK listed \in Listed : registry' = registry \o Adopted(listed \ call[c].seen)
  BY DEF Adopt, Adopted
<1>2. PICK S : S = listed \ call[c].seen
  OBVIOUS
<1>3. S \in SUBSET Urls /\ IsFiniteSet(S)
  <2>1. S \in SUBSET Shown
    BY <1>2 DEF Listed
  <2>2. SafariOK
    BY DEF TypeInv
  <2> QED BY <2>1, <2>2, ShownUrls, FiniteShown, FS_Subset
<1>4. PICK new : new = Adopted(S)
  OBVIOUS
<1>5. /\ new \in Seq(Entry)
      /\ \A i \in DOMAIN new :
           \E u \in S : new[i] = [tab |-> TabOf(u), url |-> u, ext |-> NoTab]
  BY <1>3, <1>4, AdoptedEntries
<1>6. \A i \in DOMAIN new : TabOf(new[i].url) = new[i].tab /\ new[i].ext = NoTab
  BY <1>5
<1>7. registry \in Seq(Entry) /\ Truthful(registry) /\ registry' = registry \o new
  BY <1>1, <1>2, <1>4, TruthOfRegistry DEF TypeInv
<1>8. \A i \in DOMAIN registry' :
         (\E k \in DOMAIN registry : registry'[i] = registry[k]) \/ (\E k \in DOMAIN new : registry'[i] = new[k])
  BY <1>5, <1>7, JoinedEntries
<1>9. Truthful(registry')
  BY <1>6, <1>7, <1>8 DEF Truthful
<1> QED BY <1>9 DEF RegistryTellsTruth, Truthful

LEMMA ScenarioStep == ScenarioNext => Next
BY DEF ScenarioNext

LEMMA ScenarioTypes == ScenarioSpec => []TypeInv
<1>1. ScenarioInit => TypeInv
  BY TypeInit DEF ScenarioInit
<1>2. TypeInv /\ [ScenarioNext]_<<pipelineVars, scenario>> => TypeInv'
  BY TypeNext DEF ScenarioNext
<1> QED BY <1>1, <1>2, PTL DEF ScenarioSpec

LEMMA SoloInit == ScenarioInit => SoloInv
<1> SUFFICES ASSUME ScenarioInit, scenario = "alone" PROVE /\ Within /\ late = {} /\ RegistryTellsTruth
                                     /\ SoloCall(call[c1], proxy, registry)
  BY DEF SoloInv
<1>1. late = {} /\ registry = <<>> /\ call = [c \in Calls |-> NoCall]
  BY DEF ScenarioInit, Init
<1>2. RegistryTellsTruth
  BY <1>1 DEF RegistryTellsTruth
<1>3. NoCall.phase = "idle" /\ NoCall.ran = {} /\ NoCall.answer = "none"
  BY DEF NoCall
<1>4. SoloCall(NoCall, proxy, registry)
  BY <1>3 DEF SoloCall
<1>5. Within
  BY <1>1, ScenarioAssumption DEF ScenarioInit, Within, NoCall
<1>6. call[c1] = NoCall
  BY <1>1, ScenarioAssumption
<1> QED BY <1>1, <1>2, <1>4, <1>5, <1>6

\* The result of a step that is a step of a call, for the call that takes it.
Result(c) == call[c].phase = "running" /\ (call'[c].phase = "adopting" \/ call'[c].answer = "ok")

LEMMA SoloStep ==
    ASSUME TypeInv, SoloInv, scenario = "alone", ScenarioNext
    PROVE  /\ late' = {} /\ RegistryTellsTruth'
           /\ SoloCall(call'[c1], proxy', registry')
           /\ \A c \in Calls : Result(c) => call[c].ran \subseteq Owned(registry')
<1>1. /\ Within /\ late = {} /\ RegistryTellsTruth
      /\ SoloCall(call[c1], proxy, registry)
      /\ Next /\ Within' /\ scenario' = "alone"
  BY DEF SoloInv, ScenarioNext
<1>2. /\ \A c \in Calls \ {c1} : call[c] = NoCall /\ call'[c] = NoCall
      /\ call[c1].kind \notin {"shot", "stop"} /\ c1 \in Calls
  BY <1>1, ScenarioAssumption DEF Within
<1>3. NoCall.phase = "idle" /\ NoCall.ran = {} /\ NoCall.answer = "none"
  BY DEF NoCall
<1>4. \A c \in Calls : CallOK(call[c]) /\ call[c] \in CallRecord
  BY DEF TypeInv, CallsOK, CallOK
\* A step of the only call there is.
<1>5. ASSUME UNCHANGED <<registry, late>>,
             NEW r, call' = [call EXCEPT ![c1] = r], SoloCall(r, proxy', registry),
             ~Result(c1)
      PROVE  /\ late' = {} /\ RegistryTellsTruth'
             /\ SoloCall(call'[c1], proxy', registry')
             /\ \A c \in Calls : Result(c) => call[c].ran \subseteq Owned(registry')
  <2>1. call'[c1] = r
    BY <1>2, <1>5 DEF TypeInv, CallsOK
  <2>2. RegistryTellsTruth'
    BY <1>1, <1>5 DEF RegistryTellsTruth
  <2>3. \A c \in Calls : ~Result(c)
    BY <1>2, <1>3, <1>5 DEF Result
  <2> QED BY <1>1, <1>5, <2>1, <2>2, <2>3
<1>6. ASSUME UNCHANGED <<registry, late, call, proxy>>
      PROVE  /\ late' = {} /\ RegistryTellsTruth'
             /\ SoloCall(call'[c1], proxy', registry')
             /\ \A c \in Calls : Result(c) => call[c].ran \subseteq Owned(registry')
  <2>1. RegistryTellsTruth'
    BY <1>1, <1>6 DEF RegistryTellsTruth
  <2>2. \A c \in Calls : ~Result(c)
    BY <1>1, <1>2, <1>3, <1>6 DEF Result, SoloCall
  <2> QED BY <1>1, <1>6, <2>1, <2>2

\* The steps of Next, but for those of other calls.
<1>7. CASE Receive(c1)
  <2>1. PICK kind, url, strict : call' = [call EXCEPT ![c1] = Received(kind, url, strict)]
    BY <1>7 DEF Receive, Received
  <2>2. PICK r : r = Received(kind, url, strict)
    OBVIOUS
  <2>3. r.phase = "received" /\ r.ran = {} /\ r.answer = "none"
    BY <2>2 DEF Received, NoCall
  <2>4. SoloCall(r, proxy', registry)
    BY <2>3 DEF SoloCall
  <2>5. ~Result(c1)
    BY <1>7 DEF Receive, Idle, Result
  <2> QED BY <1>5, <1>7, <2>1, <2>2, <2>4, <2>5 DEF Receive
<1>8. ASSUME call[c1].phase \in {"received", "registering"}, NEW ext, Gates(c1, ext)
      PROVE  /\ late' = {} /\ RegistryTellsTruth'
             /\ SoloCall(call'[c1], proxy', registry')
             /\ \A c \in Calls : Result(c) => call[c].ran \subseteq Owned(registry')
  <2>1. (\E a : Answer(c1, a)) \/ Dispatch(c1, ext)
    BY <1>8 DEF Gates, Refuse, LetIn, NoEngine, NotRecognized
  <2>2. \E r : call' = [call EXCEPT ![c1] = r] /\ SoloCall(r, proxy', registry)
    BY <1>1, <1>2, <1>8, <2>1, DispatchSolo, AnsweredSolo DEF Answer
  <2>3. ~Result(c1) /\ UNCHANGED <<registry, late>>
    BY <1>8 DEF Result, Gates
  <2> QED BY <1>5, <2>2, <2>3
<1>9. CASE HealthCheck(c1) \/ Recover(c1)
  <2>1. \/ call[c1].phase = "received" /\ \E ext : Gates(c1, ext)
        \/ /\ \E ph \in {"recovering", "registering"} :
                call' = [call EXCEPT ![c1] = [call[c1] EXCEPT !.phase = ph]]
           /\ UNCHANGED <<registry, late>>
           /\ call[c1].phase \in {"received", "recovering"}
    BY <1>9 DEF HealthCheck, Recover
  <2>2. ASSUME NEW ph \in {"recovering", "registering"}, UNCHANGED <<registry, late>>,
               call[c1].phase \in {"received", "recovering"},
               call' = [call EXCEPT ![c1] = [call[c1] EXCEPT !.phase = ph]]
        PROVE  SoloCall([call[c1] EXCEPT !.phase = ph], proxy', registry) /\ ~Result(c1)
    BY <1>1, <1>2, <1>4, <2>2, PhaseSolo DEF Result
  <2> QED BY <1>5, <1>8, <2>1, <2>2
<1>10. CASE RecoveryFails(c1)
  BY <1>5, <1>10, AnsweredSolo DEF RecoveryFails, Answer, Result
<1>11. CASE Registered(c1)
  BY <1>8, <1>11 DEF Registered
<1>12. CASE Snapshot(c1)
  <2>1. PICK seen \in Listed :
          call' = [call EXCEPT ![c1] = Issue([call[c1] EXCEPT !.seen = seen], proxy)]
    BY <1>12 DEF Snapshot
  <2>2. PICK x : x = [call[c1] EXCEPT !.seen = seen]
    OBVIOUS
  <2>3. seen \in SUBSET Urls /\ proxy \in ProxyRecord
    BY ShownUrls DEF Listed, TypeInv
  <2>4. call[c1].phase = "snapshot" /\ UNCHANGED <<registry, late, proxy>>
    BY <1>12 DEF Snapshot
  <2>5. x \in CallRecord /\ x.phase = "snapshot" /\ SoloCall(x, proxy, registry)
    <3>1. PICK y : y = call[c1]
      OBVIOUS
    <3>2. y \in CallRecord /\ SoloCall(y, proxy, registry) /\ y.phase = "snapshot"
      BY <1>1, <1>2, <1>4, <2>4, <3>1
    <3>3. x = [y EXCEPT !.seen = seen]
      BY <2>2, <3>1
    <3> QED BY <2>3, <3>2, <3>3, SeenSolo
  <2>6. SoloCall(Issue(x, proxy), proxy, registry)
    BY <2>3, <2>5, IssuedSolo
  <2>7. ~Result(c1)
    BY <2>4 DEF Result
  <2> QED BY <1>5, <2>1, <2>2, <2>4, <2>6, <2>7
<1>13. CASE IssueNext(c1)
  <2>1. SoloCall(Issue(call[c1], proxy), proxy, registry)
    BY <1>1, <1>2, <1>4, <1>13, IssuedSolo DEF IssueNext, TypeInv
  <2>2. PICK r : r = Issue(call[c1], proxy)
    OBVIOUS
  <2>3. r.phase = "waiting" /\ r.answer = call[c1].answer /\ call[c1].answer = "none"
    BY <1>1, <1>2, <1>4, <1>13, <2>2, IssuedRecord DEF IssueNext, TypeInv, SoloCall
  <2>4. call' = [call EXCEPT ![c1] = r] /\ call'[c1] = r /\ UNCHANGED <<registry, late, proxy>>
    BY <1>2, <1>13, <2>2 DEF IssueNext, TypeInv, CallsOK
  <2>5. ~Result(c1)
    BY <2>3, <2>4 DEF Result
  <2> QED BY <1>5, <2>1, <2>2, <2>4, <2>5
<1>14. CASE EngineAnswer(c1)
  <2>1. \E r : call' = [call EXCEPT ![c1] = r] /\ SoloCall(r, proxy', registry)
    BY <1>1, <1>2, <1>14, AnswerSolo
  <2>2. ~Result(c1) /\ UNCHANGED <<registry, late>>
    BY <1>14 DEF Result, EngineAnswer
  <2> QED BY <1>5, <2>1, <2>2
<1>15. CASE GiveUp(c1)
  BY <1>2, <1>15 DEF GiveUp
<1>16. CASE ToolFails(c1)
  <2>1. Answer(c1, "error") /\ UNCHANGED <<registry, late, proxy>>
    BY <1>16 DEF ToolFails
  <2>2. PICK r : r = [NoCall EXCEPT !.phase = "done", !.answer = "error"]
    OBVIOUS
  <2>3. r.phase = "done" /\ r.answer = "error" /\ call' = [call EXCEPT ![c1] = r]
    BY <2>1, <2>2 DEF NoCall, Answer
  <2>4. SoloCall(r, proxy', registry)
    BY <2>2, AnsweredSolo
  <2>5. ~Result(c1)
    BY <1>2, <2>3 DEF Result, TypeInv, CallsOK
  <2> QED BY <1>5, <2>1, <2>3, <2>4, <2>5
<1>17. CASE ToolReturns(c1)
  <2>1. RegistryTellsTruth' /\ late' = late
    BY <1>1, <1>2, <1>17, ReturnSolo DEF ToolReturns
  <2>2. PICK r : call' = [call EXCEPT ![c1] = r] /\ SoloCall(r, proxy', registry')
    BY <1>1, <1>2, <1>17, ReturnSolo
  <2>3. call'[c1] = r
    BY <1>2, <2>2 DEF TypeInv, CallsOK
  <2>4. Result(c1) => call[c1].ran \subseteq Owned(registry')
    BY <1>1, <1>2, <1>17, ReturnSolo DEF Result
  <2>5. \A c \in Calls \ {c1} : ~Result(c)
    BY <1>2, <1>3 DEF Result
  <2> QED BY <1>1, <2>1, <2>2, <2>3, <2>4, <2>5
<1>18. CASE Adopt(c1)
  <2>1. RegistryTellsTruth' /\ late' = late
    BY <1>1, <1>2, <1>18, AdoptSolo DEF Adopt
  <2>2. SoloCall([NoCall EXCEPT !.phase = "done", !.answer = "ok"], proxy', registry')
    BY AnsweredSolo
  <2>3. call'[c1] = [NoCall EXCEPT !.phase = "done", !.answer = "ok"]
    BY <1>2, <1>18 DEF Adopt, Answer, TypeInv, CallsOK
  <2>4. \A c \in Calls : ~Result(c)
    BY <1>2, <1>3, <1>18 DEF Result, Adopt
  <2> QED BY <1>1, <2>1, <2>2, <2>3, <2>4
<1>19. ASSUME NEW c \in Calls, c # c1, Receive(c) \/ CallStep(c)
       PROVE  FALSE
  <2>1. call[c].phase = "idle" /\ call'[c].phase = "idle"
    BY <1>2, <1>3, <1>19
  <2>2. CASE Receive(c)
    <3>1. PICK kind, url, strict : call' = [call EXCEPT ![c] = Received(kind, url, strict)]
      BY <2>2 DEF Receive, Received
    <3>2. call'[c] = Received(kind, url, strict)
      BY <1>19, <3>1 DEF TypeInv, CallsOK
    <3>3. Received(kind, url, strict).phase = "received"
      BY DEF Received, NoCall
    <3> QED BY <2>1, <3>2, <3>3
  <2>3. CASE CallStep(c)
    BY <2>1, <2>3 DEF CallStep, HealthCheck, Recover, RecoveryFails, Registered, Snapshot, IssueNext,
                      EngineAnswer, GiveUp, ToolFails, ToolReturns, Adopt
  <2> QED BY <1>19, <2>2, <2>3
<1>20. CASE \E u \in Urls : LateAnswer(u)
  BY <1>1, <1>20 DEF LateAnswer
<1>21. CASE \/ \E t \in Tabs : PageMoves(t) \/ PageOpens(t)
            \/ \E d \in Domains : Cooldown(d)
            \/ EngineCooldown
  BY <1>6, <1>21 DEF PageMoves, PageOpens, Cooldown, EngineCooldown
<1>22. CASE Receive(c1) \/ CallStep(c1)
  BY <1>7, <1>9, <1>10, <1>11, <1>12, <1>13, <1>14, <1>15, <1>16, <1>17, <1>18, <1>22 DEF CallStep
<1> QED BY <1>1, <1>19, <1>20, <1>21, <1>22 DEF Next

LEMMA SoloNext == TypeInv /\ SoloInv /\ [ScenarioNext]_<<pipelineVars, scenario>> => SoloInv'
<1> SUFFICES ASSUME TypeInv, SoloInv, [ScenarioNext]_<<pipelineVars, scenario>>, scenario' = "alone"
             PROVE  Within' /\ late' = {} /\ RegistryTellsTruth' /\ SoloCall(call'[c1], proxy', registry')
  BY DEF SoloInv
<1>1. CASE ScenarioNext
  <2>1. scenario = "alone" /\ Within'
    BY <1>1 DEF ScenarioNext
  <2> QED BY <1>1, <2>1, SoloStep
<1>2. CASE UNCHANGED <<pipelineVars, scenario>>
  <2>1. UNCHANGED <<late, registry, call, proxy, scenario, page, total>>
    BY <1>2 DEF pipelineVars, tabVars
  <2> QED BY <2>1 DEF SoloInv, Within, RegistryTellsTruth
<1> QED BY <1>1, <1>2

LEMMA SoloInvariant == ScenarioSpec => []SoloInv
BY ScenarioTypes, SoloInit, SoloNext, PTL DEF ScenarioSpec

\* The pipeline of the scenarios is the pipeline.
LEMMA ScenarioIsPipeline == ScenarioSpec => Spec
<1>1. ScenarioInit => Init
  BY DEF ScenarioInit
<1>2. [ScenarioNext]_<<pipelineVars, scenario>> => [Next]_pipelineVars
  BY DEF ScenarioNext
<1> QED BY <1>1, <1>2, PTL DEF ScenarioSpec, Spec

\* A call on its own runs its JavaScript through the engine selected for it and, if
\* by position, in the tab its URL names: for any tabs, however pages move.
THEOREM RoutingCorrect == ScenarioSpec => []RunsWhereAskedAlone
<1>1. TypeInv /\ SoloInv => RunsWhereAskedAlone
  <2> SUFFICES ASSUME TypeInv, SoloInv, scenario = "alone", NEW c \in Calls, call[c].phase = "waiting"
               PROVE  call[c].via = call[c].engine /\ call[c].at \in {NoTab, TabOf(call[c].url)}
    BY DEF RunsWhereAskedAlone, Alone, RunsWhereAsked
  <2>1. c = c1
    BY DEF SoloInv, Within, NoCall
  <2> QED BY <2>1 DEF SoloInv, SoloCall
<1> QED BY ScenarioTypes, SoloInvariant, <1>1, PTL

\* Calls on their own keep the registry truthful.
THEOREM RegistryCorrect == ScenarioSpec => []RegistryTellsTruthAlone
<1>1. SoloInv => RegistryTellsTruthAlone
  BY DEF SoloInv, RegistryTellsTruthAlone, Alone
<1> QED BY SoloInvariant, <1>1, PTL

\* A call on its own answers with the result of a script only if the tab the script
\* ran in is, by then, one of the agent's: whether its URL was known beforehand or
\* the check was put off until the extension had named the tab.
THEOREM AnswersCorrect == ScenarioSpec => AnswersFromOwnedTabsAlone
<1>1. /\ TypeInv /\ SoloInv /\ [ScenarioNext]_<<pipelineVars, scenario>>
      => [\A c \in Calls : scenario = "alone" /\
            call[c].phase = "running" /\ (call'[c].phase = "adopting" \/ call'[c].answer = "ok")
            => call[c].ran \subseteq Owned(registry')]_pipelineVars
  BY SoloStep DEF Result
<1> QED BY ScenarioTypes, SoloInvariant, <1>1, PTL DEF ScenarioSpec, AnswersFromOwnedTabsAlone

\* The agent never owns a tab of the user, in the scenario of one call after another
\* as in any other.
THEOREM OwnershipAlone ==
    ASSUME Movers \cap Theirs = {}, ~SnapshotFails
    PROVE  ScenarioSpec => []OwnsNoUserTabAlone
<1>1. Spec => []OwnsNoUserTab
  BY OwnershipCorrect
<1>2. OwnsNoUserTab => OwnsNoUserTabAlone
  BY DEF OwnsNoUserTabAlone, Alone
<1> QED BY <1>1, <1>2, ScenarioIsPipeline, PTL
=============================================================================
