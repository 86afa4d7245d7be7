--------------------------- MODULE ExtensionProofs ---------------------------
(***************************************************************************)
(* Theorems of ExtensionBridge, for any number of commands and any set of  *)
(* polls: its safety invariants and its refinement of CommandExchange.     *)
(* Then those of ExtensionIPC, for any numbers of loops and faults too:    *)
(* the composition takes steps of the bridge only, a value comes from a    *)
(* script that ran, a document runs a command once, a command is begun     *)
(* again only after a disconnect, and a result is kept until its caller is *)
(* answered.                                                               *)
(***************************************************************************)
EXTENDS ExtensionIPC, SequenceTheorems, FiniteSetTheorems, TLAPS

-----------------------------------------------------------------------------
\* Sequences: what removing an entry and pruning the head leave behind.

\* RemoveAt closes the gap: waitingPolls after a poll's timeout.
LEMMA RemoveAtProperties ==
    ASSUME NEW S, NEW s \in Seq(S), NEW i \in 1 .. Len(s)
    PROVE  /\ RemoveAt(s, i) \in Seq(S)
           /\ Len(RemoveAt(s, i)) = Len(s) - 1
           /\ \A j \in 1 .. Len(s) - 1 :
                RemoveAt(s, i)[j] = IF j < i THEN s[j] ELSE s[j + 1]
<1> DEFINE a == SubSeq(s, 1, i - 1)
           b == SubSeq(s, i + 1, Len(s))
<1>1. Len(s) \in Nat /\ \A k \in 1 .. Len(s) : s[k] \in S
    BY LenProperties, ElementOfSeq
<1>2. /\ a \in Seq(S)
      /\ Len(a) = i - 1
      /\ \A k \in 1 .. i - 1 : a[k] = s[k]
    <2>1. \A k \in 1 .. i - 1 : s[k] \in S
        BY <1>1
    <2>. QED  BY <1>1, <2>1, SubSeqProperties
<1>3. /\ b \in Seq(S)
      /\ Len(b) = Len(s) - i
      /\ \A k \in 1 .. Len(s) - i : b[k] = s[i + k]
    <2>1. \A k \in i + 1 .. Len(s) : s[k] \in S
        BY <1>1
    <2>. QED  BY <1>1, <2>1, SubSeqProperties
<1>4. RemoveAt(s, i) = a \o b
    BY DEF RemoveAt
<1>. HIDE DEF a, b
<1>5. /\ a \o b \in Seq(S)
      /\ Len(a \o b) = Len(a) + Len(b)
      /\ \A j \in 1 .. Len(a) + Len(b) :
            (a \o b)[j] = IF j <= Len(a) THEN a[j] ELSE b[j - Len(a)]
    BY <1>2, <1>3, ConcatProperties
<1>6. ASSUME NEW j \in 1 .. Len(s) - 1
      PROVE  (a \o b)[j] = IF j < i THEN s[j] ELSE s[j + 1]
    <2>1. CASE j < i
        BY <1>1, <1>2, <1>3, <1>5, <2>1
    <2>2. CASE ~(j < i)
        <3>1. j - (i - 1) \in 1 .. Len(s) - i /\ ~(j <= i - 1)
            BY <1>1, <2>2
        <3>2. (a \o b)[j] = b[j - (i - 1)]
            BY <1>1, <1>2, <1>3, <1>5, <3>1
        <3>3. b[j - (i - 1)] = s[i + (j - (i - 1))] /\ i + (j - (i - 1)) = j + 1
            BY <1>1, <1>3, <3>1
        <3>. QED  BY <2>2, <3>2, <3>3
    <2>. QED  BY <2>1, <2>2
<1>. QED  BY <1>1, <1>2, <1>3, <1>4, <1>5, <1>6

\* Dropping the n oldest entries shifts the others down: pruneExpiredEntries.
LEMMA PrunedProperties ==
    ASSUME NEW S, NEW s \in Seq(S), NEW n \in 0 .. Len(s)
    PROVE  LET t == SubSeq(s, n + 1, Len(s))
           IN  /\ t \in Seq(S)
               /\ Len(t) = Len(s) - n
               /\ \A i \in 1 .. Len(t) : i + n \in 1 .. Len(s) /\ t[i] = s[i + n]
<1>1. Len(s) \in Nat /\ \A k \in n + 1 .. Len(s) : s[k] \in S
    BY LenProperties, ElementOfSeq
<1>. QED  BY <1>1, SubSeqProperties

-----------------------------------------------------------------------------
\* Types.

LEMMA TypeInit == Init => TypeOK
<1> SUFFICES ASSUME Init PROVE TypeOK
    OBVIOUS
<1>1. /\ connected \in BOOLEAN /\ issued \in 0 .. MaxCommands
      /\ pending \subseteq 1 .. issued /\ delivered \subseteq pending
      /\ recording \subseteq Commands
    <2>1. 0 \in 0 .. MaxCommands
        BY BridgeAssumption
    <2>. QED  BY <2>1 DEF Init
<1>2. executedLog \in Seq(Commands) /\ waiting \in Seq(Polls)
    BY DEF Init
<1>3. answer \in [Commands -> Answers \cup {"none"}] /\ handouts \in [Commands -> Nat]
    BY DEF Init
<1>4. phase \in [Polls -> Phases] /\ batch \in [Polls -> SUBSET Commands]
    BY DEF Init, Phases
<1>. QED  BY <1>1, <1>2, <1>3, <1>4 DEF TypeOK

LEMMA TypeStep == TypeOK /\ [Next]_bridgeVars => TypeOK'
<1> SUFFICES ASSUME TypeOK, [Next]_bridgeVars
             PROVE  TypeOK'
    OBVIOUS
<1> USE BridgeAssumption
<1>1. CASE HandleExecute
    <2> DEFINE c == issued + 1
    <2>1. /\ c \in Commands /\ issued' = c /\ pending' = pending \cup {c}
          /\ connected' = connected /\ answer' = answer
          /\ recording' = recording /\ executedLog' = executedLog
        BY <1>1 DEF HandleExecute, logVars
    <2>2. /\ issued' \in 0 .. MaxCommands
          /\ pending' \subseteq 1 .. issued'
        BY <2>1 DEF TypeOK, Commands
    <2>3. CASE waiting = <<>>
        BY <1>1, <2>1, <2>2, <2>3 DEF HandleExecute, TypeOK, pollVars
    <2>4. CASE waiting # <<>>
        <3>1. Head(waiting) \in Polls /\ Tail(waiting) \in Seq(Polls)
            BY <2>4, HeadTailProperties DEF TypeOK
        <3>2. /\ delivered' = delivered \cup {c} /\ waiting' = Tail(waiting)
              /\ phase' = [phase EXCEPT ![Head(waiting)] = "answered"]
              /\ batch' = [batch EXCEPT ![Head(waiting)] = {c}]
              /\ HandOut({c})
            BY <1>1, <2>4 DEF HandleExecute, AnswerPoll
        <3>3. handouts' \in [Commands -> Nat]
            BY <3>2 DEF HandOut, TypeOK
        <3>4. phase' \in [Polls -> Phases] /\ batch' \in [Polls -> SUBSET Commands]
            BY <2>1, <3>1, <3>2 DEF TypeOK, Phases
        <3>. QED  BY <2>1, <2>2, <3>1, <3>2, <3>3, <3>4 DEF TypeOK
    <2>. QED  BY <2>3, <2>4
<1>2. ASSUME NEW c \in Commands, CommandTimeout(c)
      PROVE  TypeOK'
    BY <1>2 DEF CommandTimeout, AnswerCaller, TypeOK, Answers, logVars, pollVars
<1>3. ASSUME NEW c \in Commands, NEW verdict \in {"value", "error"}, HandleResult(c, verdict)
      PROVE  TypeOK'
    BY <1>3 DEF HandleResult, AnswerCaller, TypeOK, Answers, pollVars
<1>4. ASSUME NEW c \in Commands, RecordExecuted(c)
      PROVE  TypeOK'
    BY <1>4, PrunedProperties, AppendProperties
    DEF RecordExecuted, PruneExpiredEntries, TypeOK, queueVars, pollVars
<1>5. ASSUME NEW p \in Polls, NEW mayWait \in BOOLEAN, PollDrain(p, mayWait)
      PROVE  TypeOK'
    <2>1. /\ connected' = connected /\ issued' = issued /\ pending' = pending
          /\ answer' = answer /\ recording' = recording /\ executedLog' = executedLog
          /\ waiting' = waiting
        BY <1>5 DEF PollDrain, logVars
    <2>2. delivered' \subseteq pending'
        BY <1>5 DEF PollDrain, TypeOK
    <2>3. handouts' \in [Commands -> Nat]
        BY <1>5 DEF PollDrain, HandOut, TypeOK
    <2>4. phase' \in [Polls -> Phases]
        BY <1>5 DEF PollDrain, AnswerPoll, TypeOK, Phases
    <2>5. batch' \in [Polls -> SUBSET Commands]
        <3>1. Undelivered \subseteq Commands
            BY DEF Undelivered, TypeOK, Commands
        <3>. QED  BY <1>5, <3>1 DEF PollDrain, AnswerPoll, TypeOK
    <2>. QED  BY <2>1, <2>2, <2>3, <2>4, <2>5 DEF TypeOK
<1>6. ASSUME NEW p \in Polls, PollSuspend(p)
      PROVE  TypeOK'
    BY <1>6, AppendProperties DEF PollSuspend, TypeOK, Phases, queueVars, logVars
<1>7. ASSUME NEW p \in Polls, PollTimeout(p)
      PROVE  TypeOK'
    BY <1>7, RemoveAtProperties, SMTT(40) DEF PollTimeout, AnswerPoll, TypeOK, Phases, queueVars, logVars
<1>8. ASSUME NEW p \in Polls, PollReturn(p)
      PROVE  TypeOK'
    BY <1>8 DEF PollReturn, TypeOK, Phases, queueVars, logVars
<1>9. CASE HandleConnected
    BY <1>9 DEF HandleConnected, TypeOK, queueVars, logVars, pollVars
<1>10. CASE HandleDisconnected
    <2>1. phase' \in [Polls -> Phases]
        BY <1>10 DEF HandleDisconnected, TypeOK, Phases
    <2>2. handouts' \in [Commands -> Nat]
        BY <1>10 DEF HandleDisconnected
    <2>3. waiting' \in Seq(Polls)
        <3>1. waiting' = <<>>
            BY <1>10 DEF HandleDisconnected
        <3>2. <<>> \in Seq(Polls)
            OBVIOUS
        <3>. QED  BY <3>1, <3>2
    <2>4. UNCHANGED <<issued, pending, answer, recording, executedLog, batch>>
        BY <1>10 DEF HandleDisconnected, logVars
    <2>5. connected' \in BOOLEAN /\ delivered' \subseteq pending'
        BY <1>10 DEF HandleDisconnected
    <2>. QED  BY <2>1, <2>2, <2>3, <2>4, <2>5 DEF TypeOK
<1>11. ASSUME NEW ids \in SUBSET (1 .. issued), Connect(ids) \/ Reconcile(ids)
       PROVE  TypeOK'
    <2>1. ReconcilePush(ids) /\ connected' \in BOOLEAN
        BY <1>11 DEF Connect, Reconcile, TypeOK
    <2>2. delivered' \subseteq pending'
        BY <2>1 DEF ReconcilePush, PushNew, Undelivered, TypeOK
    <2>3. executedLog' \in Seq(Commands)
        BY <2>1, PrunedProperties DEF ReconcilePush, PruneExpiredEntries, TypeOK
    <2>4. handouts' \in [Commands -> Nat]
        BY <2>1 DEF ReconcilePush, HandOut, TypeOK
    <2>. QED  BY <2>1, <2>2, <2>3, <2>4 DEF ReconcilePush, TypeOK, pollVars
<1>12. CASE HealthSnapshot
    BY <1>12, PrunedProperties
    DEF HealthSnapshot, PruneExpiredEntries, TypeOK, queueVars, pollVars
<1>13. CASE Restart
    <2>1. /\ connected' \in BOOLEAN /\ issued' = issued /\ pending' = {} /\ delivered' = {}
          /\ recording' = {} /\ executedLog' = <<>> /\ waiting' = <<>>
        BY <1>13 DEF Restart
    <2>2. answer' \in [Commands -> Answers \cup {"none"}]
        BY <1>13 DEF Restart, TypeOK, Answers
    <2>3. phase' \in [Polls -> Phases]
        BY <1>13 DEF Restart, Phases
    <2>4. batch' \in [Polls -> SUBSET Commands] /\ handouts' \in [Commands -> Nat]
        BY <1>13 DEF Restart
    <2>5. <<>> \in Seq(Commands) /\ <<>> \in Seq(Polls)
        OBVIOUS
    <2>. QED  BY <2>1, <2>2, <2>3, <2>4, <2>5 DEF TypeOK
<1>14. CASE UNCHANGED bridgeVars
    BY <1>14 DEF bridgeVars, queueVars, logVars, pollVars, TypeOK
<1>. QED
    BY <1>1, <1>2, <1>3, <1>4, <1>5, <1>6, <1>7, <1>8, <1>9, <1>10, <1>11, <1>12, <1>13,
       <1>14 DEF Next

\* The state of the bridge keeps its types: in particular the delivered flag
\* sits on queued commands only, and only accepted commands are queued.
THEOREM TypeCorrect == Spec => []TypeOK
BY TypeInit, TypeStep, PTL DEF Spec

-----------------------------------------------------------------------------
\* Callers.

LEMMA CallerStep ==
    TypeOK /\ CallerConservation /\ [Next]_bridgeVars => CallerConservation'
<1> SUFFICES ASSUME TypeOK, CallerConservation, [Next]_bridgeVars
             PROVE  CallerConservation'
    OBVIOUS
<1> USE BridgeAssumption DEF CallerConservation
<1>1. CASE HandleExecute
    BY <1>1 DEF HandleExecute, TypeOK, Commands
<1>2. ASSUME NEW c \in Commands, NEW a \in Answers, c \in pending,
             AnswerCaller(c, a), issued' = issued
      PROVE  CallerConservation'
    BY <1>2 DEF AnswerCaller, TypeOK, Answers
<1>3. ASSUME UNCHANGED <<issued, pending, answer>>
      PROVE  CallerConservation'
    BY <1>3
<1>4. ASSUME NEW c \in Commands, CommandTimeout(c)
      PROVE  CallerConservation'
    BY <1>2, <1>4 DEF CommandTimeout, Answers
<1>5. ASSUME NEW c \in Commands, NEW verdict \in {"value", "error"}, HandleResult(c, verdict)
      PROVE  CallerConservation'
    BY <1>2, <1>5 DEF HandleResult, Answers
<1>6. CASE Restart
    BY <1>6 DEF Restart, TypeOK, Commands
<1>7. ASSUME NEW c \in Commands, RecordExecuted(c)
      PROVE  CallerConservation'
    BY <1>3, <1>7 DEF RecordExecuted, queueVars
<1>8. ASSUME NEW p \in Polls,
             \/ \E mayWait \in BOOLEAN : PollDrain(p, mayWait)
             \/ PollSuspend(p) \/ PollTimeout(p) \/ PollReturn(p)
      PROVE  CallerConservation'
    BY <1>3, <1>8 DEF PollDrain, PollSuspend, PollTimeout, PollReturn, queueVars
<1>9. CASE HandleConnected \/ HandleDisconnected \/ HealthSnapshot \/ UNCHANGED bridgeVars
    BY <1>3, <1>9 DEF HandleConnected, HandleDisconnected, HealthSnapshot, bridgeVars, queueVars
<1>10. ASSUME NEW ids \in SUBSET (1 .. issued), Connect(ids) \/ Reconcile(ids)
       PROVE  CallerConservation'
    BY <1>3, <1>10 DEF Connect, Reconcile, ReconcilePush
<1>. QED
    BY <1>1, <1>4, <1>5, <1>6, <1>7, <1>8, <1>9, <1>10 DEF Next

\* A command is queued exactly while its caller is unanswered: whatever the
\* interleaving of timeouts, results and restarts, nobody is answered twice.
THEOREM CallersConserved == Spec => []CallerConservation
<1>1. Init => CallerConservation
    BY DEF Init, CallerConservation, Commands
<1>. QED  BY <1>1, CallerStep, TypeCorrect, PTL DEF Spec

-----------------------------------------------------------------------------
\* Hand-outs.

LEMMA HandOutStep ==
    TypeOK /\ HandedOutOnce /\ [Next]_bridgeVars => HandedOutOnce'
<1> SUFFICES ASSUME TypeOK, HandedOutOnce, [Next]_bridgeVars
             PROVE  HandedOutOnce'
    OBVIOUS
<1> USE BridgeAssumption DEF HandedOutOnce
<1>1. CASE HandleExecute
    <2> DEFINE c == issued + 1
    <2>1. c \in Commands /\ issued' = c /\ pending' = pending \cup {c}
        BY <1>1 DEF HandleExecute
    <2>2. handouts[c] = 0 /\ c \notin pending /\ c \in Nat
        BY <2>1 DEF TypeOK, Commands
    <2>3. CASE delivered' = delivered /\ handouts' = handouts
        BY <2>1, <2>2, <2>3 DEF TypeOK, Commands
    <2>4. CASE delivered' = delivered \cup {c} /\ HandOut({c})
        <3>1. \A d \in Commands : handouts'[d] = IF d = c THEN 1 ELSE handouts[d]
            BY <2>2, <2>4 DEF HandOut
        <3>2. \A d \in Commands : handouts'[d] \in {0, 1} /\ (d > issued' => handouts'[d] = 0)
            BY <2>1, <3>1 DEF TypeOK, Commands
        <3>3. pending \subseteq Commands
            BY DEF TypeOK, Commands
        <3>4. \A d \in pending : d # c /\ handouts'[d] = handouts[d]
            BY <2>2, <3>1, <3>3
        <3>5. delivered' = {d \in pending' : handouts'[d] = 1}
            BY <2>1, <2>4, <3>1, <3>4
        <3>. QED  BY <3>2, <3>5
    <2>. QED  BY <1>1, <2>3, <2>4 DEF HandleExecute
<1>2. ASSUME NEW S \in SUBSET Undelivered, HandOut(S), delivered' = delivered \cup S,
             UNCHANGED <<issued, pending>>
      PROVE  HandedOutOnce'
    <2>1. /\ pending \subseteq Commands
          /\ \A d \in S : d \in pending /\ d <= issued /\ handouts[d] = 0
        BY <1>2 DEF Undelivered, TypeOK, Commands
    <2>2. \A d \in Commands : handouts'[d] = IF d \in S THEN 1 ELSE handouts[d]
        BY <1>2, <2>1 DEF HandOut
    <2>3. \A d \in Commands : handouts'[d] \in {0, 1} /\ (d > issued' => handouts'[d] = 0)
        BY <1>2, <2>1, <2>2 DEF TypeOK, Commands
    <2>4. delivered' = {d \in pending' : handouts'[d] = 1}
        BY <1>2, <2>1, <2>2
    <2>. QED  BY <2>3, <2>4
<1>3. ASSUME NEW c \in Commands, NEW a \in Answers, AnswerCaller(c, a),
             UNCHANGED <<issued, handouts>>
      PROVE  HandedOutOnce'
    BY <1>3 DEF AnswerCaller, TypeOK
<1>4. ASSUME UNCHANGED <<issued, pending, delivered, handouts>>
      PROVE  HandedOutOnce'
    BY <1>4
<1>5. ASSUME delivered' = {}, handouts' = [c \in Commands |-> 0], issued' = issued,
             pending' \subseteq pending
      PROVE  HandedOutOnce'
    <2>1. \A d \in Commands : handouts'[d] = 0
        BY <1>5
    <2>2. \A d \in pending' : handouts'[d] = 0
        BY <1>5, <2>1 DEF TypeOK, Commands
    <2>. QED  BY <1>5, <2>1, <2>2
<1>6. ASSUME NEW c \in Commands,
             \/ CommandTimeout(c)
             \/ \E verdict \in {"value", "error"} : HandleResult(c, verdict)
      PROVE  HandedOutOnce'
    BY <1>3, <1>6 DEF CommandTimeout, HandleResult, Answers
<1>7. ASSUME NEW c \in Commands, RecordExecuted(c)
      PROVE  HandedOutOnce'
    BY <1>4, <1>7 DEF RecordExecuted, queueVars
<1>8. ASSUME NEW p \in Polls, NEW mayWait \in BOOLEAN, PollDrain(p, mayWait)
      PROVE  HandedOutOnce'
    <2>1. CASE Undelivered = {} /\ mayWait
        BY <1>4, <1>8, <2>1 DEF PollDrain
    <2>2. CASE ~(Undelivered = {} /\ mayWait)
        <3>1. HandOut(Undelivered) /\ delivered' = delivered \cup Undelivered
              /\ UNCHANGED <<issued, pending>>
            BY <1>8, <2>2 DEF PollDrain, Undelivered, TypeOK
        <3>. QED  BY <1>2, <3>1
    <2>. QED  BY <2>1, <2>2
<1>9. ASSUME NEW p \in Polls, PollSuspend(p) \/ PollTimeout(p) \/ PollReturn(p)
      PROVE  HandedOutOnce'
    BY <1>4, <1>9 DEF PollSuspend, PollTimeout, PollReturn, queueVars
<1>10. CASE HandleDisconnected \/ Restart
    BY <1>5, <1>10 DEF HandleDisconnected, Restart
<1>11. ASSUME NEW ids \in SUBSET (1 .. issued), Connect(ids) \/ Reconcile(ids)
       PROVE  HandedOutOnce'
    <2>1. PushNew(ids) \in SUBSET Undelivered
        BY DEF PushNew
    <2>. QED  BY <1>2, <1>11, <2>1 DEF Connect, Reconcile, ReconcilePush
<1>12. CASE HandleConnected \/ HealthSnapshot \/ UNCHANGED bridgeVars
    BY <1>4, <1>12 DEF HandleConnected, HealthSnapshot, bridgeVars, queueVars
<1>. QED
    BY <1>1, <1>6, <1>7, <1>8, <1>9, <1>10, <1>11, <1>12 DEF Next

\* Between two disconnects no interleaving of polls, fast paths and reconciles
\* hands a command to the extension twice, and a delivered flag never lies.
THEOREM NeverHandedOutTwice == Spec => []HandedOutOnce
<1>1. Init => HandedOutOnce
    BY DEF Init, HandedOutOnce, Commands
<1>. QED  BY <1>1, HandOutStep, TypeCorrect, PTL DEF Spec

-----------------------------------------------------------------------------
\* Suspended polls.

\* Taking one entry out of waitingPolls and answering that poll, whichever of
\* the two places does it.
LEMMA PollLeaves ==
    ASSUME TypeOK, PollConservation,
           NEW i \in 1 .. Len(waiting), NEW S, AnswerPoll(waiting[i], S),
           waiting' \in Seq(Polls), Len(waiting') = Len(waiting) - 1,
           \A j \in 1 .. Len(waiting) - 1 :
                waiting'[j] = IF j < i THEN waiting[j] ELSE waiting[j + 1]
    PROVE  PollConservation'
<1>1. /\ Len(waiting) \in Nat
      /\ \A j \in 1 .. Len(waiting) : waiting[j] \in Polls
    BY LenProperties, ElementOfSeq DEF TypeOK
<1>2. \A p \in Polls : phase'[p] = IF p = waiting[i] THEN "answered" ELSE phase[p]
    BY DEF AnswerPoll, TypeOK
<1>3. ASSUME NEW p \in Polls, phase'[p] = "waiting"
      PROVE  \E j \in 1 .. Len(waiting') : waiting'[j] = p
    <2>1. p # waiting[i] /\ phase[p] = "waiting"
        BY <1>2, <1>3
    <2>2. PICK k \in 1 .. Len(waiting) : waiting[k] = p
        BY <2>1 DEF PollConservation
    <2>3. CASE k < i
        BY <1>1, <2>2, <2>3
    <2>4. CASE k > i
        <3>1. k - 1 \in 1 .. Len(waiting) - 1 /\ ~(k - 1 < i) /\ (k - 1) + 1 = k
            BY <1>1, <2>4
        <3>. QED  BY <2>2, <3>1
    <2>. QED  BY <1>1, <2>1, <2>2, <2>3, <2>4
<1>4. ASSUME NEW p \in Polls, NEW j \in 1 .. Len(waiting'), waiting'[j] = p
      PROVE  phase'[p] = "waiting"
    <2>1. PICK k \in 1 .. Len(waiting) : k # i /\ waiting[k] = p
        BY <1>1, <1>4
    <2>. QED  BY <1>2, <2>1 DEF PollConservation
<1>5. ASSUME NEW j \in 1 .. Len(waiting'), NEW k \in 1 .. Len(waiting'),
             waiting'[j] = waiting'[k]
      PROVE  j = k
    <2> DEFINE f(n) == IF n < i THEN n ELSE n + 1
    <2>1. f(j) \in 1 .. Len(waiting) /\ f(k) \in 1 .. Len(waiting)
        BY <1>1
    <2>2. waiting[f(j)] = waiting[f(k)]
        BY <1>1, <1>5
    <2>3. f(j) = f(k)
        BY <2>1, <2>2 DEF PollConservation
    <2>. QED  BY <1>1, <2>3
<1>. QED  BY <1>3, <1>4, <1>5 DEF PollConservation

LEMMA PollStep ==
    TypeOK /\ TypeOK' /\ PollConservation /\ [Next]_bridgeVars => PollConservation'
<1> SUFFICES ASSUME TypeOK, TypeOK', PollConservation, [Next]_bridgeVars
             PROVE  PollConservation'
    OBVIOUS
<1>1. ASSUME waiting' = waiting,
             \A p \in Polls : phase'[p] = "waiting" <=> phase[p] = "waiting"
      PROVE  PollConservation'
    BY <1>1 DEF PollConservation
<1>2. ASSUME waiting' = waiting, phase' = phase
      PROVE  PollConservation'
    BY <1>1, <1>2
<1>3. CASE HandleExecute
    <2>1. CASE waiting = <<>>
        BY <1>2, <1>3, <2>1 DEF HandleExecute, pollVars
    <2>2. CASE waiting # <<>>
        <3>1. /\ 1 \in 1 .. Len(waiting) /\ Head(waiting) = waiting[1]
              /\ Tail(waiting) \in Seq(Polls) /\ Len(Tail(waiting)) = Len(waiting) - 1
              /\ \A j \in 1 .. Len(waiting) - 1 : Tail(waiting)[j] = waiting[j + 1]
            BY <2>2, EmptySeq, HeadTailProperties DEF TypeOK
        <3>2. waiting' = Tail(waiting) /\ AnswerPoll(waiting[1], {issued + 1})
            BY <1>3, <2>2, <3>1 DEF HandleExecute
        <3>3. \A j \in 1 .. Len(waiting) - 1 :
                waiting'[j] = IF j < 1 THEN waiting[j] ELSE waiting[j + 1]
            BY <3>1, <3>2
        <3>. QED  BY <3>1, <3>2, <3>3, PollLeaves
    <2>. QED  BY <2>1, <2>2
<1>4. ASSUME NEW p \in Polls, PollTimeout(p)
      PROVE  PollConservation'
    <2>1. PICK i \in 1 .. Len(waiting) : waiting[i] = p /\ waiting' = RemoveAt(waiting, i)
        BY <1>4 DEF PollTimeout
    <2>2. AnswerPoll(waiting[i], {})
        BY <1>4, <2>1 DEF PollTimeout
    <2>3. /\ waiting' \in Seq(Polls) /\ Len(waiting') = Len(waiting) - 1
          /\ \A j \in 1 .. Len(waiting) - 1 :
                waiting'[j] = IF j < i THEN waiting[j] ELSE waiting[j + 1]
        BY <2>1, RemoveAtProperties DEF TypeOK
    <2>. QED  BY <2>2, <2>3, PollLeaves
<1>5. ASSUME NEW p \in Polls, PollSuspend(p)
      PROVE  PollConservation'
    <2>1. phase[p] = "drained" /\ phase' = [phase EXCEPT ![p] = "waiting"]
          /\ waiting' = Append(waiting, p)
        BY <1>5 DEF PollSuspend
    <2>2. /\ Len(waiting) \in Nat /\ Len(waiting') = Len(waiting) + 1
          /\ \A j \in 1 .. Len(waiting) : waiting'[j] = waiting[j]
          /\ waiting'[Len(waiting) + 1] = p
        BY <2>1, LenProperties, AppendProperties DEF TypeOK
    <2>3. \A j \in 1 .. Len(waiting) : waiting[j] \in Polls /\ waiting[j] # p
        BY <2>1, ElementOfSeq DEF TypeOK, PollConservation
    <2>4. \A q \in Polls : phase'[q] = "waiting" <=> q = p \/ phase[q] = "waiting"
        BY <2>1 DEF TypeOK
    <2>5. \A q \in Polls :
            (\E j \in 1 .. Len(waiting') : waiting'[j] = q)
                <=> (q = p \/ \E j \in 1 .. Len(waiting) : waiting[j] = q)
        BY <2>2
    <2>6. \A j, k \in 1 .. Len(waiting') : waiting'[j] = waiting'[k] => j = k
        BY <2>2, <2>3 DEF PollConservation
    <2>. QED  BY <2>4, <2>5, <2>6 DEF PollConservation
<1>6. ASSUME NEW p \in Polls,
             (\E mayWait \in BOOLEAN : PollDrain(p, mayWait)) \/ PollReturn(p)
      PROVE  PollConservation'
    BY <1>1, <1>6 DEF PollDrain, PollReturn, AnswerPoll, TypeOK
<1>7. CASE HandleDisconnected \/ Restart
    <2>1. waiting' = <<>> /\ \A p \in Polls : phase'[p] # "waiting"
        BY <1>7 DEF HandleDisconnected, Restart
    <2>2. Len(waiting') = 0
        BY <2>1, EmptySeq
    <2>. QED  BY <2>1, <2>2 DEF PollConservation
<1>8. ASSUME NEW c \in Commands,
             \/ CommandTimeout(c) \/ RecordExecuted(c)
             \/ \E verdict \in {"value", "error"} : HandleResult(c, verdict)
      PROVE  PollConservation'
    BY <1>2, <1>8 DEF CommandTimeout, RecordExecuted, HandleResult, pollVars
<1>9. CASE HandleConnected \/ HealthSnapshot \/ UNCHANGED bridgeVars
    BY <1>2, <1>9 DEF HandleConnected, HealthSnapshot, bridgeVars, pollVars
<1>10. ASSUME NEW ids \in SUBSET (1 .. issued), Connect(ids) \/ Reconcile(ids)
       PROVE  PollConservation'
    BY <1>2, <1>10 DEF Connect, Reconcile, ReconcilePush, pollVars
<1>. QED
    BY <1>3, <1>4, <1>5, <1>6, <1>7, <1>8, <1>9, <1>10 DEF Next

\* A suspended poll is in waitingPolls exactly once, so the fast path, its own
\* timeout and a disconnect can never resume one continuation twice.
THEOREM PollsConserved == Spec => []PollConservation
<1>1. Init => PollConservation
    BY EmptySeq DEF Init, PollConservation
<1>. QED  BY <1>1, PollStep, TypeCorrect, PTL DEF Spec
-----------------------------------------------------------------------------
\* The executed log.

\* Commands answered with the extension's own result.
Resulted == {c \in Commands : answer[c] \in {"value", "error"}}

\* LogMeansResult reads only the log, the commands on their way into it and
\* the answers; the log may lose its oldest entries and answers may be added.
LEMMA LogShrinks ==
    ASSUME TypeOK, LogMeansResult, NEW n \in 0 .. Len(executedLog),
           executedLog' = PruneExpiredEntries(n), recording' \subseteq recording,
           Resulted \subseteq Resulted'
    PROVE  LogMeansResult'
<1>1. /\ Len(executedLog') = Len(executedLog) - n
      /\ \A i \in 1 .. Len(executedLog') :
            i + n \in 1 .. Len(executedLog) /\ executedLog'[i] = executedLog[i + n]
    BY PrunedProperties DEF PruneExpiredEntries, TypeOK
<1>2. \A i \in 1 .. Len(executedLog) : executedLog[i] \in Resulted
    BY ElementOfSeq DEF LogMeansResult, Resulted, TypeOK
<1>3. recording \subseteq Resulted
    BY DEF LogMeansResult, Resulted, TypeOK
<1>4. \A i \in 1 .. Len(executedLog') :
        /\ answer'[executedLog'[i]] \in {"value", "error"}
        /\ executedLog'[i] \notin recording'
    <2> TAKE i \in 1 .. Len(executedLog')
    <2>1. executedLog'[i] \in Resulted'
        BY <1>1, <1>2
    <2>2. executedLog'[i] \notin recording
        BY <1>1 DEF LogMeansResult
    <2>. QED  BY <2>1, <2>2 DEF Resulted
<1>5. ASSUME NEW i \in 1 .. Len(executedLog'), NEW j \in 1 .. Len(executedLog'),
             executedLog'[i] = executedLog'[j]
      PROVE  i = j
    <2>1. i + n = j + n
        BY <1>1, <1>5 DEF LogMeansResult
    <2>. QED  BY <2>1
<1>6. \A c \in recording' : answer'[c] \in {"value", "error"}
    BY <1>3 DEF Resulted
<1>. QED  BY <1>4, <1>5, <1>6 DEF LogMeansResult

LEMMA LogKept ==
    ASSUME TypeOK, LogMeansResult, executedLog' = executedLog, recording' \subseteq recording,
           Resulted \subseteq Resulted'
    PROVE  LogMeansResult'
<1>1. \A i \in 1 .. Len(executedLog) : executedLog[i] \in Resulted
    BY ElementOfSeq DEF LogMeansResult, Resulted, TypeOK
<1>2. recording \subseteq Resulted
    BY DEF LogMeansResult, Resulted, TypeOK
<1>. QED  BY <1>1, <1>2 DEF LogMeansResult, Resulted

LEMMA LogStep ==
    TypeOK /\ CallerConservation /\ LogMeansResult /\ [Next]_bridgeVars => LogMeansResult'
<1> SUFFICES ASSUME TypeOK, CallerConservation, LogMeansResult, [Next]_bridgeVars
             PROVE  LogMeansResult'
    OBVIOUS
<1>1. ASSUME answer' = answer PROVE Resulted \subseteq Resulted'
    BY <1>1 DEF Resulted
<1>2. ASSUME NEW c \in Commands, c \in pending, NEW a \in Answers, AnswerCaller(c, a)
      PROVE  /\ c \notin Resulted
             /\ Resulted \subseteq Resulted'
             /\ a \in {"value", "error"} => c \in Resulted'
    BY <1>2 DEF AnswerCaller, Resulted, CallerConservation, TypeOK
<1>3. ASSUME NEW c \in Commands, CommandTimeout(c)
      PROVE  LogMeansResult'
    <2>1. Resulted \subseteq Resulted'
        BY <1>2, <1>3 DEF CommandTimeout, Answers
    <2>. QED  BY <1>3, <2>1, LogKept DEF CommandTimeout, logVars
<1>4. ASSUME NEW c \in Commands, NEW verdict \in {"value", "error"}, HandleResult(c, verdict)
      PROVE  LogMeansResult'
    <2>1. /\ c \notin Resulted /\ Resulted \subseteq Resulted' /\ c \in Resulted'
          /\ executedLog' = executedLog /\ recording' = recording \cup {c}
        BY <1>2, <1>4 DEF HandleResult, Answers
    <2>2. \A i \in 1 .. Len(executedLog) : executedLog[i] \in Resulted
        BY ElementOfSeq DEF LogMeansResult, Resulted, TypeOK
    <2>3. recording \subseteq Resulted
        BY DEF LogMeansResult, Resulted, TypeOK
    <2>. QED  BY <2>1, <2>2, <2>3 DEF LogMeansResult, Resulted
<1>5. ASSUME NEW c \in Commands, RecordExecuted(c)
      PROVE  LogMeansResult'
    <2>1. PICK n \in 0 .. Len(executedLog) : executedLog' = Append(PruneExpiredEntries(n), c)
        BY <1>5 DEF RecordExecuted
    <2> DEFINE t == PruneExpiredEntries(n)
    <2>2. /\ t \in Seq(Commands) /\ Len(t) \in Nat
          /\ \A i \in 1 .. Len(t) : i + n \in 1 .. Len(executedLog) /\ t[i] = executedLog[i + n]
        BY PrunedProperties, LenProperties DEF PruneExpiredEntries, TypeOK
    <2> HIDE DEF t
    <2>3. /\ Len(executedLog') = Len(t) + 1
          /\ \A i \in 1 .. Len(t) : executedLog'[i] = t[i]
          /\ executedLog'[Len(t) + 1] = c
        BY <2>1, <2>2, AppendProperties DEF t
    <2>4. c \in recording /\ recording' = recording \ {c} /\ answer' = answer
        BY <1>5 DEF RecordExecuted, queueVars
    <2>5. \A i \in 1 .. Len(t) :
            answer[t[i]] \in {"value", "error"} /\ t[i] \notin recording /\ t[i] # c
        BY <2>2, <2>4 DEF LogMeansResult
    <2>6. ASSUME NEW i \in 1 .. Len(t), NEW j \in 1 .. Len(t), t[i] = t[j]
          PROVE  i = j
        <3>1. i + n = j + n
            BY <2>2, <2>6 DEF LogMeansResult
        <3>. QED  BY <3>1
    <2>7. \A i \in 1 .. Len(executedLog') :
            /\ answer'[executedLog'[i]] \in {"value", "error"}
            /\ executedLog'[i] \notin recording'
        BY <2>2, <2>3, <2>4, <2>5 DEF LogMeansResult
    <2>8. ASSUME NEW i \in 1 .. Len(executedLog'), NEW j \in 1 .. Len(executedLog'),
                 executedLog'[i] = executedLog'[j]
          PROVE  i = j
        <3>1. \A k \in 1 .. Len(executedLog') : k \in 1 .. Len(t) \/ k = Len(t) + 1
            BY <2>2, <2>3
        <3>2. \A k \in 1 .. Len(t) : executedLog'[k] # c
            BY <2>3, <2>5
        <3>3. CASE i \in 1 .. Len(t) /\ j \in 1 .. Len(t)
            BY <2>3, <2>6, <2>8, <3>3
        <3>. QED  BY <2>3, <2>8, <3>1, <3>2, <3>3
    <2>9. \A d \in recording' : answer'[d] \in {"value", "error"}
        BY <2>4 DEF LogMeansResult
    <2>. QED  BY <2>7, <2>8, <2>9 DEF LogMeansResult
<1>6. ASSUME NEW ids \in SUBSET (1 .. issued), Connect(ids) \/ Reconcile(ids)
      PROVE  LogMeansResult'
    BY <1>1, <1>6, LogShrinks DEF Connect, Reconcile, ReconcilePush
<1>7. CASE HealthSnapshot
    BY <1>1, <1>7, LogShrinks DEF HealthSnapshot, queueVars
<1>8. CASE Restart
    <2>1. executedLog' = <<>> /\ recording' = {}
        BY <1>8 DEF Restart
    <2>2. Len(executedLog') = 0
        BY <2>1, EmptySeq
    <2>. QED  BY <2>1, <2>2 DEF LogMeansResult
<1>9. CASE HandleExecute
    BY <1>1, <1>9, LogKept DEF HandleExecute, logVars
<1>10. ASSUME NEW p \in Polls,
              \/ \E mayWait \in BOOLEAN : PollDrain(p, mayWait)
              \/ PollSuspend(p) \/ PollTimeout(p) \/ PollReturn(p)
       PROVE  LogMeansResult'
    <2>1. answer' = answer /\ executedLog' = executedLog /\ recording' = recording
        BY <1>10 DEF PollDrain, PollSuspend, PollTimeout, PollReturn, queueVars, logVars
    <2>. QED  BY <1>1, <2>1, LogKept
<1>11. CASE HandleConnected \/ HandleDisconnected \/ UNCHANGED bridgeVars
    <2>1. answer' = answer /\ executedLog' = executedLog /\ recording' = recording
        BY <1>11 DEF HandleConnected, HandleDisconnected, bridgeVars, queueVars, logVars
    <2>. QED  BY <1>1, <2>1, LogKept
<1>. QED
    BY <1>3, <1>4, <1>5, <1>6, <1>7, <1>8, <1>9, <1>10, <1>11 DEF Next

\* What reconcile acknowledges as executed was answered with a result of the
\* extension: never a command that timed out or whose caller was dropped.
THEOREM LogIsHonest == Spec => []LogMeansResult
<1>1. Init => LogMeansResult
    BY EmptySeq DEF Init, LogMeansResult
<1>. QED  BY <1>1, LogStep, TypeCorrect, CallersConserved, PTL DEF Spec

-----------------------------------------------------------------------------
\* Refinement of CommandExchange, without its fairness.

LEMMA ExchangeStep ==
    TypeOK /\ CallerConservation /\ [Next]_bridgeVars
        => [Exchange!Next]_([c \in Commands |-> CallOf(c)])
<1> SUFFICES ASSUME TypeOK, CallerConservation, [Next]_bridgeVars
             PROVE  [Exchange!Next]_([c \in Commands |-> CallOf(c)])
    OBVIOUS
<1> DEFINE call == [c \in Commands |-> CallOf(c)]
<1>1. Exchange!Commands = Commands /\ Exchange!Answers = Answers
    BY DEF Exchange!Commands, Commands, Exchange!Answers, Answers
<1>2. ASSUME issued' = issued, answer' = answer
      PROVE  call' = call
    BY <1>2 DEF CallOf
<1>3. CASE HandleExecute
    <2> DEFINE c == issued + 1
    <2>1. c \in Commands /\ issued' = c /\ answer' = answer /\ issued \in Nat
        BY <1>3 DEF HandleExecute, TypeOK
    <2>2. answer[c] = "none"
        BY <2>1 DEF CallerConservation, Commands
    <2>3. call[c] = "unissued"
        BY <2>1 DEF CallOf, Commands
    <2>4. \A d \in Commands : CallOf(d)' = IF d = c THEN "open" ELSE CallOf(d)
        BY <2>1, <2>2 DEF CallOf, Commands
    <2>5. call' = [call EXCEPT ![c] = "open"]
        BY <2>1, <2>4
    <2>6. Exchange!Open(c)
        BY <2>3, <2>5 DEF Exchange!Open
    <2>. QED  BY <1>1, <2>1, <2>6 DEF Exchange!Next
<1>4. ASSUME NEW c \in Commands, c \in pending, NEW a \in Answers, AnswerCaller(c, a),
             issued' = issued
      PROVE  Exchange!Next
    <2>1. c <= issued /\ answer[c] = "none" /\ answer' = [answer EXCEPT ![c] = a]
        BY <1>4 DEF CallerConservation, AnswerCaller
    <2>2. ~(c > issued) /\ a # "none"
        BY <2>1 DEF Answers, Commands, TypeOK
    <2>3. call[c] = "open"
        BY <2>1, <2>2 DEF CallOf
    <2>4. call' = [call EXCEPT ![c] = a]
        BY <1>4, <2>1, <2>2 DEF CallOf, TypeOK
    <2>5. Exchange!Close(c)
        BY <1>1, <2>3, <2>4 DEF Exchange!Close
    <2>. QED  BY <1>1, <2>5 DEF Exchange!Next
<1>5. CASE Restart
    <2>1. issued' = issued
          /\ answer' = [c \in Commands |-> IF c \in pending THEN "dropped" ELSE answer[c]]
        BY <1>5 DEF Restart
    <2>2. \A c \in Commands : CallOf(c) = "open" <=> c \in pending
        BY DEF CallOf, CallerConservation, TypeOK, Answers, Commands
    <2>3. \A c \in Commands : CallOf(c)' = IF c \in pending THEN "dropped" ELSE CallOf(c)
        BY <2>1 DEF CallOf, CallerConservation, TypeOK, Commands
    <2>4. CASE pending = {}
        BY <2>3, <2>4
    <2>5. CASE pending # {}
        <3>1. \E c \in Commands : call[c] = "open"
            <4>1. pending \subseteq Commands
                BY BridgeAssumption DEF TypeOK, Commands
            <4>. QED  BY <2>2, <2>5, <4>1
        <3>2. call' = [c \in Commands |-> IF call[c] = "open" THEN "dropped" ELSE call[c]]
            BY <2>2, <2>3
        <3>. QED  BY <1>1, <3>1, <3>2 DEF Exchange!Next, Exchange!DropAll
    <2>. QED  BY <2>4, <2>5
<1>6. ASSUME NEW c \in Commands,
             \/ CommandTimeout(c)
             \/ \E verdict \in {"value", "error"} : HandleResult(c, verdict)
      PROVE  Exchange!Next
    BY <1>4, <1>6 DEF CommandTimeout, HandleResult, Answers
<1>7. ASSUME NEW c \in Commands, RecordExecuted(c)
      PROVE  call' = call
    BY <1>2, <1>7 DEF RecordExecuted, queueVars
<1>8. ASSUME NEW p \in Polls,
             \/ \E mayWait \in BOOLEAN : PollDrain(p, mayWait)
             \/ PollSuspend(p) \/ PollTimeout(p) \/ PollReturn(p)
      PROVE  call' = call
    BY <1>2, <1>8 DEF PollDrain, PollSuspend, PollTimeout, PollReturn, queueVars
<1>9. CASE HandleConnected \/ HandleDisconnected \/ HealthSnapshot \/ UNCHANGED bridgeVars
    <2>1. issued' = issued /\ answer' = answer
        BY <1>9 DEF HandleConnected, HandleDisconnected, HealthSnapshot, bridgeVars, queueVars
    <2>. QED  BY <1>2, <2>1
<1>10. ASSUME NEW ids \in SUBSET (1 .. issued), Connect(ids) \/ Reconcile(ids)
       PROVE  call' = call
    BY <1>2, <1>10 DEF Connect, Reconcile, ReconcilePush
<1>. QED
    BY <1>3, <1>5, <1>6, <1>7, <1>8, <1>9, <1>10 DEF Next

\* Every step of the bridge is a step of CommandExchange or invisible to the
\* callers: a call is opened once, answered once, and keeps its answer.
THEOREM BridgeImplementsExchange == Spec => Exchange!SafeSpec
<1>1. Init => Exchange!Init
    BY BridgeAssumption DEF Init, Exchange!Init, CallOf, Commands, Exchange!Commands
<1>. QED
    BY <1>1, ExchangeStep, TypeCorrect, CallersConserved, PTL DEF Spec, Exchange!SafeSpec

-----------------------------------------------------------------------------
\* The extension: the inductive invariants.

\* Every id the extension holds, reports or is handed was accepted by the daemon.
OnlyIssued ==
    /\ \A p \in Polls : batch[p] \subseteq 1 .. issued
    /\ \A r \in Runners : backlog[r] \subseteq 1 .. issued /\ cur[r] \in 0 .. issued
    /\ \A c \in Commands : store[c] # "absent" => c <= issued
    /\ report.executing \subseteq 1 .. issued
    /\ reply.pushNew \subseteq 1 .. issued

\* Wherever a value is on its way to the caller, a document ran the script.
ValueInv ==
    \A c \in Commands :
        /\ answer[c] = "value" \/ saved[c] = "value" \/ "value" \in posted[c] => effects[c] > 0
        /\ c \in processed => effects[c] > 0

\* A run of a command the document remembers is one its navigations do not
\* account for.
EffectInv ==
    \A c \in Commands :
        effects[c] <= count["navigation"] + (IF c \in processed THEN 1 ELSE 0)

\* Where a command is on its way to be begun: in the response of a poll, in the
\* batch of a runner, in the response to POST /connect.
Copies(c) ==
    {<<"poll", p>> : p \in {q \in Polls : c \in batch[q]}}
      \cup {<<"runner", r>> : r \in {q \in Runners : c \in backlog[q]}}
      \cup {<<"reply", x>> : x \in {y \in {0} : c \in reply.pushNew}}

\* Begun or on its way, a command left the daemon once per disconnect, and once
\* more unless it still waits in the queue.
Allowed(c) ==
    count["disconnect"] + (IF c <= issued /\ c \notin Undelivered THEN 1 ELSE 0)

ReplayInv ==
    \A c \in Commands :
        /\ IsFiniteSet(Copies(c))
        /\ starts[c] + Cardinality(Copies(c)) <= Allowed(c)

\* A command reconcile acknowledges has its caller answered.
AckedInv == \A c \in reply.acked : answer[c] # "none"

-----------------------------------------------------------------------------
\* Some natural number of a set is its smallest: of the intervals 1 .. x, ordered
\* by strict inclusion, one is minimal.
LEMMA MinOfNaturals ==
    ASSUME NEW S \in SUBSET Nat, S # {}
    PROVE  Min(S) \in S /\ \A y \in S : Min(S) <= y
<1> DEFINE R == StrictSubsetOrdering(Nat)
           T == {1 .. x : x \in S}
<1>1. T \subseteq FiniteSubsetsOf(Nat) /\ T # {}
    <2>1. ASSUME NEW x \in S
          PROVE  1 .. x \in FiniteSubsetsOf(Nat)
        <3>1. 1 \in Int /\ x \in Int /\ 1 .. x \in SUBSET Nat
            OBVIOUS
        <3>. QED  BY <3>1, FS_Interval DEF FiniteSubsetsOf
    <2>. QED  BY <2>1
<1>2. PICK I \in T : \A J \in T : ~(<<J, I>> \in R)
    <2>1. IsWellFoundedOn(R, FiniteSubsetsOf(Nat))
        BY FS_StrictSubsetOrderingWellFounded
    <2>. HIDE DEF R, T
    <2>. QED  BY <1>1, <2>1, WFMin
<1>3. PICK x \in S : I = 1 .. x
    OBVIOUS
<1>4. ASSUME NEW y \in S
      PROVE  x <= y
    <2>1. SUFFICES ASSUME y < x
                   PROVE  FALSE
        OBVIOUS
    <2>2. 1 .. y \subseteq 1 .. x /\ x \in 1 .. x /\ x \notin 1 .. y
        BY <2>1
    <2>3. <<1 .. y, 1 .. x>> \in R
        BY <2>2 DEF StrictSubsetOrdering
    <2>. QED  BY <1>2, <1>3, <2>3
<1>. QED  BY <1>3, <1>4 DEF Min

-----------------------------------------------------------------------------
\* The composition is a bridge with its clients.

\* What a step of the composition does to the bridge is a step of the bridge.
LEMMA BridgeSteps ==
    ASSUME IPCTypeOK, OnlyIssued, [IPCNext]_ipcVars
    PROVE  [Next]_bridgeVars
<1>1. ASSUME NEW p \in Polls, LoopFetch(p) \/ KeepAlivePoll(p) \/ ResponseUnread(p)
      PROVE  Next
    <2>1. PollDrain(p, TRUE) \/ PollReturn(p)
        BY <1>1 DEF LoopFetch, KeepAlivePoll, ResponseUnread
    <2>. QED  BY <2>1 DEF Next
<1>2. ASSUME LoopReceive
      PROVE  Next
    <2>1. fetch \in Polls /\ PollReturn(fetch)
        BY <1>2 DEF LoopReceive, IPCTypeOK
    <2>. QED  BY <2>1 DEF Next
<1>3. ASSUME LoopRetry
      PROVE  UNCHANGED bridgeVars
    BY <1>3 DEF LoopRetry
<1>4. ASSUME NEW r \in Runners, Begin(r) \/ BusTimeout(r) \/ ExecuteThrows(r)
      PROVE  UNCHANGED bridgeVars
    BY <1>4 DEF Begin, BusTimeout, ExecuteThrows
<1>5. ASSUME NEW c \in Commands, NEW result \in {"value", "error"},
             ContentRun(c) \/ ContentReply(c, result) \/ PostFails(c, result)
      PROVE  UNCHANGED bridgeVars
    BY <1>5 DEF ContentRun, ContentReply, PostFails
<1>6. ASSUME NEW c \in Commands, NEW result \in {"value", "error"}, PostArrives(c, result)
      PROVE  Next \/ UNCHANGED bridgeVars
    <2>1. HandleResult(c, result) \/ UNCHANGED bridgeVars
        BY <1>6 DEF PostArrives
    <2>. QED  BY <2>1 DEF Next
<1>7. ASSUME Navigate \/ PageDies
      PROVE  UNCHANGED bridgeVars
    BY <1>7 DEF Navigate, PageDies
<1>8. ASSUME WakeStart \/ WakeReconcile \/ WakeConnectFails \/ WakeFinish
      PROVE  UNCHANGED bridgeVars
    BY <1>8 DEF WakeStart, WakeReconcile, WakeConnectFails, WakeFinish
<1>9. ASSUME WakeConnect
      PROVE  Next
    <2>1. report.executing \in SUBSET (1 .. issued) /\ Connect(report.executing)
        BY <1>9 DEF WakeConnect, OnlyIssued
    <2>. QED  BY <2>1 DEF Next
<1>10. ASSUME SelfTest
       PROVE  Next
    <2>1. {} \in SUBSET (1 .. issued) /\ Connect({})
        BY <1>10 DEF SelfTest
    <2>. QED  BY <2>1 DEF Next
<1>11. ASSUME KeepAlivePing \/ CheckDisconnect \/ DaemonRestart
       PROVE  Next
    BY <1>11 DEF KeepAlivePing, CheckDisconnect, DaemonRestart, Next
<1>12. ASSUME BridgeStep
       PROVE  Next
    BY <1>12 DEF BridgeStep, Next
<1>13. ASSUME UNCHANGED ipcVars
       PROVE  UNCHANGED bridgeVars
    BY <1>13 DEF ipcVars
<1>. QED
    BY <1>1, <1>2, <1>3, <1>4, <1>5, <1>6, <1>7, <1>8, <1>9, <1>10, <1>11, <1>12, <1>13
    DEF IPCNext

-----------------------------------------------------------------------------
\* Types.

LEMMA IPCTypeInit == IPCInit => IPCTypeOK
<1> SUFFICES ASSUME IPCInit PROVE IPCTypeOK
    OBVIOUS
<1> USE BridgeAssumption, IPCAssumption
<1>1. /\ up \in BOOLEAN /\ loop \in Loops \cup {NoLoop, Stopped} /\ fetch \in Polls \cup {NoPoll}
      /\ wake \in {"idle", "connecting", "reconciled", "pushing"} /\ selfTest \in BOOLEAN
      /\ bus \subseteq Commands /\ running \subseteq processed /\ processed \subseteq Commands
    BY DEF IPCInit
<1>2. /\ backlog \in [Runners -> SUBSET Commands] /\ cur \in [Runners -> 0 .. MaxCommands]
      /\ \A r \in Runners : cur[r] = 0 /\ backlog[r] = {}
    BY DEF IPCInit
<1>3. /\ report \in [executed : SUBSET Commands, executing : SUBSET Commands]
      /\ reply \in [acked : SUBSET Commands, uncertain : SUBSET Commands, pushNew : SUBSET Commands]
    BY DEF IPCInit, NoReport, NoReply
<1>4. /\ store \in [Commands -> {"absent", "executing", "completed"}]
      /\ saved \in [Commands -> {"none", "value", "error"}]
      /\ \A c \in Commands : store[c] = "absent"
      /\ posted \in [Commands -> SUBSET {"value", "error"}]
    BY DEF IPCInit
<1>5. /\ starts \in [Commands -> Nat] /\ effects \in [Commands -> Nat]
      /\ count \in [Faults -> 0 .. MaxFaults]
    BY DEF IPCInit, Faults
<1>. QED  BY <1>1, <1>2, <1>3, <1>4, <1>5 DEF IPCTypeOK, IPCInit

\* A fault that may still happen leaves its count within the bound.
LEMMA FaultType ==
    ASSUME IPCTypeOK, NEW kind \in Faults, Fault(kind)
    PROVE  /\ count' \in [Faults -> 0 .. MaxFaults]
           /\ count'[kind] = count[kind] + 1
           /\ \A k \in Faults \ {kind} : count'[k] = count[k]
BY IPCAssumption DEF IPCTypeOK, Fault, Faults

\* Completing a command keeps the types of what it touches.
LEMMA CompleteType ==
    ASSUME IPCTypeOK, NEW S \in SUBSET Runners, NEW c \in Commands,
           NEW result \in {"value", "error"}, Complete(S, c, result)
    PROVE  /\ cur' \in [Runners -> 0 .. MaxCommands]
           /\ \A r \in Runners : cur'[r] \in {0, cur[r]}
           /\ store' \in [Commands -> {"absent", "executing", "completed"}]
           /\ saved' \in [Commands -> {"none", "value", "error"}]
           /\ \A d \in Commands : store'[d] = "completed" => saved'[d] # "none"
           /\ posted' \in [Commands -> SUBSET {"value", "error"}]
<1> USE BridgeAssumption
<1>1. cur' \in [Runners -> 0 .. MaxCommands] /\ \A r \in Runners : cur'[r] \in {0, cur[r]}
    BY DEF IPCTypeOK, Complete
<1>2. /\ store' \in [Commands -> {"absent", "executing", "completed"}]
      /\ saved' \in [Commands -> {"none", "value", "error"}]
    BY DEF IPCTypeOK, Complete
<1>3. \A d \in Commands : store'[d] = "completed" => saved'[d] # "none"
    BY DEF IPCTypeOK, Complete
<1>4. posted' \in [Commands -> SUBSET {"value", "error"}]
    BY DEF IPCTypeOK, Complete
<1>. QED  BY <1>1, <1>2, <1>3, <1>4

LEMMA IPCTypeStep == TypeOK /\ IPCTypeOK /\ [IPCNext]_ipcVars => IPCTypeOK'
<1> SUFFICES ASSUME TypeOK, IPCTypeOK, [IPCNext]_ipcVars
             PROVE  IPCTypeOK'
    OBVIOUS
<1> USE BridgeAssumption, IPCAssumption
<1>1. ASSUME NEW p \in Polls, LoopFetch(p)
      PROVE  IPCTypeOK'
    BY <1>1 DEF LoopFetch, IPCTypeOK, wakeVars, entryVars, documentVars, histVars
<1>2. ASSUME UNCHANGED extensionVars
      PROVE  IPCTypeOK'
    BY <1>2 DEF IPCTypeOK, extensionVars, pageVars, wakeVars, entryVars, documentVars, histVars
<1>3. CASE LoopReceive
    <2>1. batch[fetch] \subseteq Commands
        BY <1>3 DEF LoopReceive, TypeOK, IPCTypeOK
    <2>2. backlog' \in [Runners -> SUBSET Commands]
        BY <1>3, <2>1 DEF LoopReceive, IPCTypeOK
    <2>. QED  BY <1>3, <2>2 DEF LoopReceive, IPCTypeOK, wakeVars, entryVars, documentVars, histVars
<1>4. CASE LoopRetry
    BY <1>4 DEF LoopRetry, IPCTypeOK, wakeVars, entryVars, documentVars, histVars
<1>5. ASSUME NEW r \in Runners, Begin(r)
      PROVE  IPCTypeOK'
    <2> DEFINE c == Min(backlog[r])
    <2>1. c \in backlog[r] /\ c \in Commands
        <3>1. backlog[r] \in SUBSET Commands /\ backlog[r] # {}
            BY <1>5 DEF Begin, IPCTypeOK
        <3>2. backlog[r] \in SUBSET Nat
            BY <3>1 DEF Commands
        <3>. QED  BY <3>1, <3>2, MinOfNaturals
    <2>. HIDE DEF c
    <2>2. /\ cur' = [cur EXCEPT ![r] = c] /\ backlog' = [backlog EXCEPT ![r] = @ \ {c}]
          /\ store' = [store EXCEPT ![c] = "executing"] /\ starts' = [starts EXCEPT ![c] = @ + 1]
          /\ bus' = bus \cup {c}
        BY <1>5 DEF Begin, c
    <2>3. /\ cur' \in [Runners -> 0 .. MaxCommands] /\ backlog' \in [Runners -> SUBSET Commands]
          /\ bus' \subseteq Commands
        BY <2>1, <2>2 DEF IPCTypeOK, Commands
    <2>4. /\ store' \in [Commands -> {"absent", "executing", "completed"}]
          /\ \A d \in Commands : store'[d] = "completed" => saved[d] # "none"
          /\ starts' \in [Commands -> Nat]
        BY <2>1, <2>2 DEF IPCTypeOK
    <2>5. up
        BY <1>5 DEF Begin, IPCTypeOK
    <2>. QED  BY <1>5, <2>3, <2>4, <2>5 DEF Begin, IPCTypeOK, wakeVars
<1>6. ASSUME NEW r \in Runners, BusTimeout(r)
      PROVE  IPCTypeOK'
    <2>1. cur[r] \in Commands /\ Complete({r}, cur[r], "error")
        BY <1>6 DEF BusTimeout, IPCTypeOK, Commands
    <2>2. up
        BY <1>6 DEF BusTimeout, IPCTypeOK
    <2>. QED  BY <1>6, <2>1, <2>2, CompleteType DEF BusTimeout, IPCTypeOK, wakeVars, histVars
<1>7. ASSUME NEW r \in Runners, ExecuteThrows(r)
      PROVE  IPCTypeOK'
    BY <1>7 DEF ExecuteThrows, IPCTypeOK, wakeVars, entryVars, documentVars, histVars
<1>8. ASSUME NEW c \in Commands, ContentRun(c)
      PROVE  IPCTypeOK'
    BY <1>8 DEF ContentRun, IPCTypeOK, pageVars, wakeVars, entryVars
<1>9. ASSUME NEW c \in Commands, NEW result \in {"value", "error"}, ContentReply(c, result)
      PROVE  IPCTypeOK'
    <2> DEFINE S == {r \in Runners : cur[r] = c}
    <2>1. CASE S = {}
        BY <1>9, <2>1 DEF ContentReply, IPCTypeOK, wakeVars, entryVars, histVars
    <2>2. CASE S # {}
        <3>1. Complete(S, c, result) /\ bus' = bus \ {c} /\ running' = running \ {c}
            BY <1>9, <2>2 DEF ContentReply
        <3>2. up
            BY <2>2 DEF IPCTypeOK, Commands
        <3>3. S \in SUBSET Runners
            OBVIOUS
        <3>. HIDE DEF S
        <3>4. /\ cur' \in [Runners -> 0 .. MaxCommands]
              /\ store' \in [Commands -> {"absent", "executing", "completed"}]
              /\ saved' \in [Commands -> {"none", "value", "error"}]
              /\ \A d \in Commands : store'[d] = "completed" => saved'[d] # "none"
              /\ posted' \in [Commands -> SUBSET {"value", "error"}]
            BY <3>1, <3>3, CompleteType
        <3>5. UNCHANGED <<up, loop, fetch, backlog, wakeVars, processed, selfTest, histVars, count>>
            BY <1>9 DEF ContentReply
        <3>. QED  BY <3>1, <3>2, <3>4, <3>5 DEF IPCTypeOK, wakeVars, histVars
    <2>. QED  BY <2>1, <2>2
<1>10. ASSUME NEW c \in Commands, NEW result \in {"value", "error"},
              PostArrives(c, result) \/ PostFails(c, result)
       PROVE  IPCTypeOK'
    <2>1. posted' \in [Commands -> SUBSET {"value", "error"}]
        BY <1>10 DEF PostArrives, PostFails, IPCTypeOK
    <2>. QED  BY <1>10, <2>1
              DEF PostArrives, PostFails, IPCTypeOK, pageVars, wakeVars, entryVars, documentVars, histVars
<1>11. CASE Navigate
    <2>1. count' \in [Faults -> 0 .. MaxFaults]
        BY <1>11, FaultType DEF Navigate, Faults
    <2>. QED  BY <1>11, <2>1 DEF Navigate, IPCTypeOK, pageVars, wakeVars, entryVars, histVars
<1>12. CASE WakeStart
    BY <1>12 DEF WakeStart, IPCTypeOK, entryVars, documentVars, histVars
<1>13. CASE WakeConnect
    <2>1. /\ Acked(report.executed, executedLog') \subseteq Commands
          /\ Uncertain(report.executed, executedLog') \subseteq Commands
        BY DEF Acked, Uncertain, IPCTypeOK
    <2>2. PushNew(report.executing) \subseteq Commands
        <3>1. pending \subseteq 1 .. issued /\ issued \in 0 .. MaxCommands
            BY DEF TypeOK
        <3>2. 1 .. issued \subseteq Commands
            BY <3>1 DEF Commands
        <3>. QED  BY <3>1, <3>2 DEF PushNew, Undelivered
    <2>3. up
        BY <1>13 DEF WakeConnect, IPCTypeOK
    <2>. QED  BY <1>13, <2>1, <2>2, <2>3
              DEF WakeConnect, IPCTypeOK, pageVars, entryVars, documentVars, histVars
<1>14. CASE WakeReconcile
    <2>1. /\ store' \in [Commands -> {"absent", "executing", "completed"}]
          /\ saved' \in [Commands -> {"none", "value", "error"}]
          /\ \A c \in Commands : store'[c] = "completed" => saved'[c] # "none"
        BY <1>14 DEF WakeReconcile, IPCTypeOK
    <2>2. posted' \in [Commands -> SUBSET {"value", "error"}]
        <3>1. \A c \in Commands : store'[c] = "completed" => saved[c] \in {"value", "error"}
            BY <1>14 DEF WakeReconcile, IPCTypeOK
        <3>. QED  BY <1>14, <3>1 DEF WakeReconcile, IPCTypeOK
    <2>3. backlog' \in [Runners -> SUBSET Commands]
        BY <1>14 DEF WakeReconcile, IPCTypeOK
    <2>4. up
        BY <1>14 DEF WakeReconcile, IPCTypeOK
    <2>. QED  BY <1>14, <2>1, <2>2, <2>3, <2>4
              DEF WakeReconcile, NoReport, NoReply, IPCTypeOK, documentVars, histVars
<1>15. CASE WakeConnectFails
    <2>1. up
        BY <1>15 DEF WakeConnectFails, IPCTypeOK
    <2>. QED  BY <1>15, <2>1
              DEF WakeConnectFails, NoReport, NoReply, IPCTypeOK, pageVars, entryVars, documentVars, histVars
<1>16. CASE WakeFinish
    <2>1. PICK old \in SUBSET Expired :
            /\ store' = [c \in Commands |-> IF c \in old THEN "absent" ELSE store[c]]
            /\ saved' = [c \in Commands |-> IF c \in old THEN "none" ELSE saved[c]]
        BY <1>16 DEF WakeFinish
    <2>2. /\ store' \in [Commands -> {"absent", "executing", "completed"}]
          /\ saved' \in [Commands -> {"none", "value", "error"}]
          /\ \A c \in Commands : store'[c] = "completed" => saved'[c] # "none"
        BY <2>1 DEF IPCTypeOK
    <2>3. loop' \in Loops \cup {NoLoop, Stopped} /\ fetch' \in Polls \cup {NoPoll}
        BY <1>16 DEF WakeFinish, IPCTypeOK
    <2>4. up /\ bus' \subseteq Commands
        BY <1>16 DEF WakeFinish, IPCTypeOK
    <2>. QED  BY <1>16, <2>2, <2>3, <2>4 DEF WakeFinish, IPCTypeOK, histVars
<1>17. CASE PageDies
    <2>1. count' \in [Faults -> 0 .. MaxFaults]
        BY <1>17, FaultType DEF PageDies, Faults
    <2>2. /\ cur' \in [Runners -> 0 .. MaxCommands] /\ backlog' \in [Runners -> SUBSET Commands]
          /\ \A r \in Runners : cur'[r] = 0 /\ backlog'[r] = {}
        BY <1>17 DEF PageDies
    <2>3. /\ report' \in [executed : SUBSET Commands, executing : SUBSET Commands]
          /\ reply' \in [acked : SUBSET Commands, uncertain : SUBSET Commands, pushNew : SUBSET Commands]
        BY <1>17 DEF PageDies, NoReport, NoReply
    <2>4. /\ up' = FALSE /\ loop' = NoLoop /\ fetch' = NoPoll /\ wake' = "idle"
          /\ UNCHANGED <<entryVars, documentVars, posted, selfTest, histVars>>
        BY <1>17 DEF PageDies
    <2>. QED  BY <2>1, <2>2, <2>3, <2>4 DEF IPCTypeOK, entryVars, documentVars, histVars
<1>18. CASE CheckDisconnect
    <2>1. count' \in [Faults -> 0 .. MaxFaults]
        BY <1>18, FaultType DEF CheckDisconnect, Faults
    <2>. QED  BY <1>18, <2>1
              DEF CheckDisconnect, IPCTypeOK, pageVars, wakeVars, entryVars, documentVars, histVars
<1>19. CASE SelfTest
    BY <1>19 DEF SelfTest, IPCTypeOK, pageVars, wakeVars, entryVars, documentVars, histVars
<1>20. CASE DaemonRestart
    <2>1. count' \in [Faults -> 0 .. MaxFaults]
        BY <1>20, FaultType DEF DaemonRestart, Faults
    <2>. QED  BY <1>20, <2>1
              DEF DaemonRestart, IPCTypeOK, pageVars, wakeVars, entryVars, documentVars, histVars
<1>21. ASSUME \/ \E p \in Polls : KeepAlivePoll(p) \/ ResponseUnread(p)
              \/ KeepAlivePing \/ BridgeStep \/ UNCHANGED ipcVars
       PROVE  IPCTypeOK'
    BY <1>2, <1>21 DEF KeepAlivePoll, ResponseUnread, KeepAlivePing, BridgeStep, ipcVars
<1>. QED
    BY <1>1, <1>3, <1>4, <1>5, <1>6, <1>7, <1>8, <1>9, <1>10, <1>11, <1>12, <1>13, <1>14,
       <1>15, <1>16, <1>17, <1>18, <1>19, <1>20, <1>21 DEF IPCNext

-----------------------------------------------------------------------------
\* Ids.

\* Ids are handed out upwards, and a response carries accepted ones only.
LEMMA BridgeIssues ==
    ASSUME TypeOK, TypeOK', [Next]_bridgeVars, \A p \in Polls : batch[p] \subseteq 1 .. issued
    PROVE  /\ issued <= issued' /\ 1 .. issued \subseteq 1 .. issued'
           /\ \A p \in Polls : batch'[p] \subseteq 1 .. issued'
<1>1. issued \in Nat /\ issued' \in Nat
    BY BridgeAssumption DEF TypeOK
<1>2. ASSUME issued' = issued \/ issued' = issued + 1
      PROVE  issued <= issued' /\ 1 .. issued \subseteq 1 .. issued'
    BY <1>1, <1>2
<1>3. ASSUME issued' = issued, \A p \in Polls : batch'[p] \in {{}, batch[p]}
      PROVE  \A p \in Polls : batch'[p] \subseteq 1 .. issued'
    BY <1>3
<1>4. CASE HandleExecute
    <2>1. issued' = issued + 1
        BY <1>4 DEF HandleExecute
    <2>2. \A p \in Polls : batch'[p] \in {batch[p], {issued + 1}}
        BY <1>4 DEF HandleExecute, AnswerPoll, pollVars, TypeOK
    <2>3. \A p \in Polls : batch'[p] \subseteq 1 .. issued'
        BY <1>1, <1>2, <2>1, <2>2
    <2>. QED  BY <1>2, <2>1, <2>3
<1>5. ASSUME NEW p \in Polls, NEW mayWait \in BOOLEAN, PollDrain(p, mayWait)
      PROVE  issued' = issued /\ \A q \in Polls : batch'[q] \subseteq 1 .. issued'
    <2>1. Undelivered \subseteq 1 .. issued
        BY DEF Undelivered, TypeOK
    <2>2. issued' = issued /\ \A q \in Polls : batch'[q] \in {batch[q], Undelivered}
        BY <1>5 DEF PollDrain, AnswerPoll, TypeOK
    <2>. QED  BY <2>1, <2>2
<1>6. ASSUME NEW p \in Polls, PollSuspend(p) \/ PollTimeout(p) \/ PollReturn(p)
      PROVE  issued' = issued /\ \A q \in Polls : batch'[q] \in {{}, batch[q]}
    BY <1>6 DEF PollSuspend, PollTimeout, PollReturn, AnswerPoll, TypeOK, queueVars
<1>7. ASSUME NEW c \in Commands,
             \/ CommandTimeout(c) \/ RecordExecuted(c)
             \/ \E verdict \in {"value", "error"} : HandleResult(c, verdict)
      PROVE  issued' = issued /\ batch' = batch
    BY <1>7 DEF CommandTimeout, RecordExecuted, HandleResult, queueVars, pollVars
<1>8. ASSUME NEW ids \in SUBSET (1 .. issued), Connect(ids) \/ Reconcile(ids)
      PROVE  issued' = issued /\ batch' = batch
    BY <1>8 DEF Connect, Reconcile, ReconcilePush, pollVars
<1>9. ASSUME HandleConnected \/ HandleDisconnected \/ HealthSnapshot \/ UNCHANGED bridgeVars
      PROVE  issued' = issued /\ batch' = batch
    BY <1>9 DEF HandleConnected, HandleDisconnected, HealthSnapshot, bridgeVars, queueVars, pollVars
<1>10. ASSUME Restart
       PROVE  issued' = issued /\ \A q \in Polls : batch'[q] = {}
    BY <1>10 DEF Restart
<1>. QED
    BY <1>2, <1>3, <1>4, <1>5, <1>6, <1>7, <1>8, <1>9, <1>10 DEF Next

LEMMA OnlyIssuedInit == IPCInit => OnlyIssued
BY DEF IPCInit, Init, OnlyIssued, NoReport, NoReply

LEMMA OnlyIssuedStep ==
    ASSUME TypeOK, TypeOK', IPCTypeOK, IPCTypeOK', OnlyIssued, [IPCNext]_ipcVars
    PROVE  OnlyIssued'
<1>1. /\ issued \in Nat /\ issued' \in Nat /\ issued <= issued' /\ 1 .. issued \subseteq 1 .. issued'
      /\ \A p \in Polls : batch'[p] \subseteq 1 .. issued'
    <2>1. [Next]_bridgeVars
        BY BridgeSteps
    <2>2. issued \in Nat /\ issued' \in Nat
        BY BridgeAssumption DEF TypeOK
    <2>. QED  BY <2>1, <2>2, BridgeIssues DEF OnlyIssued
<1>2. ASSUME \A r \in Runners : /\ backlog'[r] = backlog[r] \/ backlog'[r] \subseteq 1 .. issued
                                /\ cur'[r] = cur[r] \/ cur'[r] \in 0 .. issued,
             \A c \in Commands : store'[c] # "absent" => store[c] # "absent" \/ c <= issued,
             report'.executing = report.executing \/ report'.executing \subseteq 1 .. issued,
             reply'.pushNew = reply.pushNew \/ reply'.pushNew \subseteq 1 .. issued
      PROVE  OnlyIssued'
    <2>1. \A r \in Runners : backlog'[r] \subseteq 1 .. issued /\ cur'[r] \in 0 .. issued
        BY <1>2 DEF OnlyIssued
    <2>2. \A c \in Commands : store'[c] # "absent" => c <= issued
        BY <1>2 DEF OnlyIssued
    <2>3. report'.executing \subseteq 1 .. issued /\ reply'.pushNew \subseteq 1 .. issued
        BY <1>2 DEF OnlyIssued
    <2>4. 0 .. issued \subseteq 0 .. issued' /\ \A c \in Commands : c <= issued => c <= issued'
        BY <1>1 DEF Commands
    <2>. QED  BY <1>1, <2>1, <2>2, <2>3, <2>4 DEF OnlyIssued
<1>3. ASSUME UNCHANGED <<backlog, cur, store, report, reply>>
      PROVE  OnlyIssued'
    BY <1>2, <1>3
<1>4. CASE LoopReceive
    <2>1. \A r \in Runners : backlog'[r] = backlog[r] \/ backlog'[r] \subseteq 1 .. issued
        BY <1>4 DEF LoopReceive, IPCTypeOK, OnlyIssued
    <2>2. UNCHANGED <<cur, store, report, reply>>
        BY <1>4 DEF LoopReceive, wakeVars, entryVars
    <2>. QED  BY <1>2, <2>1, <2>2
<1>5. ASSUME NEW r \in Runners, Begin(r)
      PROVE  OnlyIssued'
    <2> DEFINE c == Min(backlog[r])
    <2>1. c \in backlog[r] /\ c \in 1 .. issued
        <3>1. backlog[r] \subseteq 1 .. issued /\ backlog[r] # {} /\ backlog[r] \in SUBSET Nat
            BY <1>5 DEF Begin, OnlyIssued
        <3>. QED  BY <3>1, MinOfNaturals
    <2>. HIDE DEF c
    <2>2. /\ cur' = [cur EXCEPT ![r] = c] /\ backlog' = [backlog EXCEPT ![r] = @ \ {c}]
          /\ store' = [store EXCEPT ![c] = "executing"] /\ UNCHANGED <<report, reply>>
        BY <1>5 DEF Begin, c, wakeVars
    <2>3. \A q \in Runners : /\ backlog'[q] = backlog[q] \/ backlog'[q] \subseteq 1 .. issued
                             /\ cur'[q] = cur[q] \/ cur'[q] \in 0 .. issued
        BY <1>1, <2>1, <2>2 DEF IPCTypeOK, OnlyIssued
    <2>4. \A d \in Commands : store'[d] # "absent" => store[d] # "absent" \/ d <= issued
        BY <1>1, <2>1, <2>2 DEF IPCTypeOK
    <2>. QED  BY <1>2, <2>2, <2>3, <2>4
<1>6. ASSUME NEW S \in SUBSET Runners, NEW c \in Commands, NEW result \in {"value", "error"},
             c <= issued, Complete(S, c, result), UNCHANGED <<backlog, report, reply>>
      PROVE  OnlyIssued'
    <2>1. \A q \in Runners : cur'[q] = cur[q] \/ cur'[q] \in 0 .. issued
        BY <1>1, <1>6 DEF Complete
    <2>2. \A d \in Commands : store'[d] # "absent" => store[d] # "absent" \/ d <= issued
        BY <1>6 DEF Complete, IPCTypeOK
    <2>. QED  BY <1>2, <1>6, <2>1, <2>2
<1>7. ASSUME NEW r \in Runners, BusTimeout(r)
      PROVE  OnlyIssued'
    <2>1. cur[r] \in Commands /\ cur[r] <= issued
        BY <1>1, <1>7 DEF BusTimeout, OnlyIssued, IPCTypeOK, Commands
    <2>2. Complete({r}, cur[r], "error") /\ UNCHANGED <<backlog, report, reply>>
        BY <1>7 DEF BusTimeout, wakeVars
    <2>3. {r} \in SUBSET Runners
        OBVIOUS
    <2>. QED  BY <1>6, <2>1, <2>2, <2>3
<1>8. ASSUME NEW r \in Runners, ExecuteThrows(r)
      PROVE  OnlyIssued'
    <2>1. \A q \in Runners : /\ backlog'[q] = backlog[q] \/ backlog'[q] \subseteq 1 .. issued
                             /\ cur'[q] = cur[q] \/ cur'[q] \in 0 .. issued
        BY <1>1, <1>8 DEF ExecuteThrows, IPCTypeOK
    <2>2. UNCHANGED <<store, report, reply>>
        BY <1>8 DEF ExecuteThrows, wakeVars, entryVars
    <2>. QED  BY <1>2, <2>1, <2>2
<1>9. ASSUME NEW c \in Commands, NEW result \in {"value", "error"}, ContentReply(c, result)
      PROVE  OnlyIssued'
    <2> DEFINE S == {r \in Runners : cur[r] = c}
    <2>1. CASE S = {}
        BY <1>3, <1>9, <2>1 DEF ContentReply, wakeVars, entryVars
    <2>2. CASE S # {}
        <3>1. Complete(S, c, result) /\ UNCHANGED <<backlog, report, reply>>
            BY <1>9, <2>2 DEF ContentReply, wakeVars
        <3>2. c <= issued
            BY <1>1, <2>2 DEF OnlyIssued
        <3>3. S \in SUBSET Runners
            OBVIOUS
        <3>. HIDE DEF S
        <3>. QED  BY <1>6, <3>1, <3>2, <3>3
    <2>. QED  BY <2>1, <2>2
<1>10. CASE WakeStart
    <2>1. report'.executing = {c \in Commands : store[c] = "executing"}
        BY <1>10 DEF WakeStart
    <2>2. report'.executing \subseteq 1 .. issued
        BY <1>1, <2>1 DEF OnlyIssued, Commands
    <2>3. UNCHANGED <<backlog, cur, store, reply>>
        BY <1>10 DEF WakeStart, entryVars
    <2>. QED  BY <1>2, <2>2, <2>3
<1>11. CASE WakeConnect
    <2>1. reply'.pushNew = PushNew(report.executing)
        BY <1>11 DEF WakeConnect
    <2>2. reply'.pushNew \subseteq 1 .. issued
        BY <2>1 DEF PushNew, Undelivered, TypeOK
    <2>3. UNCHANGED <<backlog, cur, store, report>>
        BY <1>11 DEF WakeConnect, pageVars, entryVars
    <2>. QED  BY <1>2, <2>2, <2>3
<1>12. CASE WakeReconcile
    <2>1. \A q \in Runners : backlog'[q] = backlog[q] \/ backlog'[q] \subseteq 1 .. issued
        BY <1>12 DEF WakeReconcile, IPCTypeOK, OnlyIssued
    <2>2. \A d \in Commands : store'[d] # "absent" => store[d] # "absent"
        BY <1>12 DEF WakeReconcile
    <2>3. /\ cur' = cur /\ report'.executing \subseteq 1 .. issued /\ reply'.pushNew \subseteq 1 .. issued
        BY <1>12 DEF WakeReconcile, NoReport, NoReply
    <2>. QED  BY <1>2, <2>1, <2>2, <2>3
<1>13. CASE WakeConnectFails
    <2>1. report'.executing \subseteq 1 .. issued /\ reply'.pushNew \subseteq 1 .. issued
        BY <1>13 DEF WakeConnectFails, NoReport, NoReply
    <2>2. UNCHANGED <<backlog, cur, store>>
        BY <1>13 DEF WakeConnectFails, pageVars, entryVars
    <2>. QED  BY <1>2, <2>1, <2>2
<1>14. CASE WakeFinish
    <2>1. \A d \in Commands : store'[d] # "absent" => store[d] # "absent"
        BY <1>14 DEF WakeFinish
    <2>2. UNCHANGED <<backlog, cur, report, reply>>
        BY <1>14 DEF WakeFinish
    <2>. QED  BY <1>2, <2>1, <2>2
<1>15. CASE PageDies
    <2>1. \A q \in Runners : backlog'[q] \subseteq 1 .. issued /\ cur'[q] \in 0 .. issued
        BY <1>1, <1>15 DEF PageDies
    <2>2. report'.executing \subseteq 1 .. issued /\ reply'.pushNew \subseteq 1 .. issued
        BY <1>15 DEF PageDies, NoReport, NoReply
    <2>3. store' = store
        BY <1>15 DEF PageDies, entryVars
    <2>. QED  BY <1>2, <2>1, <2>2, <2>3
<1>16. ASSUME \/ \E p \in Polls : LoopFetch(p) \/ KeepAlivePoll(p) \/ ResponseUnread(p)
              \/ LoopRetry \/ Navigate \/ KeepAlivePing \/ BridgeStep \/ UNCHANGED ipcVars
       PROVE  UNCHANGED <<backlog, cur, store, report, reply>>
    BY <1>16
    DEF LoopFetch, KeepAlivePoll, ResponseUnread, LoopRetry, Navigate, KeepAlivePing, BridgeStep,
        ipcVars, extensionVars, pageVars, wakeVars, entryVars
<1>17. ASSUME \/ CheckDisconnect \/ SelfTest \/ DaemonRestart
              \/ \E c \in Commands : ContentRun(c) \/ \E result \in {"value", "error"} :
                    PostArrives(c, result) \/ PostFails(c, result)
       PROVE  UNCHANGED <<backlog, cur, store, report, reply>>
    BY <1>17
    DEF CheckDisconnect, SelfTest, DaemonRestart, ContentRun, PostArrives, PostFails,
        pageVars, wakeVars, entryVars
<1>. QED
    BY <1>3, <1>4, <1>5, <1>7, <1>8, <1>9, <1>10, <1>11, <1>12, <1>13, <1>14, <1>15, <1>16, <1>17
    DEF IPCNext

-----------------------------------------------------------------------------
\* The bridge's and the extension's types, and the ids, hold together.
IPCInv == TypeOK /\ IPCTypeOK /\ OnlyIssued

LEMMA IPCInvariant == IPCSpec => []IPCInv
<1>1. IPCInit => IPCInv
    BY TypeInit, IPCTypeInit, OnlyIssuedInit DEF IPCInit, IPCInv
<1>2. IPCInv /\ [IPCNext]_ipcVars => IPCInv'
    BY TypeStep, IPCTypeStep, BridgeSteps, OnlyIssuedStep DEF IPCInv
<1>. QED  BY <1>1, <1>2, PTL DEF IPCSpec

\* The variables of the extension keep their types.
THEOREM IPCTypeCorrect == IPCSpec => []IPCTypeOK
<1>1. IPCInv => IPCTypeOK
    BY DEF IPCInv
<1>. QED  BY <1>1, IPCInvariant, PTL

\* Polls, wakes, restarts and all, the extension drives the daemon's queue as the
\* bridge alone expects: everything proved of ExtensionBridge holds here too.
THEOREM IPCImplementsBridge == IPCSpec => Spec
<1>1. IPCInit => Init
    BY DEF IPCInit
<1>2. IPCInv /\ [IPCNext]_ipcVars => [Next]_bridgeVars
    BY BridgeSteps DEF IPCInv
<1>. QED  BY <1>1, <1>2, IPCInvariant, PTL DEF IPCSpec, Spec

\* The promise of CommandExchange holds of the extension engine end to end.
THEOREM IPCImplementsExchange == IPCSpec => Exchange!SafeSpec
BY IPCImplementsBridge, BridgeImplementsExchange

-----------------------------------------------------------------------------
\* Values.

\* Only POST /result brings a caller a value, and an answer is never taken back.
LEMMA AnswersFrom ==
    ASSUME TypeOK, IPCTypeOK, [IPCNext]_ipcVars, NEW c \in Commands
    PROVE  /\ answer'[c] = "value" => answer[c] = "value" \/ "value" \in posted[c]
           /\ answer[c] # "none" => answer'[c] # "none"
<1> DEFINE Kept == /\ answer'[c] = "value" => answer[c] = "value" \/ "value" \in posted[c]
                   /\ answer[c] # "none" => answer'[c] # "none"
<1>1. ASSUME answer' = answer
      PROVE  Kept
    BY <1>1
<1>2. ASSUME NEW d \in Commands, NEW a \in {"error", "timeout"}, AnswerCaller(d, a)
      PROVE  Kept
    BY <1>2 DEF AnswerCaller, TypeOK
<1>3. ASSUME NEW d \in Commands, NEW result \in {"value", "error"}, PostArrives(d, result)
      PROVE  Kept
    <2>1. answer' \in {answer, [answer EXCEPT ![d] = result]} /\ result \in posted[d]
        BY <1>3 DEF PostArrives, HandleResult, AnswerCaller, bridgeVars, queueVars
    <2>. QED  BY <2>1 DEF TypeOK
<1>4. ASSUME DaemonRestart
      PROVE  Kept
    BY <1>4 DEF DaemonRestart, Restart
<1>5. ASSUME BridgeStep
      PROVE  Kept
    <2>1. CASE HandleExecute
        BY <1>1, <2>1 DEF HandleExecute
    <2>2. ASSUME NEW d \in Commands, CommandTimeout(d) \/ RecordExecuted(d)
          PROVE  Kept
        BY <1>1, <1>2, <2>2 DEF CommandTimeout, RecordExecuted, queueVars
    <2>3. ASSUME NEW p \in Polls, PollSuspend(p) \/ PollTimeout(p)
          PROVE  answer' = answer
        BY <2>3 DEF PollSuspend, PollTimeout, queueVars
    <2>. HIDE DEF Kept
    <2>. QED  BY <1>1, <1>5, <2>1, <2>2, <2>3 DEF BridgeStep
<1>6. ASSUME \/ \E p \in Polls : LoopFetch(p) \/ KeepAlivePoll(p) \/ ResponseUnread(p)
             \/ LoopReceive \/ KeepAlivePing \/ WakeConnect \/ SelfTest \/ CheckDisconnect
      PROVE  answer' = answer
    BY <1>6
    DEF LoopFetch, KeepAlivePoll, ResponseUnread, LoopReceive, KeepAlivePing, WakeConnect, SelfTest,
        CheckDisconnect, PollDrain, PollReturn, HandleConnected, Connect, ReconcilePush,
        HandleDisconnected, queueVars
<1>7. ASSUME \/ LoopRetry \/ Navigate \/ PageDies \/ UNCHANGED ipcVars
             \/ WakeStart \/ WakeReconcile \/ WakeConnectFails \/ WakeFinish
             \/ \E r \in Runners : Begin(r) \/ BusTimeout(r) \/ ExecuteThrows(r)
      PROVE  answer' = answer
    BY <1>7
    DEF LoopRetry, Navigate, PageDies, ipcVars, WakeStart, WakeReconcile, WakeConnectFails,
        WakeFinish, Begin, BusTimeout, ExecuteThrows, bridgeVars, queueVars
<1>8. ASSUME NEW d \in Commands, NEW result \in {"value", "error"},
             ContentRun(d) \/ ContentReply(d, result) \/ PostFails(d, result)
      PROVE  answer' = answer
    BY <1>8 DEF ContentRun, ContentReply, PostFails, bridgeVars, queueVars
<1>. HIDE DEF Kept
<1>9. Kept
    BY <1>1, <1>3, <1>4, <1>5, <1>6, <1>7, <1>8 DEF IPCNext
<1>. QED  BY <1>9 DEF Kept

LEMMA ValueStep ==
    ASSUME TypeOK, IPCTypeOK, IPCTypeOK', ValueInv, [IPCNext]_ipcVars
    PROVE  ValueInv'
<1>1. ASSUME \A c \in Commands :
                /\ saved'[c] = "value" \/ "value" \in posted'[c] \/ c \in processed'
                     => \/ saved[c] = "value" \/ "value" \in posted[c] \/ c \in processed
                        \/ effects'[c] > 0
                /\ effects'[c] >= effects[c]
      PROVE  ValueInv'
    <2>1. \A c \in Commands : answer'[c] = "value" => answer[c] = "value" \/ "value" \in posted[c]
        BY AnswersFrom
    <2>2. \A c \in Commands : effects[c] \in Nat /\ effects'[c] \in Nat
        BY DEF IPCTypeOK
    <2>. QED  BY <1>1, <2>1, <2>2 DEF ValueInv
<1>2. ASSUME UNCHANGED <<saved, posted, processed, effects>>
      PROVE  ValueInv'
    <2>1. \A c \in Commands : effects[c] >= effects[c]
        BY DEF IPCTypeOK
    <2>. QED  BY <1>1, <1>2, <2>1
<1>3. ASSUME UNCHANGED effects,
             \A c \in Commands :
                saved'[c] = "value" \/ "value" \in posted'[c] \/ c \in processed'
                  => \/ saved[c] = "value" \/ "value" \in posted[c] \/ c \in processed
      PROVE  ValueInv'
    <2>1. \A c \in Commands : effects[c] >= effects[c]
        BY DEF IPCTypeOK
    <2>. QED  BY <1>1, <1>3, <2>1
<1>4. ASSUME NEW r \in Runners, BusTimeout(r)
      PROVE  ValueInv'
    <2>1. /\ saved' = [saved EXCEPT ![cur[r]] = "error"]
          /\ posted' = [posted EXCEPT ![cur[r]] = @ \cup {"error"}]
          /\ UNCHANGED <<processed, effects>>
        BY <1>4 DEF BusTimeout, Complete, histVars
    <2>2. \A c \in Commands : /\ saved'[c] = "value" => saved[c] = "value"
                              /\ "value" \in posted'[c] => "value" \in posted[c]
        BY <2>1 DEF IPCTypeOK
    <2>. QED  BY <1>3, <2>1, <2>2
<1>5. ASSUME NEW c \in Commands, ContentRun(c)
      PROVE  ValueInv'
    <2>1. /\ processed' = processed \cup {c} /\ effects' = [effects EXCEPT ![c] = @ + 1]
          /\ UNCHANGED <<saved, posted>>
        BY <1>5 DEF ContentRun, entryVars
    <2>2. \A d \in Commands : effects[d] \in Nat /\ effects'[d] = IF d = c THEN effects[d] + 1 ELSE effects[d]
        BY <2>1 DEF IPCTypeOK
    <2>3. \A d \in Commands : effects'[d] >= effects[d] /\ (d = c => effects'[d] > 0)
        BY <2>2
    <2>. QED  BY <1>1, <2>1, <2>3
<1>6. ASSUME NEW c \in Commands, NEW result \in {"value", "error"}, ContentReply(c, result)
      PROVE  ValueInv'
    <2>1. c \in processed
        BY <1>6 DEF ContentReply, IPCTypeOK
    <2>2. /\ saved' \in {saved, [saved EXCEPT ![c] = result]}
          /\ posted' \in {posted, [posted EXCEPT ![c] = @ \cup {result}]}
          /\ UNCHANGED <<processed, effects>>
        BY <1>6 DEF ContentReply, Complete, entryVars, histVars
    <2>3. \A d \in Commands : /\ saved'[d] = "value" => saved[d] = "value" \/ d = c
                              /\ "value" \in posted'[d] => "value" \in posted[d] \/ d = c
        BY <2>2 DEF IPCTypeOK
    <2>. QED  BY <1>3, <2>1, <2>2, <2>3
<1>7. ASSUME NEW c \in Commands, NEW result \in {"value", "error"},
             PostArrives(c, result) \/ PostFails(c, result)
      PROVE  ValueInv'
    <2>1. posted' = [posted EXCEPT ![c] = @ \ {result}] /\ UNCHANGED <<saved, processed, effects>>
        BY <1>7 DEF PostArrives, PostFails, entryVars, documentVars, histVars
    <2>2. \A d \in Commands : "value" \in posted'[d] => "value" \in posted[d]
        BY <2>1 DEF IPCTypeOK
    <2>. QED  BY <1>3, <2>1, <2>2
<1>8. CASE Navigate
    <2>1. processed' = {} /\ UNCHANGED <<saved, posted, effects>>
        BY <1>8 DEF Navigate, entryVars, histVars
    <2>. QED  BY <1>3, <2>1
<1>9. CASE WakeReconcile
    <2>1. /\ saved' = [c \in Commands |-> IF c \in reply.acked THEN "none" ELSE saved[c]]
          /\ posted' = [c \in Commands |->
                          IF c \in reply.uncertain /\ store'[c] = "completed"
                          THEN posted[c] \cup {saved[c]} ELSE posted[c]]
          /\ UNCHANGED <<processed, effects>>
        BY <1>9 DEF WakeReconcile, documentVars, histVars
    <2>2. \A c \in Commands : /\ saved'[c] = "value" => saved[c] = "value"
                              /\ "value" \in posted'[c] => "value" \in posted[c] \/ saved[c] = "value"
        BY <2>1
    <2>. QED  BY <1>3, <2>1, <2>2
<1>10. CASE WakeFinish
    <2>1. \A c \in Commands : saved'[c] = "value" => saved[c] = "value"
        BY <1>10 DEF WakeFinish
    <2>2. UNCHANGED <<posted, processed, effects>>
        BY <1>10 DEF WakeFinish, histVars
    <2>. QED  BY <1>3, <2>1, <2>2
<1>11. ASSUME \/ \E p \in Polls : LoopFetch(p) \/ KeepAlivePoll(p) \/ ResponseUnread(p)
              \/ LoopReceive \/ LoopRetry
              \/ \E r \in Runners : Begin(r) \/ ExecuteThrows(r)
              \/ UNCHANGED ipcVars
       PROVE  UNCHANGED <<saved, posted, processed, effects>>
    BY <1>11
    DEF LoopFetch, KeepAlivePoll, ResponseUnread, LoopReceive, LoopRetry, Begin, ExecuteThrows,
        ipcVars, extensionVars, entryVars, documentVars, histVars
<1>12. ASSUME \/ WakeStart \/ WakeConnect \/ WakeConnectFails \/ PageDies \/ KeepAlivePing
              \/ CheckDisconnect \/ SelfTest \/ DaemonRestart \/ BridgeStep
       PROVE  UNCHANGED <<saved, posted, processed, effects>>
    BY <1>12
    DEF WakeStart, WakeConnect, WakeConnectFails, PageDies, KeepAlivePing, CheckDisconnect, SelfTest,
        DaemonRestart, BridgeStep, extensionVars, entryVars, documentVars, histVars
<1>. QED
    BY <1>2, <1>4, <1>5, <1>6, <1>7, <1>8, <1>9, <1>10, <1>11, <1>12 DEF IPCNext

\* A caller told the page's value has it from a script that a document ran.
THEOREM ValuesExecuted == IPCSpec => []ValueMeansExecuted
<1>1. IPCInit => ValueInv
    BY DEF IPCInit, Init, ValueInv
<1>2. IPCInv /\ IPCInv' /\ ValueInv /\ [IPCNext]_ipcVars => ValueInv'
    BY ValueStep DEF IPCInv
<1>3. ValueInv => ValueMeansExecuted
    BY DEF ValueInv, ValueMeansExecuted
<1>. QED  BY <1>1, <1>2, <1>3, IPCInvariant, PTL DEF IPCSpec

-----------------------------------------------------------------------------
\* Effects.

LEMMA EffectStep ==
    ASSUME IPCTypeOK, IPCTypeOK', EffectInv, [IPCNext]_ipcVars
    PROVE  EffectInv'
<1>1. /\ \A c \in Commands : effects[c] \in Nat
      /\ count["navigation"] \in Nat /\ count'["navigation"] \in Nat
    BY IPCAssumption DEF IPCTypeOK, Faults
<1>2. ASSUME UNCHANGED <<effects, processed>>, count'["navigation"] >= count["navigation"]
      PROVE  EffectInv'
    BY <1>1, <1>2 DEF EffectInv
<1>3. ASSUME NEW c \in Commands, ContentRun(c)
      PROVE  EffectInv'
    <2>1. /\ c \notin processed /\ processed' = processed \cup {c} /\ count' = count
          /\ \A d \in Commands : effects'[d] = IF d = c THEN effects[d] + 1 ELSE effects[d]
        BY <1>3 DEF ContentRun, IPCTypeOK
    <2>2. \A d \in Commands \ {c} : d \in processed' <=> d \in processed
        BY <2>1
    <2>. QED  BY <1>1, <2>1, <2>2 DEF EffectInv
<1>4. CASE Navigate
    <2>1. count'["navigation"] = count["navigation"] + 1 /\ effects' = effects
        BY <1>4, FaultType DEF Navigate, Faults, histVars
    <2>. QED  BY <1>1, <2>1 DEF EffectInv
<1>5. CASE PageDies \/ CheckDisconnect \/ DaemonRestart
    <2>1. count'["navigation"] = count["navigation"]
        BY <1>5, FaultType DEF PageDies, CheckDisconnect, DaemonRestart, Faults
    <2>2. UNCHANGED <<effects, processed>>
        BY <1>5 DEF PageDies, CheckDisconnect, DaemonRestart, documentVars, histVars
    <2>. QED  BY <1>1, <1>2, <2>1, <2>2
<1>6. ASSUME UNCHANGED <<effects, processed, count>>
      PROVE  EffectInv'
    BY <1>1, <1>2, <1>6
<1>7. ASSUME \/ \E p \in Polls : LoopFetch(p) \/ KeepAlivePoll(p) \/ ResponseUnread(p)
             \/ LoopReceive \/ LoopRetry
             \/ \E r \in Runners : Begin(r) \/ BusTimeout(r) \/ ExecuteThrows(r)
             \/ UNCHANGED ipcVars
      PROVE  UNCHANGED <<effects, processed, count>>
    BY <1>7
    DEF LoopFetch, KeepAlivePoll, ResponseUnread, LoopReceive, LoopRetry, Begin, BusTimeout,
        ExecuteThrows, ipcVars, extensionVars, documentVars, histVars
<1>8. ASSUME \/ WakeStart \/ WakeConnect \/ WakeReconcile \/ WakeConnectFails \/ WakeFinish
             \/ KeepAlivePing \/ SelfTest \/ BridgeStep
      PROVE  UNCHANGED <<effects, processed, count>>
    BY <1>8
    DEF WakeStart, WakeConnect, WakeReconcile, WakeConnectFails, WakeFinish, KeepAlivePing, SelfTest,
        BridgeStep, extensionVars, documentVars, histVars
<1>9. ASSUME NEW c \in Commands, NEW result \in {"value", "error"},
             ContentReply(c, result) \/ PostArrives(c, result) \/ PostFails(c, result)
      PROVE  UNCHANGED <<effects, processed, count>>
    BY <1>9 DEF ContentReply, PostArrives, PostFails, documentVars, histVars
<1>. QED
    BY <1>3, <1>4, <1>5, <1>6, <1>7, <1>8, <1>9 DEF IPCNext

\* A document runs a command at most once; only another document may repeat it.
THEOREM EffectsBounded == IPCSpec => []EffectBound
<1>1. IPCInit => EffectInv
    BY DEF IPCInit, EffectInv, Faults
<1>2. IPCInv /\ IPCInv' /\ EffectInv /\ [IPCNext]_ipcVars => EffectInv'
    BY EffectStep DEF IPCInv
<1>3. IPCInv /\ EffectInv => EffectBound
    <2> SUFFICES ASSUME IPCTypeOK, EffectInv
                 PROVE  EffectBound
        BY DEF IPCInv
    <2>1. count["navigation"] \in Nat /\ \A c \in Commands : effects[c] \in Nat
        BY IPCAssumption DEF IPCTypeOK, Faults
    <2>. QED  BY <2>1 DEF EffectInv, EffectBound
<1>. QED  BY <1>1, <1>2, <1>3, IPCInvariant, PTL DEF IPCSpec

-----------------------------------------------------------------------------
\* Results.

LEMMA AckedStep ==
    ASSUME TypeOK, IPCTypeOK, LogMeansResult', AckedInv, [IPCNext]_ipcVars
    PROVE  AckedInv'
<1>1. \A c \in Commands : answer[c] # "none" => answer'[c] # "none"
    BY AnswersFrom
<1>2. reply.acked \subseteq Commands
    BY DEF IPCTypeOK
<1>3. ASSUME reply'.acked \subseteq reply.acked
      PROVE  AckedInv'
    BY <1>1, <1>2, <1>3 DEF AckedInv
<1>4. CASE WakeConnect
    <2>1. reply'.acked = report.executed \cap ToSet(executedLog')
        BY <1>4 DEF WakeConnect, Acked
    <2>2. \A c \in ToSet(executedLog') : answer'[c] \in {"value", "error"}
        BY DEF LogMeansResult, ToSet
    <2>. QED  BY <2>1, <2>2 DEF AckedInv
<1>5. ASSUME \/ WakeReconcile \/ WakeConnectFails \/ PageDies
      PROVE  reply'.acked \subseteq reply.acked
    BY <1>5 DEF WakeReconcile, WakeConnectFails, PageDies, NoReply
<1>6. ASSUME \/ \E p \in Polls : LoopFetch(p) \/ KeepAlivePoll(p) \/ ResponseUnread(p)
             \/ LoopReceive \/ LoopRetry
             \/ \E r \in Runners : Begin(r) \/ BusTimeout(r) \/ ExecuteThrows(r)
             \/ UNCHANGED ipcVars
      PROVE  UNCHANGED reply
    BY <1>6
    DEF LoopFetch, KeepAlivePoll, ResponseUnread, LoopReceive, LoopRetry, Begin, BusTimeout,
        ExecuteThrows, ipcVars, extensionVars, wakeVars
<1>7. ASSUME \/ WakeStart \/ WakeFinish \/ KeepAlivePing \/ SelfTest \/ BridgeStep
             \/ Navigate \/ CheckDisconnect \/ DaemonRestart
      PROVE  UNCHANGED reply
    BY <1>7
    DEF WakeStart, WakeFinish, KeepAlivePing, SelfTest, BridgeStep, Navigate, CheckDisconnect,
        DaemonRestart, extensionVars, wakeVars
<1>8. ASSUME NEW c \in Commands, NEW result \in {"value", "error"},
             \/ ContentRun(c) \/ ContentReply(c, result)
             \/ PostArrives(c, result) \/ PostFails(c, result)
      PROVE  UNCHANGED reply
    BY <1>8 DEF ContentRun, ContentReply, PostArrives, PostFails, wakeVars
<1>. QED
    BY <1>3, <1>4, <1>5, <1>6, <1>7, <1>8 DEF IPCNext

\* Only a reconcile that acknowledges it and the 10 minute sweep drop a result.
LEMMA ResultDropped ==
    ASSUME AckedInv, [IPCNext]_ipcVars, NEW c \in Commands,
           store[c] = "completed", store'[c] = "absent", IPCTypeOK
    PROVE  answer[c] # "none"
<1>1. CASE WakeReconcile
    <2>1. c \in reply.acked
        BY <1>1 DEF WakeReconcile
    <2>. QED  BY <2>1 DEF AckedInv
<1>2. CASE WakeFinish
    BY <1>2 DEF WakeFinish, Expired
<1>3. ASSUME NEW r \in Runners, Begin(r) \/ BusTimeout(r)
      PROVE  store'[c] # "absent"
    BY <1>3 DEF Begin, BusTimeout, Complete, IPCTypeOK
<1>4. ASSUME NEW d \in Commands, NEW result \in {"value", "error"}, ContentReply(d, result)
      PROVE  store'[c] # "absent"
    <2>1. store' \in {store, [store EXCEPT ![d] = "completed"]}
        BY <1>4 DEF ContentReply, Complete, entryVars
    <2>. QED  BY <2>1 DEF IPCTypeOK
<1>5. ASSUME \/ \E p \in Polls : LoopFetch(p) \/ KeepAlivePoll(p) \/ ResponseUnread(p)
             \/ LoopReceive \/ LoopRetry \/ \E r \in Runners : ExecuteThrows(r)
             \/ UNCHANGED ipcVars
      PROVE  UNCHANGED store
    BY <1>5
    DEF LoopFetch, KeepAlivePoll, ResponseUnread, LoopReceive, LoopRetry, ExecuteThrows, ipcVars,
        extensionVars, entryVars
<1>6. ASSUME \/ WakeStart \/ WakeConnect \/ WakeConnectFails \/ PageDies \/ KeepAlivePing
             \/ Navigate \/ CheckDisconnect \/ SelfTest \/ DaemonRestart \/ BridgeStep
      PROVE  UNCHANGED store
    BY <1>6
    DEF WakeStart, WakeConnect, WakeConnectFails, PageDies, KeepAlivePing, Navigate, CheckDisconnect,
        SelfTest, DaemonRestart, BridgeStep, extensionVars, entryVars
<1>7. ASSUME NEW d \in Commands, NEW result \in {"value", "error"},
             ContentRun(d) \/ PostArrives(d, result) \/ PostFails(d, result)
      PROVE  UNCHANGED store
    BY <1>7 DEF ContentRun, PostArrives, PostFails, entryVars
<1>. QED
    BY <1>1, <1>2, <1>3, <1>4, <1>5, <1>6, <1>7 DEF IPCNext

\* A completed result is forgotten only when its caller has been answered.
THEOREM ResultsKept == IPCSpec => CompletedKeptUntilAnswered
<1>1. IPCInit => AckedInv
    BY DEF IPCInit, AckedInv, NoReply
<1>2. IPCInv /\ LogMeansResult' /\ AckedInv /\ [IPCNext]_ipcVars => AckedInv'
    BY AckedStep DEF IPCInv
<1>3. IPCSpec => []LogMeansResult
    BY IPCImplementsBridge, LogIsHonest
<1>4. IPCSpec => []AckedInv
    BY <1>1, <1>2, <1>3, IPCInvariant, PTL DEF IPCSpec
<1>5. IPCInv /\ AckedInv /\ [IPCNext]_ipcVars
        => [\A c \in Commands :
                store[c] = "completed" /\ store'[c] = "absent" => answer[c] # "none"]_ipcVars
    BY ResultDropped DEF IPCInv
<1>. QED  BY <1>4, <1>5, IPCInvariant, PTL DEF IPCSpec, CompletedKeptUntilAnswered

-----------------------------------------------------------------------------
\* Replays.

\* What becomes of the number of copies when some are dropped, one is made, one
\* moves and one is used up.
LEMMA CopiesDropped ==
    ASSUME NEW A, IsFiniteSet(A), NEW B \in SUBSET A
    PROVE  /\ IsFiniteSet(B) /\ Cardinality(A) \in Nat /\ Cardinality(B) \in Nat
           /\ Cardinality(B) <= Cardinality(A)
BY FS_Subset, FS_CardinalityType

LEMMA CopyMade ==
    ASSUME NEW A, IsFiniteSet(A), NEW y, NEW B \in SUBSET (A \cup {y})
    PROVE  IsFiniteSet(B) /\ Cardinality(B) \in Nat /\ Cardinality(B) <= Cardinality(A) + 1
<1>1. /\ IsFiniteSet(A \cup {y}) /\ Cardinality(A) \in Nat
      /\ Cardinality(A \cup {y}) \in {Cardinality(A), Cardinality(A) + 1}
    BY FS_AddElement, FS_CardinalityType
<1>2. /\ IsFiniteSet(B) /\ Cardinality(B) \in Nat
      /\ Cardinality(B) <= Cardinality(A \cup {y})
    BY <1>1, CopiesDropped
<1>. QED  BY <1>1, <1>2

LEMMA CopyUsed ==
    ASSUME NEW A, IsFiniteSet(A), NEW x \in A, NEW B \in SUBSET (A \ {x})
    PROVE  IsFiniteSet(B) /\ Cardinality(B) \in Nat /\ Cardinality(B) + 1 <= Cardinality(A)
<1>1. /\ IsFiniteSet(A \ {x}) /\ Cardinality(A) \in Nat
      /\ Cardinality(A \ {x}) = Cardinality(A) - 1
    BY FS_RemoveElement, FS_CardinalityType
<1>2. /\ IsFiniteSet(B) /\ Cardinality(B) \in Nat
      /\ Cardinality(B) <= Cardinality(A \ {x})
    BY <1>1, CopiesDropped
<1>. QED  BY <1>1, <1>2

LEMMA CopyMoved ==
    ASSUME NEW A, IsFiniteSet(A), NEW x \in A, NEW y, NEW B \in SUBSET ((A \ {x}) \cup {y})
    PROVE  IsFiniteSet(B) /\ Cardinality(B) \in Nat /\ Cardinality(B) <= Cardinality(A)
<1>1. /\ IsFiniteSet(A \ {x}) /\ Cardinality(A \ {x}) + 1 <= Cardinality(A)
      /\ Cardinality(A) \in Nat /\ Cardinality(A \ {x}) \in Nat
    BY CopyUsed, FS_CardinalityType
<1>2. /\ IsFiniteSet(B) /\ Cardinality(B) \in Nat /\ Cardinality(B) <= Cardinality(A \ {x}) + 1
    BY <1>1, CopyMade
<1>. QED  BY <1>1, <1>2

\* A command is on its way by a poll, a runner or the reconcile response.
LEMMA CopyIn ==
    ASSUME NEW c, NEW x
    PROVE  x \in Copies(c) <=> \/ \E p \in Polls : x = <<"poll", p>> /\ c \in batch[p]
                               \/ \E r \in Runners : x = <<"runner", r>> /\ c \in backlog[r]
                               \/ x = <<"reply", 0>> /\ c \in reply.pushNew
BY DEF Copies

LEMMA CopyInNext ==
    ASSUME NEW c, NEW x
    PROVE  x \in Copies(c)' <=> \/ \E p \in Polls : x = <<"poll", p>> /\ c \in batch'[p]
                                \/ \E r \in Runners : x = <<"runner", r>> /\ c \in backlog'[r]
                                \/ x = <<"reply", 0>> /\ c \in reply'.pushNew
BY DEF Copies

\* The copies and the starts of c are within what the daemon allowed.
Bounded(c) == IsFiniteSet(Copies(c)) /\ starts[c] + Cardinality(Copies(c)) <= Allowed(c)

LEMMA ReplayStep ==
    ASSUME TypeOK, TypeOK', IPCTypeOK, IPCTypeOK', OnlyIssued, ReplayInv, [IPCNext]_ipcVars
    PROVE  ReplayInv'
<1>0. /\ issued \in Nat /\ issued' \in Nat
      /\ \A c \in Commands : c \in Nat /\ starts[c] \in Nat /\ starts'[c] \in Nat
      /\ count["disconnect"] \in Nat /\ count'["disconnect"] \in Nat
    BY BridgeAssumption, IPCAssumption DEF TypeOK, IPCTypeOK, Commands, Faults
<1>1. \A c \in Commands : Allowed(c) \in Nat /\ Allowed(c)' \in Nat
    BY <1>0 DEF Allowed
<1>2. \A c \in Commands : Bounded(c) /\ Cardinality(Copies(c)) \in Nat
    BY FS_CardinalityType DEF ReplayInv, Bounded
<1>3. SUFFICES \A c \in Commands : Bounded(c)'
    BY DEF ReplayInv, Bounded
\* Nothing is begun and nothing leaves the daemon: copies are dropped at most.
<1>4. ASSUME NEW c \in Commands, Copies(c)' \subseteq Copies(c), starts'[c] = starts[c],
             Allowed(c)' >= Allowed(c)
      PROVE  Bounded(c)'
    <2>1. IsFiniteSet(Copies(c)') /\ Cardinality(Copies(c)') \in Nat
          /\ Cardinality(Copies(c)') <= Cardinality(Copies(c))
        BY <1>2, <1>4, CopiesDropped DEF Bounded
    <2>. QED  BY <1>0, <1>1, <1>2, <1>4, <2>1 DEF Bounded
\* The command leaves the daemon for the place y.
<1>5. ASSUME NEW c \in Commands, NEW y, Copies(c)' \subseteq Copies(c) \cup {y},
             starts'[c] = starts[c], Allowed(c)' >= Allowed(c) + 1
      PROVE  Bounded(c)'
    <2>1. IsFiniteSet(Copies(c)') /\ Cardinality(Copies(c)') \in Nat
          /\ Cardinality(Copies(c)') <= Cardinality(Copies(c)) + 1
        BY <1>2, <1>5, CopyMade DEF Bounded
    <2>. QED  BY <1>0, <1>1, <1>2, <1>5, <2>1 DEF Bounded
\* It goes from the place x to the place y.
<1>6. ASSUME NEW c \in Commands, NEW x \in Copies(c), NEW y,
             Copies(c)' \subseteq (Copies(c) \ {x}) \cup {y},
             starts'[c] = starts[c], Allowed(c)' >= Allowed(c)
      PROVE  Bounded(c)'
    <2>1. IsFiniteSet(Copies(c)') /\ Cardinality(Copies(c)') \in Nat
          /\ Cardinality(Copies(c)') <= Cardinality(Copies(c))
        BY <1>2, <1>6, CopyMoved DEF Bounded
    <2>. QED  BY <1>0, <1>1, <1>2, <1>6, <2>1 DEF Bounded
\* The daemon still counts as undelivered what it did, at most.
<1>7. ASSUME count'["disconnect"] = count["disconnect"], issued' >= issued,
             NEW c \in Commands, c \in Undelivered' => c \in Undelivered \/ c > issued
      PROVE  Allowed(c)' >= Allowed(c)
    BY <1>0, <1>7 DEF Allowed
<1>8. ASSUME UNCHANGED <<issued, pending, delivered, starts, count>>
      PROVE  /\ \A c \in Commands : starts'[c] = starts[c] /\ Allowed(c)' >= Allowed(c)
    <2>1. \A c \in Commands : Allowed(c)' = Allowed(c)
        BY <1>8 DEF Allowed, Undelivered
    <2>. QED  BY <1>1, <1>8, <2>1
<1>9. ASSUME \A p \in Polls : batch'[p] \subseteq batch[p],
             \A r \in Runners : backlog'[r] \subseteq backlog[r],
             reply'.pushNew \subseteq reply.pushNew, NEW c \in Commands
      PROVE  Copies(c)' \subseteq Copies(c)
    <2> SUFFICES ASSUME NEW x \in Copies(c)'
                 PROVE  x \in Copies(c)
        OBVIOUS
    <2>. QED  BY <1>9, CopyIn, CopyInNext
<1>10. ASSUME NEW S \in SUBSET Undelivered, NEW y, NEW c \in Commands,
              issued' = issued, pending' = pending, delivered' = delivered \cup S,
              UNCHANGED <<starts, count>>,
              Copies(c)' \subseteq Copies(c) \cup (IF c \in S THEN {y} ELSE {})
       PROVE  Bounded(c)'
    <2>1. c \in Undelivered' => c \in Undelivered /\ c \notin S
        BY <1>10 DEF Undelivered
    <2>2. CASE c \in S
        <3>1. c <= issued
            BY <2>2 DEF Undelivered, TypeOK
        <3>2. Allowed(c)' = Allowed(c) + 1
            BY <1>0, <1>10, <2>1, <2>2, <3>1 DEF Allowed
        <3>. QED  BY <1>1, <1>5, <1>10, <2>2, <3>2
    <2>3. CASE c \notin S
        <3>1. Allowed(c)' >= Allowed(c)
            BY <1>0, <1>7, <1>10, <2>1
        <3>. QED  BY <1>4, <1>10, <2>3, <3>1
    <2>. QED  BY <2>2, <2>3
<1>11. ASSUME NEW p \in Polls, LoopFetch(p) \/ KeepAlivePoll(p), NEW c \in Commands
       PROVE  Bounded(c)'
    <2>1. PollDrain(p, TRUE) /\ UNCHANGED <<backlog, reply, starts, count>>
        BY <1>11 DEF LoopFetch, KeepAlivePoll, extensionVars, pageVars, wakeVars, histVars
    <2>2. CASE Undelivered = {}
        <3>1. UNCHANGED <<issued, pending, delivered, batch>>
            BY <2>1, <2>2 DEF PollDrain
        <3>. QED  BY <1>4, <1>8, <1>9, <2>1, <3>1
    <2>3. CASE Undelivered # {}
        <3>1. /\ issued' = issued /\ pending' = pending /\ delivered' = delivered \cup Undelivered
              /\ batch' = [batch EXCEPT ![p] = Undelivered]
            BY <2>1, <2>3 DEF PollDrain, AnswerPoll, Undelivered, TypeOK
        <3>2. \A q \in Polls : batch'[q] = IF q = p THEN Undelivered ELSE batch[q]
            BY <3>1 DEF TypeOK
        <3>3. Copies(c)' \subseteq Copies(c) \cup (IF c \in Undelivered THEN {<<"poll", p>>} ELSE {})
            <4> SUFFICES ASSUME NEW x \in Copies(c)', x \notin Copies(c)
                         PROVE  c \in Undelivered /\ x = <<"poll", p>>
                OBVIOUS
            <4>. QED  BY <2>1, <3>2, CopyIn, CopyInNext
        <3>. QED  BY <1>10, <2>1, <3>1, <3>3
    <2>. QED  BY <2>2, <2>3
<1>12. ASSUME NEW p \in Polls, ResponseUnread(p), NEW c \in Commands
       PROVE  Bounded(c)'
    <2>1. /\ UNCHANGED <<issued, pending, delivered, starts, count, backlog, reply>>
          /\ batch' = [batch EXCEPT ![p] = {}]
        BY <1>12 DEF ResponseUnread, PollReturn, queueVars, extensionVars, pageVars, wakeVars, histVars
    <2>2. \A q \in Polls : batch'[q] \subseteq batch[q]
        BY <2>1 DEF TypeOK
    <2>. QED  BY <1>4, <1>8, <1>9, <2>1, <2>2
<1>13. ASSUME LoopReceive, NEW c \in Commands
       PROVE  Bounded(c)'
    <2>1. /\ UNCHANGED <<issued, pending, delivered, starts, count, reply>>
          /\ backlog' = [backlog EXCEPT ![loop] = batch[fetch]]
          /\ batch' = [batch EXCEPT ![fetch] = {}]
          /\ fetch \in Polls /\ loop \in Runners
        BY <1>13 DEF LoopReceive, PollReturn, queueVars, wakeVars, histVars, IPCTypeOK, Runners
    <2>2. /\ \A q \in Polls : batch'[q] = IF q = fetch THEN {} ELSE batch[q]
          /\ \A r \in Runners : backlog'[r] = IF r = loop THEN batch[fetch] ELSE backlog[r]
        BY <2>1 DEF TypeOK, IPCTypeOK
    <2>3. CASE c \in batch[fetch]
        <3>1. <<"poll", fetch>> \in Copies(c)
            BY <2>1, <2>3, CopyIn
        <3>2. Copies(c)' \subseteq (Copies(c) \ {<<"poll", fetch>>}) \cup {<<"runner", loop>>}
            <4> SUFFICES ASSUME NEW x \in Copies(c)', x # <<"runner", loop>>
                         PROVE  x \in Copies(c) /\ x # <<"poll", fetch>>
                OBVIOUS
            <4>. QED  BY <2>1, <2>2, CopyIn, CopyInNext
        <3>. QED  BY <1>6, <1>8, <2>1, <3>1, <3>2
    <2>4. CASE c \notin batch[fetch]
        <3>1. Copies(c)' \subseteq Copies(c)
            <4> SUFFICES ASSUME NEW x \in Copies(c)'
                         PROVE  x \in Copies(c)
                OBVIOUS
            <4>. QED  BY <2>1, <2>2, <2>4, CopyIn, CopyInNext
        <3>. QED  BY <1>4, <1>8, <2>1, <3>1
    <2>. QED  BY <2>3, <2>4
<1>14. ASSUME NEW r \in Runners, Begin(r), NEW c \in Commands
       PROVE  Bounded(c)'
    <2> DEFINE m == Min(backlog[r])
    <2>1. m \in backlog[r] /\ m \in Commands
        <3>1. backlog[r] \in SUBSET Commands /\ backlog[r] # {}
            BY <1>14 DEF Begin, IPCTypeOK
        <3>2. backlog[r] \in SUBSET Nat
            BY <3>1 DEF Commands
        <3>. QED  BY <3>1, <3>2, MinOfNaturals
    <2>. HIDE DEF m
    <2>2. /\ backlog' = [backlog EXCEPT ![r] = @ \ {m}] /\ starts' = [starts EXCEPT ![m] = @ + 1]
          /\ UNCHANGED <<issued, pending, delivered, batch, reply, count>>
        BY <1>14 DEF Begin, m, bridgeVars, queueVars, pollVars, wakeVars
    <2>3. /\ \A q \in Runners : backlog'[q] = IF q = r THEN backlog[r] \ {m} ELSE backlog[q]
          /\ \A d \in Commands : starts'[d] = IF d = m THEN starts[d] + 1 ELSE starts[d]
        BY <2>1, <2>2 DEF IPCTypeOK
    <2>4. Allowed(c)' = Allowed(c)
        BY <2>2 DEF Allowed, Undelivered
    <2>5. CASE c = m
        <3>1. <<"runner", r>> \in Copies(c)
            BY <2>1, <2>5, CopyIn
        <3>2. Copies(c)' \subseteq Copies(c) \ {<<"runner", r>>}
            <4> SUFFICES ASSUME NEW x \in Copies(c)'
                         PROVE  x \in Copies(c) /\ x # <<"runner", r>>
                OBVIOUS
            <4>. QED  BY <2>2, <2>3, <2>5, CopyIn, CopyInNext
        <3>3. IsFiniteSet(Copies(c)') /\ Cardinality(Copies(c)') \in Nat
              /\ Cardinality(Copies(c)') + 1 <= Cardinality(Copies(c))
            BY <1>2, <3>1, <3>2, CopyUsed DEF Bounded
        <3>. QED  BY <1>0, <1>1, <1>2, <2>3, <2>4, <2>5, <3>3 DEF Bounded
    <2>6. CASE c # m
        <3>1. Copies(c)' \subseteq Copies(c)
            BY <1>9, <2>2, <2>3
        <3>. QED  BY <1>1, <1>4, <2>3, <2>4, <2>6, <3>1
    <2>. QED  BY <2>5, <2>6
<1>15. ASSUME WakeConnect, NEW c \in Commands
       PROVE  Bounded(c)'
    <2> DEFINE S == PushNew(report.executing)
    <2>1. /\ issued' = issued /\ pending' = pending /\ delivered' = delivered \cup S
          /\ reply'.pushNew = S
          /\ UNCHANGED <<batch, backlog, starts, count>>
        BY <1>15 DEF WakeConnect, Connect, ReconcilePush, pollVars, pageVars, histVars
    <2>2. S \in SUBSET Undelivered
        BY DEF PushNew
    <2>. HIDE DEF S
    <2>3. Copies(c)' \subseteq Copies(c) \cup (IF c \in S THEN {<<"reply", 0>>} ELSE {})
        <3> SUFFICES ASSUME NEW x \in Copies(c)', x \notin Copies(c)
                     PROVE  c \in S /\ x = <<"reply", 0>>
            OBVIOUS
        <3>. QED  BY <2>1, CopyIn, CopyInNext
    <2>. QED  BY <1>10, <2>1, <2>2, <2>3
<1>16. ASSUME SelfTest, NEW c \in Commands
       PROVE  Bounded(c)'
    <2>1. /\ issued' = issued /\ pending' = pending /\ delivered' = delivered \cup PushNew({})
          /\ UNCHANGED <<batch, backlog, reply, starts, count>>
        BY <1>16 DEF SelfTest, Connect, ReconcilePush, pollVars, pageVars, wakeVars, histVars
    <2>2. PushNew({}) \in SUBSET Undelivered
        BY DEF PushNew
    <2>3. Copies(c)' \subseteq Copies(c)
        BY <1>9, <2>1
    <2>. QED  BY <1>10, <2>1, <2>2, <2>3
<1>17. ASSUME WakeReconcile, NEW c \in Commands
       PROVE  Bounded(c)'
    <2>1. /\ UNCHANGED <<issued, pending, delivered, batch, starts, count>>
          /\ backlog' = [backlog EXCEPT !["wake"] = reply.pushNew]
          /\ reply'.pushNew = {} /\ "wake" \in Runners
        BY <1>17 DEF WakeReconcile, NoReply, bridgeVars, queueVars, pollVars, histVars, Runners
    <2>2. \A r \in Runners : backlog'[r] = IF r = "wake" THEN reply.pushNew ELSE backlog[r]
        BY <2>1 DEF IPCTypeOK
    <2>3. CASE c \in reply.pushNew
        <3>1. <<"reply", 0>> \in Copies(c)
            BY <2>3, CopyIn
        <3>2. Copies(c)' \subseteq (Copies(c) \ {<<"reply", 0>>}) \cup {<<"runner", "wake">>}
            <4> SUFFICES ASSUME NEW x \in Copies(c)', x # <<"runner", "wake">>
                         PROVE  x \in Copies(c) /\ x # <<"reply", 0>>
                OBVIOUS
            <4>. QED  BY <2>1, <2>2, CopyIn, CopyInNext
        <3>. QED  BY <1>6, <1>8, <2>1, <3>1, <3>2
    <2>4. CASE c \notin reply.pushNew
        <3>1. Copies(c)' \subseteq Copies(c)
            <4> SUFFICES ASSUME NEW x \in Copies(c)'
                         PROVE  x \in Copies(c)
                OBVIOUS
            <4>. QED  BY <2>1, <2>2, <2>4, CopyIn, CopyInNext
        <3>. QED  BY <1>4, <1>8, <2>1, <3>1
    <2>. QED  BY <2>3, <2>4
<1>18. ASSUME CheckDisconnect, NEW c \in Commands
       PROVE  Bounded(c)'
    <2>1. count'["disconnect"] = count["disconnect"] + 1
        BY <1>18, FaultType DEF CheckDisconnect, Faults
    <2>2. UNCHANGED <<issued, pending, batch, backlog, reply, starts>>
        BY <1>18 DEF CheckDisconnect, HandleDisconnected, pageVars, wakeVars, histVars
    <2>3. Allowed(c)' >= Allowed(c)
        BY <1>0, <2>1, <2>2 DEF Allowed
    <2>. QED  BY <1>4, <1>9, <2>2, <2>3
<1>19. ASSUME DaemonRestart, NEW c \in Commands
       PROVE  Bounded(c)'
    <2>1. count'["disconnect"] = count["disconnect"]
        BY <1>19, FaultType DEF DaemonRestart, Faults
    <2>2. /\ UNCHANGED <<issued, backlog, reply, starts>> /\ pending' = {}
          /\ \A p \in Polls : batch'[p] = {}
        BY <1>19 DEF DaemonRestart, Restart, pageVars, wakeVars, histVars
    <2>3. Allowed(c)' >= Allowed(c)
        BY <1>0, <1>7, <2>1, <2>2 DEF Undelivered
    <2>. QED  BY <1>4, <1>9, <2>2, <2>3
<1>20. ASSUME PageDies \/ Navigate, NEW c \in Commands
       PROVE  Bounded(c)'
    <2>1. count'["disconnect"] = count["disconnect"]
        BY <1>20, FaultType DEF PageDies, Navigate, Faults
    <2>2. UNCHANGED <<issued, pending, delivered, batch, starts>>
        BY <1>20 DEF PageDies, Navigate, bridgeVars, queueVars, pollVars, histVars
    <2>3. (\A r \in Runners : backlog'[r] \subseteq backlog[r]) /\ reply'.pushNew \subseteq reply.pushNew
        BY <1>20 DEF PageDies, Navigate, NoReply, pageVars, wakeVars
    <2>4. Allowed(c)' = Allowed(c)
        BY <2>1, <2>2 DEF Allowed, Undelivered
    <2>. QED  BY <1>1, <1>4, <1>9, <2>2, <2>3, <2>4
<1>21. ASSUME HandleExecute, UNCHANGED extensionVars, NEW c \in Commands
       PROVE  Bounded(c)'
    <2> DEFINE n == issued + 1
    <2>1. /\ n \in Commands /\ issued' = n /\ pending' = pending \cup {n}
          /\ UNCHANGED <<backlog, reply, starts, count>>
        BY <1>21 DEF HandleExecute, extensionVars, pageVars, wakeVars, histVars
    <2>2. n \notin pending
        BY <1>0 DEF TypeOK
    <2>3. c \in Undelivered' => c \in Undelivered \/ c = n
        BY <1>21, <2>1 DEF HandleExecute, Undelivered
    <2>4. n > issued /\ issued' >= issued
        BY <1>0, <2>1
    <2>5. Allowed(c)' >= Allowed(c)
        BY <1>7, <2>1, <2>3, <2>4
    <2>6. CASE waiting = <<>>
        <3>1. batch' = batch
            BY <1>21, <2>6 DEF HandleExecute, pollVars
        <3>. QED  BY <1>4, <1>9, <2>1, <2>5, <3>1
    <2>7. CASE waiting # <<>>
        <3>1. Head(waiting) \in Polls
            BY <2>7, HeadTailProperties DEF TypeOK
        <3>2. delivered' = delivered \cup {n} /\ batch' = [batch EXCEPT ![Head(waiting)] = {n}]
            BY <1>21, <2>7 DEF HandleExecute, AnswerPoll
        <3>3. \A q \in Polls : batch'[q] = IF q = Head(waiting) THEN {n} ELSE batch[q]
            BY <3>1, <3>2 DEF TypeOK
        <3>4. CASE c = n
            <4>1. Copies(c)' \subseteq Copies(c) \cup {<<"poll", Head(waiting)>>}
                <5> SUFFICES ASSUME NEW x \in Copies(c)', x # <<"poll", Head(waiting)>>
                             PROVE  x \in Copies(c)
                    OBVIOUS
                <5>. QED  BY <2>1, <3>3, CopyIn, CopyInNext
            <4>2. c \notin Undelivered'
                BY <3>2, <3>4 DEF Undelivered
            <4>3. Allowed(c)' = Allowed(c) + 1
                BY <1>0, <2>1, <2>4, <3>4, <4>2 DEF Allowed
            <4>. QED  BY <1>1, <1>5, <2>1, <4>1, <4>3
        <3>5. CASE c # n
            <4>1. Copies(c)' \subseteq Copies(c)
                BY <1>9, <2>1, <3>3, <3>5, CopyIn, CopyInNext
            <4>. QED  BY <1>4, <2>1, <2>5, <4>1
        <3>. QED  BY <3>4, <3>5
    <2>. QED  BY <2>6, <2>7
<1>22. ASSUME NEW d \in Commands, NEW c \in Commands,
              \/ PostArrives(d, "value") \/ PostArrives(d, "error")
              \/ CommandTimeout(d) /\ UNCHANGED extensionVars
       PROVE  Bounded(c)'
    <2>1. /\ UNCHANGED <<issued, batch, backlog, reply, starts, count>>
          /\ \/ UNCHANGED <<pending, delivered>>
             \/ pending' = pending \ {d} /\ delivered' = delivered \ {d}
        BY <1>22
        DEF PostArrives, HandleResult, CommandTimeout, AnswerCaller, bridgeVars, queueVars, pollVars,
            extensionVars, pageVars, wakeVars, histVars
    <2>2. c \in Undelivered' => c \in Undelivered
        BY <2>1 DEF Undelivered
    <2>3. Allowed(c)' >= Allowed(c)
        BY <1>0, <1>7, <2>1, <2>2
    <2>. QED  BY <1>4, <1>9, <2>1, <2>3
<1>23. ASSUME NEW p \in Polls, PollSuspend(p) \/ PollTimeout(p), UNCHANGED extensionVars,
              NEW c \in Commands
       PROVE  Bounded(c)'
    <2>1. UNCHANGED <<issued, pending, delivered, starts, count, backlog, reply>>
        BY <1>23 DEF PollSuspend, PollTimeout, queueVars, extensionVars, pageVars, wakeVars, histVars
    <2>2. \A q \in Polls : batch'[q] \subseteq batch[q]
        BY <1>23 DEF PollSuspend, PollTimeout, AnswerPoll, TypeOK
    <2>. QED  BY <1>4, <1>8, <1>9, <2>1, <2>2
<1>24. ASSUME UNCHANGED <<issued, pending, delivered, batch, reply, starts, count>>,
              \A r \in Runners : backlog'[r] \subseteq backlog[r], NEW c \in Commands
       PROVE  Bounded(c)'
    BY <1>4, <1>8, <1>9, <1>24
<1>25. ASSUME NEW d \in Commands, RecordExecuted(d), UNCHANGED extensionVars, NEW c \in Commands
       PROVE  Bounded(c)'
    BY <1>24, <1>25 DEF RecordExecuted, queueVars, pollVars, extensionVars, pageVars, wakeVars, histVars
<1>26. ASSUME BridgeStep, NEW c \in Commands
       PROVE  Bounded(c)'
    BY <1>21, <1>22, <1>23, <1>25, <1>26 DEF BridgeStep
<1>27. ASSUME NEW r \in Runners, BusTimeout(r) \/ ExecuteThrows(r), NEW c \in Commands
       PROVE  Bounded(c)'
    <2>1. UNCHANGED <<issued, pending, delivered, batch, reply, starts, count>>
        BY <1>27 DEF BusTimeout, ExecuteThrows, bridgeVars, queueVars, pollVars, wakeVars, histVars
    <2>2. \A q \in Runners : backlog'[q] \subseteq backlog[q]
        BY <1>27 DEF BusTimeout, ExecuteThrows, IPCTypeOK
    <2>. QED  BY <1>24, <2>1, <2>2
<1>28. ASSUME \/ LoopRetry \/ UNCHANGED ipcVars \/ WakeStart \/ WakeFinish \/ KeepAlivePing
       PROVE  UNCHANGED <<issued, pending, delivered, batch, backlog, reply, starts, count>>
    BY <1>28
    DEF LoopRetry, ipcVars, WakeStart, WakeFinish, KeepAlivePing, HandleConnected, bridgeVars,
        queueVars, pollVars, extensionVars, pageVars, wakeVars, histVars
<1>29. ASSUME NEW d \in Commands, NEW result \in {"value", "error"},
              ContentRun(d) \/ ContentReply(d, result) \/ PostFails(d, result)
       PROVE  UNCHANGED <<issued, pending, delivered, batch, backlog, reply, starts, count>>
    BY <1>29
    DEF ContentRun, ContentReply, PostFails, bridgeVars, queueVars, pollVars, pageVars, wakeVars, histVars
<1>30. ASSUME WakeConnectFails, NEW c \in Commands
       PROVE  Bounded(c)'
    <2>1. /\ UNCHANGED <<issued, pending, delivered, batch, backlog, starts, count>>
          /\ reply'.pushNew = {}
        BY <1>30 DEF WakeConnectFails, NoReply, bridgeVars, queueVars, pollVars, pageVars, histVars
    <2>. QED  BY <1>4, <1>8, <1>9, <2>1
<1>. QED
    BY <1>11, <1>12, <1>13, <1>14, <1>15, <1>16, <1>17, <1>18, <1>19, <1>20, <1>22, <1>24, <1>26,
       <1>27, <1>28, <1>29, <1>30 DEF IPCNext

\* A command is begun once, and once more for each time the daemon declared the
\* extension gone: no poll, push, keep-alive or superseded loop repeats it.
THEOREM ReplaysBounded == IPCSpec => []ReplayBound
<1>1. IPCInit => ReplayInv
    <2> SUFFICES ASSUME IPCInit, NEW c \in Commands
                 PROVE  IsFiniteSet(Copies(c)) /\ starts[c] + Cardinality(Copies(c)) <= Allowed(c)
        BY DEF ReplayInv
    <2>1. \A x : x \notin Copies(c)
        BY CopyIn DEF IPCInit, Init, NoReply
    <2>2. Copies(c) = {}
        BY <2>1
    <2>3. IsFiniteSet(Copies(c)) /\ Cardinality(Copies(c)) = 0
        BY <2>2, FS_EmptySet
    <2>4. Allowed(c) \in Nat /\ starts[c] = 0
        BY DEF IPCInit, Init, Allowed, Faults, Undelivered
    <2>. QED  BY <2>3, <2>4
<1>2. IPCInv /\ IPCInv' /\ ReplayInv /\ [IPCNext]_ipcVars => ReplayInv'
    BY ReplayStep DEF IPCInv
<1>3. IPCInv /\ ReplayInv => ReplayBound
    <2> SUFFICES ASSUME IPCTypeOK, ReplayInv, NEW c \in Commands
                 PROVE  starts[c] <= 1 + count["disconnect"]
        BY DEF IPCInv, ReplayBound
    <2>1. /\ count["disconnect"] \in Nat /\ starts[c] \in Nat
          /\ Cardinality(Copies(c)) \in Nat
        BY FS_CardinalityType, IPCAssumption DEF IPCTypeOK, Faults, ReplayInv
    <2>. QED  BY <2>1 DEF ReplayInv, Allowed
<1>. QED  BY <1>1, <1>2, <1>3, IPCInvariant, PTL DEF IPCSpec
=============================================================================
