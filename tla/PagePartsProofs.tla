------------------------------ MODULE PagePartsProofs ------------------------------
(***************************************************************************)
(* The inductive invariants of the parts in PageParts: each holds at first,*)
(* and every step of its part keeps it, for all values of the constants.   *)
(***************************************************************************)
EXTENDS PageParts, SequenceTheorems, FiniteSetTheorems, WellFoundedInduction, TLAPS

\* A set of indices has a least one.
LEMMA LeastIndex ==
    ASSUME NEW T \in SUBSET Nat, T # {}
    PROVE  \E m \in T : \A n \in T : m <= n
<1> DEFINE R == {ss \in Nat \X Nat : ss[1] < ss[2]}
<1>1. IsWellFoundedOn(R, Nat)
  BY NatLessThanWellFounded, Zenon DEF OpToRel
<1>2. PICK m \in T : \A n \in T : <<n, m>> \notin R
  <2> HIDE DEF R
  <2> QED BY <1>1, WFMin
<1>3. \A n \in T : m <= n
  <2> SUFFICES ASSUME NEW n \in T, ~(m <= n) PROVE FALSE
    OBVIOUS
  <2>1. n \in Nat /\ m \in Nat /\ n < m
    OBVIOUS
  <2>2. <<n, m>> \in R
    BY <2>1
  <2> QED BY <1>2, <2>2
<1> QED BY <1>3

\* The values of f begin with a base, and each is made of the one before it.
Iterates(f, V, n, base, g) ==
    f \in [0..n -> V] /\ f[0] = base /\ \A i \in 1..n : f[i] = g[i][f[i - 1]]

\* There is such a function.
LEMMA Recursion ==
    ASSUME NEW V, NEW n \in Nat, NEW base \in V, NEW g \in [1..n -> [V -> V]]
    PROVE  \E f : Iterates(f, V, n, base, g)
<1> DEFINE Upto(m, f) == f \in [0..m -> V] /\ f[0] = base /\ \A i \in 1..m : f[i] = g[i][f[i - 1]]
           Bad == {m \in 0..n : ~ \E f : Upto(m, f)}
<1>1. CASE Bad = {}
  <2>1. n \notin Bad
    BY <1>1
  <2> QED BY <2>1 DEF Iterates
<1>2. CASE Bad # {}
  <2>1. PICK m \in Bad : \A k \in Bad : m <= k
    <3>1. Bad \in SUBSET Nat
      OBVIOUS
    <3> HIDE DEF Bad
    <3> QED BY <1>2, <3>1, LeastIndex
  <2>2. m # 0
    <3>1. Upto(0, [i \in 0..0 |-> base])
      OBVIOUS
    <3> QED BY <3>1, <2>1
  <2>3. m - 1 \in 0..n /\ m - 1 \notin Bad
    <3>1. m \in 0..n
      BY <2>1
    <3> HIDE DEF Bad
    <3> QED BY <2>1, <2>2, <3>1
  <2>4. PICK f : Upto(m - 1, f)
    BY <2>3
  <2> DEFINE h == [i \in 0..m |-> IF i = m THEN g[m][f[m - 1]] ELSE f[i]]
  <2>5. m \in 1..n /\ g[m] \in [V -> V] /\ f[m - 1] \in V
    BY <2>1, <2>2, <2>4
  <2>6. Upto(m, h)
    <3>1. \A i \in 0..m : h[i] \in V
      BY <2>4, <2>5
    <3>2. h[0] = base
      BY <2>4, <2>5
    <3>3. \A i \in 1..m : h[i] = g[i][h[i - 1]]
      BY <2>4, <2>5
    <3> QED BY <3>1, <3>2, <3>3
  <2> QED BY <2>1, <2>6
<1> QED BY <1>1, <1>2

\* And stays where it belongs.
LEMMA Recursed ==
    ASSUME NEW V, NEW n \in Nat, NEW base \in V, NEW g \in [1..n -> [V -> V]], NEW F,
           F[0] = base, \A i \in 1..n : F[i - 1] \in V => F[i] = g[i][F[i - 1]]
    PROVE  \A i \in 0..n : F[i] \in V
<1> DEFINE Bad == {m \in 0..n : F[m] \notin V}
<1> SUFFICES ASSUME Bad # {} PROVE FALSE
  OBVIOUS
<1>1. PICK m \in Bad : \A k \in Bad : m <= k
  <2>1. Bad \in SUBSET Nat
    OBVIOUS
  <2> HIDE DEF Bad
  <2> QED BY <2>1, LeastIndex
<1>2. m # 0 /\ m \in 1..n
  BY <1>1
<1>3. F[m - 1] \in V
  BY <1>1, <1>2
<1>4. F[m] = g[m][F[m - 1]] /\ g[m][F[m - 1]] \in V
  BY <1>2, <1>3
<1> QED BY <1>1, <1>4
-----------------------------------------------------------------------------
\* Frames.
\* The inductive invariant.

Scripts ==
    [setup : {"absent", "asks", "scans", "read", "over"}, tab : BOOLEAN,
     phase : {"IDLE", "AWAITING_FRAME_ID", "READY"}, frameId : Frames \cup {None},
     queue : SUBSET Commands, snapshot : SUBSET Commands, processed : SUBSET Commands,
     sound : BOOLEAN]

BusTypes ==
    /\ script \in Scripts
    /\ bus \subseteq Commands /\ changes \subseteq Commands
    /\ step \in [Commands -> {"new", "found", "sent", "answered", "timed_out", "done"}]
    /\ me \in Frames

\* A script that nothing went wrong for knows its frame once the handshake is
\* over, and its tab once it is at the storage.
Knows(s) ==
    s.sound => /\ s.phase = "READY" => s.frameId = me
               /\ s.setup \in {"scans", "read", "over"} => s.tab

BusInv == BusTypes /\ Knows(script) /\ Bus!NothingForgotten

\* What an arrival does: commands the script has are kept, and the new ones of
\* its own frame are taken, queued or refused.

Settled(c) ==
    c \in script'.processed \cup script'.queue \/ <<c, "navigated">> \in posted'

LEMMA ProcessTakes ==
    ASSUME BusTypes, NEW s \in Scripts, NEW cs \in SUBSET Commands, Bus!Process(s, cs)
    PROVE  /\ script' \in Scripts /\ posted \subseteq posted'
           /\ script' = [s EXCEPT !.processed = script'.processed]
           /\ s.processed \subseteq script'.processed
           /\ s.tab /\ s.frameId = me =>
                \A c \in cs : step[c] = "sent" /\ target[c] = me => Settled(c)
<1>1. Bus!Taken(s, cs) \subseteq Commands
    BY DEF Bus!Taken, Bus!Mine, Bus!Navigated
<1>2. /\ script' = [s EXCEPT !.processed = s.processed \cup Bus!Taken(s, cs)]
      /\ posted' = posted \cup {<<c, "navigated">> : c \in Bus!Navigated(s, cs)}
    BY DEF Bus!Process
<1>3. script' \in Scripts /\ script'.processed = s.processed \cup Bus!Taken(s, cs)
    BY <1>1, <1>2 DEF Scripts
<1>4. ASSUME s.tab, s.frameId = me, NEW c \in cs, step[c] = "sent", target[c] = me
      PROVE  Settled(c)
    <2>1. c \in Bus!Mine(s, cs)
        BY <1>4 DEF Bus!Mine
    <2>2. c \in Bus!Navigated(s, cs) \/ c \in Bus!Taken(s, cs) \/ c \in s.processed
        BY <1>4, <2>1 DEF Bus!Taken
    <2>. QED  BY <1>2, <1>3, <2>2 DEF Settled
<1>5. script' = [s EXCEPT !.processed = script'.processed]
    BY <1>2, <1>3
<1>. QED  BY <1>2, <1>3, <1>4, <1>5

LEMMA ArrivalSettles ==
    ASSUME BusTypes, NEW s \in Scripts, NEW cs \in SUBSET Commands, Bus!Arrive(s, cs), Knows(s)
    PROVE  /\ script' \in Scripts /\ posted \subseteq posted'
           /\ script'.setup = s.setup /\ script'.tab = s.tab /\ script'.sound = s.sound
           /\ script'.snapshot = s.snapshot /\ script'.frameId = s.frameId
           /\ script'.phase = "READY" => s.phase = "READY"
           /\ s.processed \subseteq script'.processed /\ s.queue \subseteq script'.queue
           /\ s.tab /\ s.sound =>
                \A c \in cs : step[c] = "sent" /\ target[c] = me => Settled(c)
<1>1. CASE s.phase = "READY" \/ cs = {}
    <2>1. Bus!Process(s, cs)
        BY <1>1 DEF Bus!Arrive
    <2>2. s.sound => s.frameId = me \/ cs = {}
        BY <1>1 DEF Knows
    <2>3. /\ script' \in Scripts /\ posted \subseteq posted'
          /\ script' = [s EXCEPT !.processed = script'.processed]
          /\ s.processed \subseteq script'.processed
          /\ s.tab /\ s.frameId = me =>
                \A c \in cs : step[c] = "sent" /\ target[c] = me => Settled(c)
        BY <2>1, ProcessTakes
    <2>4. /\ script'.setup = s.setup /\ script'.tab = s.tab /\ script'.sound = s.sound
          /\ script'.snapshot = s.snapshot /\ script'.frameId = s.frameId
          /\ script'.phase = s.phase /\ script'.queue = s.queue
        BY <2>3 DEF Scripts
    <2>. QED  BY <2>2, <2>3, <2>4
<1>2. CASE ~(s.phase = "READY" \/ cs = {})
    <2>1. /\ script' = [s EXCEPT !.phase = "AWAITING_FRAME_ID", !.queue = s.queue \cup cs]
          /\ posted' = posted
        BY <1>2 DEF Bus!Arrive, Bus!Queued
    <2>2. /\ script' \in Scripts /\ script'.queue = s.queue \cup cs
          /\ script'.setup = s.setup /\ script'.tab = s.tab /\ script'.sound = s.sound
          /\ script'.snapshot = s.snapshot /\ script'.frameId = s.frameId
          /\ script'.phase = "AWAITING_FRAME_ID" /\ script'.processed = s.processed
        BY <2>1 DEF Scripts
    <2>3. \A c \in cs : Settled(c)
        BY <2>2 DEF Settled
    <2>. QED  BY <2>1, <2>2, <2>3
<1>. QED  BY <1>1, <1>2

LEMMA BusInit == ASSUME Bus!FrameBusAssumption PROVE Bus!Init => BusInv
<1> SUFFICES ASSUME Bus!Init PROVE BusInv
    OBVIOUS
<1>1. script \in Scripts /\ Knows(script)
    BY DEF Bus!Init, Bus!Absent, Scripts, Knows
<1>2. BusTypes
    BY <1>1 DEF Bus!Init, BusTypes
<1>. QED  BY <1>1, <1>2 DEF Bus!Init, BusInv, Bus!NothingForgotten

\* Steps of the background: the script is told of what is put on the bus.
LEMMA FrameBackgroundStep ==
    ASSUME BusInv, NEW c \in Commands,
           \/ Bus!LookUp(c) \/ Bus!Send(c) \/ Bus!ResultListener(c) \/ Bus!ResultTimeout(c)
           \/ Bus!RemoveKeys(c) \/ Bus!OthersAnswer(c)
    PROVE  BusInv'
<1>1. UNCHANGED <<me, target, alive, script>> /\ posted \subseteq posted'
    BY DEF Bus!LookUp, Bus!Send, Bus!ResultListener, Bus!ResultTimeout, Bus!RemoveKeys, Bus!OthersAnswer, Bus!background, Bus!page, Bus!document
<1>2. CASE Bus!Send(c)
    <2>1. /\ step' = [step EXCEPT ![c] = "sent"] /\ bus' = bus \cup {c}
          /\ changes' = IF script.setup = "absent" THEN changes ELSE changes \cup {c}
        BY <1>2 DEF Bus!Send, Bus!Goto
    <2>2. BusTypes' /\ Knows(script)'
        BY <1>1, <2>1 DEF BusInv, BusTypes, Knows
    <2>3. Bus!NothingForgotten'
        BY <1>1, <2>1 DEF BusInv, BusTypes, Bus!NothingForgotten
    <2>. QED  BY <2>2, <2>3 DEF BusInv
<1>3. CASE ~Bus!Send(c)
    <2>1. /\ bus' \subseteq bus /\ changes' = changes
          /\ step' = step
             \/ \E where \in {"found", "answered", "timed_out", "done"} : step' = [step EXCEPT ![c] = where]
        BY <1>3 DEF Bus!LookUp, Bus!ResultListener, Bus!ResultTimeout, Bus!RemoveKeys, Bus!OthersAnswer, Bus!Goto, Bus!background, Bus!document
    <2>2. BusTypes' /\ Knows(script)'
        BY <1>1, <2>1 DEF BusInv, BusTypes, Knows
    <2>3. \A d \in Commands : step'[d] = "sent" => step[d] = "sent"
        BY <2>1 DEF BusInv, BusTypes
    <2>4. Bus!NothingForgotten'
        BY <1>1, <2>1, <2>3 DEF BusInv, BusTypes, Bus!NothingForgotten
    <2>. QED  BY <2>2, <2>4 DEF BusInv
<1>. QED  BY <1>2, <1>3

\* A storage event, or what the scan has read.
LEMMA ArriveStep ==
    ASSUME BusInv, Bus!Scan \/ (\E c \in Commands : Bus!OnChanged(c))
    PROVE  BusInv'
<1>1. CASE Bus!Scan
    <2> DEFINE s == [script EXCEPT !.setup = "over", !.snapshot = {}]
    <2>1. /\ script.setup = "read" /\ Bus!Arrive(s, script.snapshot)
          /\ UNCHANGED <<me, target, step, bus, alive, changes>>
        BY <1>1 DEF Bus!Scan, Bus!background, Bus!page
    <2>2. /\ s \in Scripts /\ s.setup = "over" /\ s.tab = script.tab /\ s.sound = script.sound
          /\ s.phase = script.phase /\ s.frameId = script.frameId
          /\ s.queue = script.queue /\ s.processed = script.processed
          /\ script.snapshot \in SUBSET Commands
        BY DEF BusInv, BusTypes, Scripts
    <2>3. Knows(s)
        BY <2>1, <2>2 DEF BusInv, Knows
    <2>. HIDE DEF s
    <2>4. BusTypes /\ BusTypes'
        BY <2>1, <2>2, <2>3, ArrivalSettles DEF BusInv, BusTypes
    <2>5. /\ posted \subseteq posted' /\ script'.sound = script.sound
          /\ script.processed \subseteq script'.processed /\ script.queue \subseteq script'.queue
          /\ s.tab /\ s.sound =>
                \A c \in script.snapshot : step[c] = "sent" /\ target[c] = me => Settled(c)
        BY <2>1, <2>2, <2>3, <2>4, ArrivalSettles
    <2>6. Knows(script)'
        BY <2>1, <2>2, <2>3, <2>4, ArrivalSettles DEF Knows
    <2>7. script.sound => s.tab /\ s.sound
        BY <2>2, <2>3 DEF Knows
    <2>8. Bus!NothingForgotten'
        BY <2>1, <2>5, <2>7 DEF BusInv, Bus!NothingForgotten, Settled
    <2>. QED  BY <2>4, <2>6, <2>8 DEF BusInv
<1>2. ASSUME NEW c \in Commands, Bus!OnChanged(c)
      PROVE  BusInv'
    <2>1. /\ changes' = changes \ {c} /\ Bus!Arrive(script, {c})
          /\ UNCHANGED <<me, target, step, bus, alive>>
        BY <1>2 DEF Bus!OnChanged, Bus!background, Bus!page
    <2>2. script \in Scripts /\ Knows(script) /\ BusTypes
        BY DEF BusInv, BusTypes
    <2>3. /\ script' \in Scripts /\ posted \subseteq posted'
          /\ script'.setup = script.setup /\ script'.tab = script.tab /\ script'.sound = script.sound
          /\ script'.snapshot = script.snapshot /\ script'.frameId = script.frameId
          /\ script'.phase = "READY" => script.phase = "READY"
          /\ script.processed \subseteq script'.processed /\ script.queue \subseteq script'.queue
          /\ script.tab /\ script.sound => (step[c] = "sent" /\ target[c] = me => Settled(c))
        BY <2>1, <2>2, ArrivalSettles
    <2>4. BusTypes' /\ Knows(script)'
        BY <2>1, <2>2, <2>3 DEF BusTypes, Knows
    <2>5. script.sound /\ script.setup \in {"read", "over"} => script.tab
        BY <2>2 DEF Knows
    <2>6. script.setup \in {"absent", "asks", "scans", "read", "over"}
        BY <2>2 DEF Scripts
    <2>7. Bus!NothingForgotten'
        BY <2>1, <2>3, <2>5, <2>6 DEF BusInv, Bus!NothingForgotten, Settled
    <2>. QED  BY <2>4, <2>7 DEF BusInv
<1>. QED  BY <1>1, <1>2

\* The script learns of its tab and reads the storage.
LEMMA SetupStep ==
    ASSUME BusInv, Bus!Inject \/ Bus!TabIdAnswered \/ Bus!StorageRead \/ Bus!VisibilityChange \/ Bus!FrameIdError
    PROVE  BusInv'
<1>1. UNCHANGED <<me, target, step, bus, alive, changes, posted>>
    BY DEF Bus!Inject, Bus!TabIdAnswered, Bus!StorageRead, Bus!VisibilityChange, Bus!FrameIdError, Bus!background, Bus!page
<1>2. CASE Bus!Inject
    BY <1>1, <1>2 DEF Bus!Inject, BusInv, BusTypes, Scripts, Knows, Bus!NothingForgotten
<1>3. CASE Bus!TabIdAnswered
    BY <1>1, <1>3 DEF Bus!TabIdAnswered, Bus!Unsound, BusInv, BusTypes, Scripts, Knows, Bus!NothingForgotten
<1>4. CASE Bus!StorageRead
    BY <1>1, <1>4 DEF Bus!StorageRead, Bus!Unsound, BusInv, BusTypes, Scripts, Knows, Bus!NothingForgotten
<1>5. CASE Bus!VisibilityChange
    BY <1>1, <1>5 DEF Bus!VisibilityChange, BusInv, BusTypes, Scripts, Knows, Bus!NothingForgotten
<1>6. CASE Bus!FrameIdError
    BY <1>1, <1>6 DEF Bus!FrameIdError, BusInv, BusTypes, Scripts, Knows, Bus!NothingForgotten
<1>. QED  BY <1>2, <1>3, <1>4, <1>5, <1>6

\* The frame's id comes, with the commands that waited for it.
LEMMA HandshakeStep ==
    ASSUME BusInv, Bus!FrameIdResponse
    PROVE  BusInv'
<1> DEFINE ready == [script EXCEPT !.phase = "READY", !.queue = {}]
           told == [ready EXCEPT !.frameId = me]
           failed == [ready EXCEPT !.sound = FALSE]
<1>1. /\ Bus!Process(told, script.queue) \/ Bus!Process(failed, script.queue)
      /\ UNCHANGED <<me, target, step, bus, alive, changes>>
    BY DEF Bus!FrameIdResponse, Bus!background, Bus!page
<1>2. /\ BusTypes /\ script.queue \in SUBSET Commands /\ script.snapshot \in SUBSET Commands
      /\ told \in Scripts /\ told.processed = script.processed /\ told.snapshot = script.snapshot
      /\ told.setup = script.setup /\ told.tab = script.tab /\ told.sound = script.sound
      /\ told.frameId = me
      /\ failed \in Scripts /\ ~failed.sound
    BY DEF BusInv, BusTypes, Scripts
<1>. HIDE DEF ready, told, failed
<1>3. CASE Bus!Process(told, script.queue)
    <2>1. /\ script' \in Scripts /\ posted \subseteq posted'
          /\ script' = [told EXCEPT !.processed = script'.processed]
          /\ script.processed \subseteq script'.processed
          /\ script.tab =>
                \A c \in script.queue : step[c] = "sent" /\ target[c] = me => Settled(c)
        BY <1>2, <1>3, ProcessTakes
    <2>2. /\ script'.setup = script.setup /\ script'.tab = script.tab /\ script'.sound = script.sound
          /\ script'.snapshot = script.snapshot /\ script'.frameId = me
        BY <1>2, <2>1 DEF Scripts
    <2>3. script'.queue = {}
        BY <1>2, <2>1 DEF Scripts, told, ready, BusTypes
    <2>4. BusTypes' /\ Knows(script)'
        BY <1>1, <1>2, <2>1, <2>2 DEF BusInv, BusTypes, Knows
    <2>5. script.sound /\ script.setup \in {"read", "over"} => script.tab
        BY DEF BusInv, Knows
    <2>6. script.setup \in {"absent", "asks", "scans", "read", "over"}
        BY <1>2 DEF BusTypes, Scripts
    <2>7. Bus!NothingForgotten'
        BY <1>1, <2>1, <2>2, <2>3, <2>5, <2>6 DEF BusInv, Bus!NothingForgotten, Settled
    <2>. QED  BY <2>4, <2>7 DEF BusInv
<1>4. CASE Bus!Process(failed, script.queue)
    <2>1. script' \in Scripts /\ script' = [failed EXCEPT !.processed = script'.processed]
        BY <1>2, <1>4, ProcessTakes
    <2>2. ~script'.sound
        BY <1>2, <2>1 DEF Scripts
    <2>. QED  BY <1>1, <1>2, <2>1, <2>2 DEF BusInv, BusTypes, Knows, Bus!NothingForgotten
<1>. QED  BY <1>1, <1>3, <1>4

\* The page answers, moves or is replaced.
LEMMA FramePageStep ==
    ASSUME BusInv, \/ \E c \in Commands : Bus!MainAnswers(c)
                   \/ \E a \in Addresses : Bus!PushState(a) \/ Bus!Unload(a)
    PROVE  BusInv'
<1>1. ASSUME NEW c \in Commands, Bus!MainAnswers(c)
      PROVE  BusInv'
    <2>1. UNCHANGED <<me, target, step, bus, alive, script, changes>> /\ posted \subseteq posted'
        BY <1>1 DEF Bus!MainAnswers, Bus!background, Bus!page
    <2>. QED  BY <2>1 DEF BusInv, BusTypes, Knows, Bus!NothingForgotten
<1>2. ASSUME NEW a \in Addresses, Bus!PushState(a)
      PROVE  BusInv'
    <2>1. UNCHANGED <<me, target, step, bus, alive, script, changes, posted>>
        BY <1>2 DEF Bus!PushState, Bus!background, Bus!document
    <2>. QED  BY <2>1 DEF BusInv, BusTypes, Knows, Bus!NothingForgotten
<1>3. ASSUME NEW a \in Addresses, Bus!Unload(a)
      PROVE  BusInv'
    <2>1. script' = Bus!Absent /\ changes' = {} /\ UNCHANGED <<me, target, step, bus>>
        BY <1>3 DEF Bus!Unload, Bus!background
    <2>2. script' \in Scripts /\ Knows(script)'
        BY <2>1 DEF Bus!Absent, Scripts, Knows
    <2>. QED  BY <2>1, <2>2 DEF BusInv, BusTypes, Bus!NothingForgotten, Bus!Absent
<1>. QED  BY <1>1, <1>2, <1>3

LEMMA BusStep == BusInv /\ [Bus!Next]_(Bus!vars) => BusInv'
<1> SUFFICES ASSUME BusInv, [Bus!Next]_(Bus!vars)
             PROVE  BusInv'
    OBVIOUS
<1>1. CASE UNCHANGED Bus!vars
    BY <1>1 DEF Bus!vars, Bus!background, Bus!page, Bus!document, BusInv, BusTypes, Knows, Bus!NothingForgotten
<1>2. CASE Bus!Next
    BY <1>2, FrameBackgroundStep, ArriveStep, SetupStep, HandshakeStep, FramePageStep DEF Bus!Next
<1>. QED  BY <1>1, <1>2

-----------------------------------------------------------------------------
\* Waits.
LEMMA InteractionInit == Waits!Init => Waits!WaitInv
<1> SUFFICES ASSUME Waits!Init PROVE Waits!WaitInv
  OBVIOUS
<1> QED
  BY DEF Waits!Init, Waits!WaitInv, Waits!WaitTypes, Waits!CallInv, Waits!States, Waits!CountsSamples, Waits!NoSamples

\* A check of an attempt that failed is one of the action's, and did not hold.
LEMMA FirstFailedFails ==
    ASSUME NEW c \in Waiters, NEW e, request[c] \in Actions, Waits!InteractionAssumption,
           ~ (Waits!ChecksOf(c) \subseteq Waits!Passed(e) \cup {"stable"})
    PROVE  Waits!FirstFailed(c, e) \in Waits!ChecksOf(c) \ Waits!Passed(e)
<1> DEFINE failed == {i \in DOMAIN Waits!CheckOrder : Waits!CheckOrder[i] \in Waits!ChecksOf(c) \ Waits!Passed(e)}
<1>1. DOMAIN Waits!CheckOrder = 1..4 /\ Waits!CheckOrder[1] = "visible" /\ Waits!CheckOrder[2] = "enabled"
      /\ Waits!CheckOrder[3] = "editable" /\ Waits!CheckOrder[4] = "receivesEvents"
  BY DEF Waits!CheckOrder
<1>2. Waits!ChecksOf(c) \subseteq {"visible", "stable", "enabled", "editable", "receivesEvents"}
  <2>1. request[c].kind \in DOMAIN Waits!ActionChecks
    BY DEF Waits!InteractionAssumption
  <2> QED BY <2>1 DEF Waits!ActionChecks, Waits!ChecksOf
<1>3. failed # {} /\ failed \subseteq 1..4
  BY <1>1, <1>2
<1>4. \E i \in failed : \A j \in failed : i <= j
  BY <1>3
<1>5. (CHOOSE i \in failed : \A j \in failed : i <= j) \in failed
  BY <1>4
<1> QED BY <1>5 DEF Waits!FirstFailed

\* A call whose part of the state stays keeps its part of the invariant.
LEMMA CallFrame ==
    ASSUME NEW d, Waits!CallInv(d), phase'[d] = phase[d], request'[d] = request[d],
           awaiting'[d] = awaiting[d], held'[d] = held[d], failedCheck'[d] = failedCheck[d],
           late[d] => late'[d], lastRect'[d] = lastRect[d], stableCount'[d] = stableCount[d],
           samples'[d] = samples[d]
    PROVE  Waits!CallInv(d)'
<1>1. Waits!CountsSamples(d)'
  BY DEF Waits!CallInv, Waits!CountsSamples
<1>2. Waits!ChecksOf(d)' = Waits!ChecksOf(d)
  BY DEF Waits!ChecksOf
<1> QED BY <1>1, <1>2 DEF Waits!CallInv

LEMMA AttemptKeeps ==
    ASSUME Waits!WaitInv, Waits!InteractionAssumption, NEW c \in Waiters, request[c] \in Actions,
           Waits!Attempt(c, late[c]), awaiting[c] \in {"none", "timer"},
           UNCHANGED <<request, late>>, phase' \in [Waiters -> {"idle", "waiting", "acting", "failed", "done"}],
           phase'[c] \notin {"idle", "waiting"}, \A d \in Waiters \ {c} : phase'[d] = phase[d]
    PROVE  Waits!WaitInv'
<1>0. Waits!WaitTypes /\ \A d \in Waiters : Waits!CallInv(d)
  BY DEF Waits!WaitInv
<1>1. CASE Waits!QuerySelector = None
  <2>1. /\ awaiting' = [awaiting EXCEPT ![c] = IF late[c] THEN "notReady" ELSE "timer"]
        /\ failedCheck' = [failedCheck EXCEPT ![c] = "found"]
        /\ UNCHANGED <<centered, element, lastRect, stableCount, held, samples>>
    BY <1>1 DEF Waits!Attempt
  <2>2. Waits!WaitTypes'
    BY <1>0, <2>1 DEF Waits!WaitTypes, Waits!States
  <2>3. ASSUME NEW d \in Waiters PROVE Waits!CallInv(d)'
    <3>1. CASE d # c
      <4>1. awaiting'[d] = awaiting[d] /\ failedCheck'[d] = failedCheck[d]
        BY <1>0, <2>1, <3>1 DEF Waits!WaitTypes
      <4> QED BY <1>0, <2>1, <3>1, <4>1, CallFrame
    <3>2. CASE d = c
      <4>1. awaiting'[c] = (IF late[c] THEN "notReady" ELSE "timer") /\ failedCheck'[c] = "found"
        BY <1>0, <2>1 DEF Waits!WaitTypes
      <4>2. Waits!CountsSamples(c)'
        BY <1>0, <2>1, <4>1 DEF Waits!WaitTypes, Waits!CallInv, Waits!CountsSamples
      <4> QED BY <1>0, <2>1, <3>2, <4>1, <4>2 DEF Waits!WaitTypes, Waits!CallInv
    <3> QED BY <3>1, <3>2
  <2> QED BY <2>2, <2>3 DEF Waits!WaitInv
<1>2. CASE Waits!QuerySelector # None
  <2> DEFINE e == Waits!QuerySelector
             good == Waits!ChecksOf(c) \subseteq Waits!Passed(e) \cup {"stable"}
  <2> HIDE DEF e
  <2>1. /\ held' = [held EXCEPT ![c] = Waits!Passed(e)]
        /\ lastRect' = [lastRect EXCEPT ![c] = None]
        /\ stableCount' = [stableCount EXCEPT ![c] = 0]
        /\ samples' = [samples EXCEPT ![c] = Waits!NoSamples]
        /\ good => /\ awaiting' = [awaiting EXCEPT ![c] =
                            IF "stable" \in Waits!ChecksOf(c) THEN "sampling" ELSE "ready"]
                   /\ UNCHANGED failedCheck
        /\ ~good => /\ awaiting' = [awaiting EXCEPT ![c] = IF late[c] THEN "notReady" ELSE "timer"]
                    /\ failedCheck' = [failedCheck EXCEPT ![c] = Waits!FirstFailed(c, e)]
    BY <1>2, Zenon DEF Waits!Attempt, e
  <2>2. ~good => Waits!FirstFailed(c, e) \in Waits!ChecksOf(c) \ Waits!Passed(e)
    BY FirstFailedFails
  <2>3. Waits!ChecksOf(c)' = Waits!ChecksOf(c) /\ \A d \in Waiters : Waits!ChecksOf(d)' = Waits!ChecksOf(d)
    BY DEF Waits!ChecksOf
  <2>5. Waits!WaitTypes'
    <3>2. awaiting' \in [Waiters -> Waits!States]
      BY <1>0, <2>1 DEF Waits!WaitTypes, Waits!States
    <3> QED BY <1>0, <2>1, <3>2 DEF Waits!WaitTypes
  <2>6. ASSUME NEW d \in Waiters \ {c} PROVE Waits!CallInv(d)'
    <3> HIDE DEF good
    <3>1. awaiting'[d] = awaiting[d] /\ failedCheck'[d] = failedCheck[d]
      BY <1>0, <2>1 DEF Waits!WaitTypes
    <3>2. held'[d] = held[d] /\ lastRect'[d] = lastRect[d] /\ stableCount'[d] = stableCount[d]
          /\ samples'[d] = samples[d]
      BY <1>0, <2>1 DEF Waits!WaitTypes
    <3> QED BY <1>0, <3>1, <3>2, CallFrame
  <2>7. Waits!CallInv(c)'
    <3>1. Waits!CountsSamples(c)'
      BY <1>0, <2>1 DEF Waits!WaitTypes, Waits!CountsSamples, Waits!NoSamples
    <3> HIDE DEF good
    <3>2. CASE good
      BY <1>0, <2>1, <2>3, <3>1, <3>2 DEF Waits!WaitTypes, Waits!CallInv, good
    <3>3. CASE ~good
      <4>1. awaiting'[c] = IF late[c] THEN "notReady" ELSE "timer"
        BY <1>0, <2>1, <3>3 DEF Waits!WaitTypes
      <4>2. held'[c] = Waits!Passed(e) /\ failedCheck'[c] = Waits!FirstFailed(c, e) /\ late'[c] = late[c]
        BY <1>0, <2>1, <3>3 DEF Waits!WaitTypes
      <4> QED BY <1>0, <2>2, <2>3, <3>1, <3>3, <4>1, <4>2 DEF Waits!CallInv
    <3> QED BY <3>2, <3>3
  <2> QED BY <2>5, <2>6, <2>7 DEF Waits!WaitInv
<1> QED BY <1>1, <1>2

LEMMA InteractionStep == Waits!WaitInv /\ Waits!InteractionAssumption /\ [Waits!Next]_(Waits!vars) => Waits!WaitInv'
<1> SUFFICES ASSUME Waits!WaitInv, Waits!InteractionAssumption, [Waits!Next]_(Waits!vars) PROVE Waits!WaitInv'
  OBVIOUS
<1>0. Waits!WaitTypes /\ \A d \in Waiters : Waits!CallInv(d)
  BY DEF Waits!WaitInv
<1>1. ASSUME NEW c \in Waiters, NEW r \in Actions, Waits!Begin(c, r) PROVE Waits!WaitInv'
  <2>1. /\ phase[c] = "idle" /\ request' = [request EXCEPT ![c] = r]
        /\ phase' = [phase EXCEPT ![c] =
               IF Waits!ActionChecks[r.kind] # {} /\ ~r.force THEN "waiting" ELSE "acting"]
        /\ UNCHANGED <<awaiting, lastRect, stableCount, failedCheck, held, samples, late>>
    BY <1>1 DEF Waits!Begin, Waits!waitVars
  <2>2. Waits!WaitTypes'
    BY <1>0, <2>1 DEF Waits!WaitTypes
  <2>3. ASSUME NEW d \in Waiters \ {c} PROVE Waits!CallInv(d)'
    <3>1. phase'[d] = phase[d] /\ request'[d] = request[d]
      BY <1>0, <2>1 DEF Waits!WaitTypes
    <3> QED BY <1>0, <2>1, <3>1, CallFrame
  <2>4. Waits!CallInv(c)'
    <3>1. awaiting'[c] = "none" /\ request'[c] = r
      BY <1>0, <2>1 DEF Waits!WaitTypes, Waits!CallInv
    <3>2. Waits!CountsSamples(c)'
      BY <1>0, <2>1 DEF Waits!CallInv, Waits!CountsSamples
    <3> QED BY <3>1, <3>2 DEF Waits!CallInv
  <2> QED BY <2>2, <2>3, <2>4 DEF Waits!WaitInv
<1>2. ASSUME NEW c \in Waiters, Waits!RunWait(c) PROVE Waits!WaitInv'
  <2>1. UNCHANGED <<request, late>> /\ Waits!Attempt(c, late[c]) /\ phase[c] = "waiting"
        /\ phase' = [phase EXCEPT ![c] = "acting"]
    BY <1>2 DEF Waits!RunWait
  <2>2. request[c] \in Actions /\ awaiting[c] = "none"
    BY <1>0, <2>1 DEF Waits!CallInv
  <2>3. /\ phase' \in [Waiters -> {"idle", "waiting", "acting", "failed", "done"}]
        /\ phase'[c] \notin {"idle", "waiting"} /\ \A d \in Waiters \ {c} : phase'[d] = phase[d]
    BY <1>0, <2>1 DEF Waits!WaitTypes
  <2> QED BY <1>0, <2>1, <2>2, <2>3, AttemptKeeps DEF Waits!WaitTypes
<1>3. ASSUME NEW c \in Waiters, Waits!WaitFails(c) \/ Waits!Act(c) PROVE Waits!WaitInv'
  <2>1. /\ phase[c] # "idle" /\ UNCHANGED <<request, awaiting, lastRect, stableCount, failedCheck, held, samples, late>>
        /\ phase' \in [Waiters -> {"idle", "waiting", "acting", "failed", "done"}]
        /\ phase'[c] \notin {"idle", "waiting"} /\ \A d \in Waiters \ {c} : phase'[d] = phase[d]
    BY <1>0, <1>3 DEF Waits!WaitFails, Waits!Act, Waits!waitVars, Waits!WaitTypes
  <2>2. Waits!WaitTypes'
    BY <1>0, <2>1 DEF Waits!WaitTypes
  <2>3. ASSUME NEW d \in Waiters \ {c} PROVE Waits!CallInv(d)'
    BY <1>0, <2>1, CallFrame
  <2>4. Waits!CallInv(c)'
    BY <1>0, <2>1 DEF Waits!CallInv, Waits!CountsSamples, Waits!ChecksOf
  <2> QED BY <2>2, <2>3, <2>4 DEF Waits!WaitInv
<1>4. ASSUME NEW c \in Waiters, Waits!BackedOff(c) PROVE Waits!WaitInv'
  <2>1. UNCHANGED <<request, late, phase>> /\ Waits!Attempt(c, late[c]) /\ awaiting[c] = "timer"
    BY <1>4 DEF Waits!BackedOff, Waits!callVars
  <2>2. phase[c] \notin {"idle", "waiting"} /\ request[c] \in Actions
    BY <1>0, <2>1 DEF Waits!CallInv
  <2> QED BY <1>0, <2>1, <2>2, AttemptKeeps DEF Waits!WaitTypes
<1>5. ASSUME NEW c \in Waiters, Waits!Sample(c) PROVE Waits!WaitInv'
  <2> DEFINE rect == Waits!Rect(element[c])
             saw == samples[c]
  <2>1. /\ awaiting[c] = "sampling"
        /\ stableCount' = [stableCount EXCEPT ![c] = Waits!Counted(c, rect)]
        /\ lastRect' = [lastRect EXCEPT ![c] = rect]
        /\ samples' = [samples EXCEPT ![c] = <<saw[2], saw[3], rect>>]
        /\ awaiting' = [awaiting EXCEPT ![c] = IF Waits!Counted(c, rect) >= 2 THEN "ready" ELSE "sampling"]
        /\ UNCHANGED <<request, phase, failedCheck, held, late>>
    <3>1. awaiting[c] = "sampling"
      BY <1>5 DEF Waits!Sample
    <3>2. [awaiting EXCEPT ![c] = IF Waits!Counted(c, rect) >= 2 THEN "ready" ELSE awaiting[c]]
            = [awaiting EXCEPT ![c] = IF Waits!Counted(c, rect) >= 2 THEN "ready" ELSE "sampling"]
      BY <3>1
    <3> QED BY <1>5, <3>1, <3>2 DEF Waits!Sample, Waits!callVars
  <2> HIDE DEF rect
  <2>7. samples'[c] = <<saw[2], saw[3], rect>> /\ lastRect'[c] = rect /\ stableCount'[c] = Waits!Counted(c, rect)
    BY <1>0, <2>1 DEF Waits!WaitTypes
  <2>8. Waits!WaitTypes'
    <3>1. awaiting' \in [Waiters -> Waits!States]
      BY <1>0, <2>1 DEF Waits!WaitTypes, Waits!States
    <3> QED BY <1>0, <2>1, <3>1 DEF Waits!WaitTypes
  <2>9. ASSUME NEW d \in Waiters \ {c} PROVE Waits!CallInv(d)'
    <3>1. awaiting'[d] = awaiting[d] /\ lastRect'[d] = lastRect[d]
          /\ stableCount'[d] = stableCount[d] /\ samples'[d] = samples[d]
      BY <1>0, <2>1 DEF Waits!WaitTypes
    <3> QED BY <1>0, <2>1, <3>1, CallFrame
  <2>10. Waits!CallInv(c)'
    <3>1. Waits!CountsSamples(c) /\ stableCount[c] < 2
      BY <1>0, <2>1 DEF Waits!CallInv, Waits!CountsSamples
    <3>2. awaiting'[c] = IF Waits!Counted(c, rect) >= 2 THEN "ready" ELSE "sampling"
      BY <1>0, <2>1 DEF Waits!WaitTypes
    <3>3. Waits!Counted(c, rect) \in 0..2
      BY <3>1 DEF Waits!Counted, Waits!CountsSamples
    <3>4. Waits!CountsSamples(c)'
      <4>1. Waits!Counted(c, rect) > 0 => rect = saw[3] /\ rect # None /\ stableCount[c] = Waits!Counted(c, rect) - 1
        BY <3>1 DEF Waits!Counted, Waits!CountsSamples
      <4>2. Waits!Counted(c, rect) > 1 => saw[2] = saw[3]
        BY <3>1, <3>3, <4>1 DEF Waits!CountsSamples
      <4>3. awaiting'[c] = "sampling" => Waits!Counted(c, rect) < 2
        BY <3>2, <3>3
      <4> QED BY <2>7, <3>3, <4>1, <4>2, <4>3 DEF Waits!CountsSamples
    <3> QED BY <1>0, <2>1, <2>7, <3>2, <3>3, <3>4 DEF Waits!CallInv, Waits!ChecksOf
  <2> QED BY <2>8, <2>9, <2>10 DEF Waits!WaitInv
<1>6. ASSUME NEW c \in Waiters, Waits!TimeoutPasses(c) PROVE Waits!WaitInv'
  <2>1. /\ UNCHANGED <<request, phase, awaiting, lastRect, stableCount, failedCheck, held, samples>>
        /\ late' = [late EXCEPT ![c] = TRUE]
    BY <1>6 DEF Waits!TimeoutPasses, Waits!callVars, Waits!waitVars
  <2>2. Waits!WaitTypes' /\ \A d \in Waiters : late[d] => late'[d]
    BY <1>0, <2>1 DEF Waits!WaitTypes
  <2>3. ASSUME NEW d \in Waiters PROVE Waits!CallInv(d)'
    BY <1>0, <2>1, <2>2, CallFrame
  <2> QED BY <2>2, <2>3 DEF Waits!WaitInv
<1>7. CASE Waits!Change \/ UNCHANGED Waits!vars
  <2>1. UNCHANGED <<request, phase, late, awaiting, lastRect, stableCount, failedCheck, held, samples>>
    BY <1>7 DEF Waits!Change, Waits!callVars, Waits!waitVars, Waits!vars
  <2>2. Waits!WaitTypes'
    BY <1>0, <2>1 DEF Waits!WaitTypes
  <2>3. ASSUME NEW d \in Waiters PROVE Waits!CallInv(d)'
    BY <1>0, <2>1, CallFrame
  <2> QED BY <2>2, <2>3 DEF Waits!WaitInv
<1> QED BY <1>1, <1>2, <1>3, <1>4, <1>5, <1>6, <1>7 DEF Waits!Next

LEMMA ReadyTells == Waits!WaitInv => Waits!WaitTellsTruth
BY DEF Waits!WaitInv, Waits!CallInv, Waits!CountsSamples, Waits!WaitTellsTruth

-----------------------------------------------------------------------------
\* Routing.
LEMMA RoutingInit == Routing!Init => Routing!RoutingInv
<1> SUFFICES ASSUME Routing!Init PROVE Routing!RoutingInv
  OBVIOUS
<1>1. events \in Seq(Routing!Events)
  BY EmptySeq DEF Routing!Init
<1> QED
  BY <1>1 DEF Routing!Init, Routing!RoutingInv, Routing!RoutingTypes, Routing!Agrees, Routing!NoEntries, Routing!NotSent

\* What the index and the sessions keep when no dashboard, window or index changes.
LEMMA OnlyTabs ==
    ASSUME Routing!RoutingInv, UNCHANGED <<cache, stored, answer, windowOf, dashboard, sent>>,
           Routing!RoutingTypes', \A t \in Tabs : home'[t] = home[t] \/ home[t] = None
    PROVE  Routing!RoutingInv'
<1>1. \A map : Routing!Agrees(map) => \A t \in Tabs : map[t] # None => map[t].window \in {None, home'[t]}
  BY DEF Routing!Agrees, Routing!RoutingInv
<1>2. Routing!Agrees(cache)' /\ (stored' # None => Routing!Agrees(stored)') /\ (answer' # None => Routing!Agrees(answer)')
  BY <1>1 DEF Routing!RoutingInv, Routing!Agrees
<1>3. \A s \in Sessions : windowOf'[s] # None =>
            \E d \in Tabs : dashboard'[d] = s /\ home'[d] = windowOf'[s]
  BY DEF Routing!RoutingInv
<1>4. sent'.known => sent'.tab \in Tabs /\ home'[sent'.tab] # None /\ home'[sent'.tab] \in sent'.among
  BY DEF Routing!RoutingInv
<1> QED BY <1>2, <1>3, <1>4 DEF Routing!RoutingInv

\* SetToSeq lists the members of a finite set.
LEMMA ListsMembers ==
    ASSUME NEW S, IsFiniteSet(S)
    PROVE  Routing!SetToSeq(S) \in [1..Cardinality(S) -> S] /\ Cardinality(S) \in Nat
<1>1. Cardinality(S) \in Nat /\ ExistsBijection(1..Cardinality(S), S)
  BY FS_CardinalityType
<1>2. PICK f : f \in Bijection(1..Cardinality(S), S)
  BY <1>1 DEF ExistsBijection
<1>3. f \in [1..Cardinality(S) -> S] /\ Routing!IsInjective(f)
  BY <1>2 DEF Bijection, Injection, Surjection, IsInjective, Routing!IsInjective
<1>4. Routing!Cardinality(S) = Cardinality(S)
  BY DEF Cardinality, Routing!Cardinality
<1> QED BY <1>1, <1>3, <1>4 DEF Routing!SetToSeq

\* What is left of the types when only events are added.
LEMMA HappensKeeps ==
    ASSUME Routing!RoutingInv, NEW kind \in {"created", "updated", "moved", "removed"}, NEW t \in Tabs, NEW url \in Routing!URLs,
           Routing!Happens(kind, t, url), shows' \in [Tabs -> Routing!URLs \cup {None}],
           home' \in [Tabs -> Windows \cup {None}], \A d \in Tabs : home'[d] = home[d] \/ home[d] = None
    PROVE  Routing!RoutingInv'
<1>1. Routing!Event(kind, t, url) \in Routing!Events
  BY DEF Routing!Event, Routing!Events, Routing!RoutingInv, Routing!RoutingTypes
<1>2. events' \in Seq(Routing!Events)
  BY <1>1, AppendProperties DEF Routing!Happens, Routing!RoutingInv, Routing!RoutingTypes
<1>3. UNCHANGED <<up, life, cache, stored, answer, load, windowOf, dashboard, sent>>
  BY DEF Routing!Happens, Routing!index, Routing!loading, Routing!sessions
<1>4. Routing!RoutingTypes'
  BY <1>2, <1>3 DEF Routing!RoutingInv, Routing!RoutingTypes
<1> QED BY <1>3, <1>4, OnlyTabs

LEMMA WakeKeeps == Routing!RoutingInv /\ Routing!RoutingAssumption /\ Routing!Wake => Routing!RoutingInv'
<1> SUFFICES ASSUME Routing!RoutingInv, Routing!RoutingAssumption, Routing!Wake PROVE Routing!RoutingInv'
  OBVIOUS
<1> DEFINE S == {t \in Tabs : Routing!Open(t)}
           tabsOpen == Routing!SetToSeq(S)
           answers == [i \in DOMAIN tabsOpen |-> [Routing!Event("found", tabsOpen[i], shows[tabsOpen[i]]) EXCEPT !.life = life + 1]]
           n == Cardinality(S)
<1>1. tabsOpen \in [1..n -> S] /\ n \in Nat
  <2>1. IsFiniteSet(S)
    <3>1. IsFiniteSet(Tabs)
      BY DEF Routing!RoutingAssumption, Routing!IsFiniteSet, IsFiniteSet
    <3> QED BY <3>1, FS_Subset
  <2> QED BY <2>1, ListsMembers
<1>2. life' = life + 1 /\ events' \in {events, events \o answers}
      /\ UNCHANGED <<shows, home, cache, stored, answer, windowOf, dashboard, sent>>
  BY DEF Routing!Wake, Routing!safari, Routing!index, Routing!sessions
<1>3. \A t \in S : [Routing!Event("found", t, shows[t]) EXCEPT !.life = life + 1] \in Routing!Events
  BY DEF Routing!Event, Routing!Events, Routing!Open, Routing!URLs, Routing!RoutingInv, Routing!RoutingTypes
<1> HIDE DEF S, n, tabsOpen
<1>4. answers \in [1..n -> Routing!Events]
  BY <1>1, <1>3
<1>5. answers \in Seq(Routing!Events)
  <2> HIDE DEF answers
  <2> QED BY <1>1, <1>4, SeqDef
<1>6. events' \in Seq(Routing!Events)
  <2> HIDE DEF answers
  <2>1. events \in Seq(Routing!Events)
    BY DEF Routing!RoutingInv, Routing!RoutingTypes
  <2>2. events \o answers \in Seq(Routing!Events)
    BY <1>5, <2>1, ConcatProperties
  <2> QED BY <1>2, <2>1, <2>2
<1>7. Routing!RoutingTypes'
  BY <1>2, <1>6 DEF Routing!RoutingInv, Routing!RoutingTypes
<1> QED BY <1>2, <1>7, OnlyTabs

LEMMA DiesKeeps == Routing!RoutingInv /\ Routing!RoutingAssumption /\ Routing!PageDies => Routing!RoutingInv'
BY DEF Routing!RoutingInv, Routing!RoutingTypes, Routing!RoutingAssumption, Routing!PageDies, Routing!NoEntries, Routing!Agrees, Routing!safari

LEMMA LoadsKeep == Routing!RoutingInv /\ (Routing!Alarm \/ Routing!StorageReads \/ Routing!LoadTabCache) => Routing!RoutingInv'
BY DEF Routing!RoutingInv, Routing!RoutingTypes, Routing!Alarm, Routing!StorageReads, Routing!LoadTabCache, Routing!Agrees, Routing!safari, Routing!sessions, Routing!index, Routing!loading

\* An entry of a tab for a session's dashboard replaces the one it had.
LEMMA RegisterKeeps ==
    ASSUME Routing!RoutingInv, Routing!RoutingAssumption, NEW t \in Tabs, NEW url \in Routing!URLs, Routing!RegisterDashboardTab(t, url),
           UNCHANGED home
    PROVE  /\ windowOf' \in [Sessions -> Windows \cup {None}] /\ dashboard' \in [Tabs -> Sessions \cup {None}]
           /\ \A s \in Sessions : windowOf'[s] # None =>
                  \E d \in Tabs : dashboard'[d] = s /\ home'[d] = windowOf'[s]
<1>1. CASE url \notin Sessions
  BY <1>1 DEF Routing!RegisterDashboardTab, Routing!sessions, Routing!RoutingInv, Routing!RoutingTypes
<1>2. CASE url \in Sessions
  <2>1. /\ windowOf' = [Routing!Stale(t, url) EXCEPT ![url] = home[t]]
        /\ dashboard' = [dashboard EXCEPT ![t] = url]
    BY <1>2 DEF Routing!RegisterDashboardTab
  <2>2. Routing!Stale(t, url) \in [Sessions -> Windows \cup {None}]
    BY DEF Routing!Stale, Routing!RoutingInv, Routing!RoutingTypes
  <2>3. dashboard' \in [Tabs -> Sessions \cup {None}] /\ dashboard'[t] = url
        /\ \A d \in Tabs \ {t} : dashboard'[d] = dashboard[d]
    BY <1>2, <2>1 DEF Routing!RoutingInv, Routing!RoutingTypes
  <2>4. windowOf' \in [Sessions -> Windows \cup {None}] /\ windowOf'[url] = home[t]
        /\ \A s \in Sessions \ {url} : windowOf'[s] = Routing!Stale(t, url)[s]
    BY <1>2, <2>1, <2>2 DEF Routing!RoutingInv, Routing!RoutingTypes
  <2>5. ASSUME NEW s \in Sessions \ {url}, Routing!Stale(t, url)[s] # None
        PROVE  \E d \in Tabs \ {t} : dashboard[d] = s /\ home[d] = Routing!Stale(t, url)[s]
    <3>1. Routing!Stale(t, url)[s] = windowOf[s]
      BY <2>5 DEF Routing!Stale, Routing!RoutingInv, Routing!RoutingTypes
    <3>2. PICK d \in Tabs : dashboard[d] = s /\ home[d] = windowOf[s]
      BY <2>5, <3>1 DEF Routing!RoutingInv
    <3>3. d # t
      <4>1. SUFFICES ASSUME d = t PROVE FALSE
        OBVIOUS
      <4>2. dashboard[t] \notin {None, url} /\ windowOf[dashboard[t]] = home[t]
        BY <3>2, <4>1 DEF Routing!RoutingAssumption
      <4>3. Routing!Stale(t, url)[s] = None
        BY <3>2, <4>1, <4>2 DEF Routing!Stale, Routing!RoutingInv, Routing!RoutingTypes
      <4> QED BY <2>5, <4>3
    <3> QED BY <3>1, <3>2, <3>3
  <2>6. ASSUME NEW s \in Sessions, windowOf'[s] # None
        PROVE  \E d \in Tabs : dashboard'[d] = s /\ home'[d] = windowOf'[s]
    <3>1. CASE s = url
      BY <2>3, <2>4, <3>1
    <3>2. CASE s # url
      BY <2>3, <2>4, <2>5, <2>6, <3>2
    <3> QED BY <3>1, <3>2
  <2> QED BY <2>3, <2>4, <2>6
<1> QED BY <1>1, <1>2

LEMMA SaveKeeps ==
    ASSUME Routing!RoutingInv, NEW t \in Tabs, NEW e, e = None \/ e.window \in {None, home[t]},
           Routing!Save([cache EXCEPT ![t] = e]), UNCHANGED <<home, answer>>
    PROVE  Routing!Agrees(cache)' /\ (stored' # None => Routing!Agrees(stored)') /\ (answer' # None => Routing!Agrees(answer)')
<1>1. Routing!Agrees([cache EXCEPT ![t] = e]) /\ Routing!Agrees(Routing!NoEntries)
  BY DEF Routing!RoutingInv, Routing!Agrees, Routing!NoEntries
<1>2. Routing!Agrees(cache') /\ (stored' # None => Routing!Agrees(stored'))
  BY <1>1 DEF Routing!Save
<1> QED BY <1>2 DEF Routing!RoutingInv, Routing!Agrees

LEMMA DeliverKeeps == Routing!RoutingInv /\ Routing!RoutingAssumption /\ Routing!Deliver => Routing!RoutingInv'
<1> SUFFICES ASSUME Routing!RoutingInv, Routing!RoutingAssumption, Routing!Deliver PROVE Routing!RoutingInv'
  OBVIOUS
<1> DEFINE e == Head(events)
<1>1. events \in Seq(Routing!Events) /\ events # <<>> /\ events' = Tail(events)
      /\ UNCHANGED <<shows, home, life, answer, sent>>
  BY DEF Routing!RoutingInv, Routing!RoutingTypes, Routing!Deliver, Routing!safari, Routing!loading
<1>2. e \in Routing!Events /\ events' \in Seq(Routing!Events)
  BY <1>1, HeadTailProperties
<1>3. e.tab \in Tabs /\ e.url \in Routing!URLs
  BY <1>2 DEF Routing!Events
<1>4. (\/ Routing!OnCreatedOrUpdated(e) \/ Routing!OnMoved(e) \/ Routing!OnRemoved(e) \/ Routing!OnFound(e))
  BY DEF Routing!Deliver
<1> HIDE DEF e
<1>5. Routing!Agrees(cache)' /\ (stored' # None => Routing!Agrees(stored)') /\ (answer' # None => Routing!Agrees(answer)')
  <2>1. CASE Routing!OnCreatedOrUpdated(e)
    BY <1>1, <1>3, <2>1, SaveKeeps DEF Routing!OnCreatedOrUpdated, Routing!Entry
  <2>2. CASE Routing!OnMoved(e)
    BY <1>1, <1>3, <2>2, SaveKeeps DEF Routing!OnMoved
  <2>3. CASE Routing!OnRemoved(e)
    BY <1>1, <1>3, <2>3, SaveKeeps DEF Routing!OnRemoved
  <2>4. CASE Routing!OnFound(e)
    BY <1>1, <2>4 DEF Routing!OnFound, Routing!index, Routing!RoutingInv, Routing!Agrees
  <2> QED BY <1>4, <2>1, <2>2, <2>3, <2>4
<1> DEFINE Windowed == /\ windowOf' \in [Sessions -> Windows \cup {None}] /\ dashboard' \in [Tabs -> Sessions \cup {None}]
                       /\ \A s \in Sessions : windowOf'[s] # None =>
                              \E d \in Tabs : dashboard'[d] = s /\ home'[d] = windowOf'[s]
<1>6. Windowed
  <2>1. CASE Routing!RegisterDashboardTab(e.tab, e.url)
    BY <1>1, <1>3, <2>1, RegisterKeeps
  <2>2. CASE UNCHANGED Routing!sessions
    BY <1>1, <2>2 DEF Routing!sessions, Routing!RoutingInv, Routing!RoutingTypes
  <2>3. CASE Routing!OnRemoved(e)
    <3>1. /\ dashboard' = [dashboard EXCEPT ![e.tab] = None]
          /\ windowOf' = [s \in Sessions |-> IF dashboard[e.tab] = s THEN None ELSE windowOf[s]]
      BY <2>3 DEF Routing!OnRemoved
    <3>2. windowOf' \in [Sessions -> Windows \cup {None}] /\ dashboard' \in [Tabs -> Sessions \cup {None}]
      BY <1>3, <3>1 DEF Routing!RoutingInv, Routing!RoutingTypes
    <3>3. ASSUME NEW s \in Sessions, windowOf'[s] # None
          PROVE  \E d \in Tabs : dashboard'[d] = s /\ home'[d] = windowOf'[s]
      <4>1. dashboard[e.tab] # s /\ windowOf'[s] = windowOf[s]
        BY <3>1, <3>3
      <4>2. PICK d \in Tabs : dashboard[d] = s /\ home[d] = windowOf[s]
        BY <3>3, <4>1 DEF Routing!RoutingInv
      <4>3. dashboard'[d] = s
        BY <1>3, <3>1, <4>1, <4>2 DEF Routing!RoutingInv, Routing!RoutingTypes
      <4> QED BY <1>1, <4>1, <4>2, <4>3
    <3> QED BY <3>2, <3>3
  <2> QED BY <1>4, <2>1, <2>2, <2>3 DEF Routing!OnCreatedOrUpdated, Routing!OnMoved, Routing!OnFound
<1>7. Routing!RoutingTypes'
  BY <1>1, <1>2, <1>6 DEF Routing!RoutingInv, Routing!RoutingTypes
<1>8. sent'.known => sent'.tab \in Tabs /\ home'[sent'.tab] # None /\ home'[sent'.tab] \in sent'.among
  BY <1>1 DEF Routing!RoutingInv
<1> QED BY <1>5, <1>6, <1>7, <1>8 DEF Routing!RoutingInv

\* A known session's command goes to its window, where a dashboard is.
LEMMA DispatchKeeps ==
    ASSUME Routing!RoutingInv, Routing!RoutingAssumption, NEW s \in Sessions \cup {None}, NEW url \in Pages, Routing!Dispatch(s, url)
    PROVE  Routing!RoutingInv'
<1>1. UNCHANGED <<shows, home, events, life, cache, stored, answer, windowOf, dashboard>>
  BY DEF Routing!Dispatch, Routing!safari, Routing!index, Routing!loading, Routing!sessions
<1>2. PICK alarm \in BOOLEAN :
        LET live == IF alarm THEN {} ELSE Routing!Live(s, url) IN
        \E t \in IF live # {} THEN live ELSE Routing!Cached(s, url) :
            sent' = [tab |-> t, session |-> s, known |-> s # None /\ windowOf[s] # None,
                     among |-> {home[d] : d \in {d \in Tabs : dashboard[d] = s}}]
  BY DEF Routing!Dispatch
<1>3. PICK t \in Routing!Live(s, url) \cup Routing!Cached(s, url) :
        sent' = [tab |-> t, session |-> s, known |-> s # None /\ windowOf[s] # None,
                 among |-> {home[d] : d \in {d \in Tabs : dashboard[d] = s}}]
  BY <1>2
<1>4. t \in Tabs
  BY <1>3 DEF Routing!Live, Routing!Cached
<1>5. ASSUME s # None, windowOf[s] # None
      PROVE  home[t] = windowOf[s] /\ windowOf[s] \in {home[d] : d \in {d \in Tabs : dashboard[d] = s}}
  <2>1. PICK d \in Tabs : dashboard[d] = s /\ home[d] = windowOf[s]
    BY <1>5 DEF Routing!RoutingInv
  <2>2. home[t] = windowOf[s]
    BY <1>3, <1>4, <1>5 DEF Routing!Live, Routing!Cached, Routing!InSession, Routing!RoutingInv, Routing!Agrees
  <2> QED BY <2>1, <2>2
<1>6. sent'.known => sent'.tab \in Tabs /\ home'[sent'.tab] # None /\ home'[sent'.tab] \in sent'.among
  BY <1>1, <1>3, <1>4, <1>5
<1> QED BY <1>1, <1>6 DEF Routing!RoutingInv, Routing!RoutingTypes, Routing!Agrees

LEMMA RoutingStep == Routing!RoutingInv /\ Routing!RoutingAssumption /\ [Routing!Next]_(Routing!vars) => Routing!RoutingInv'
<1> SUFFICES ASSUME Routing!RoutingInv, Routing!RoutingAssumption, [Routing!Next]_(Routing!vars) PROVE Routing!RoutingInv'
  OBVIOUS
<1>1. ASSUME NEW t \in Tabs, Routing!TabOpens(t) PROVE Routing!RoutingInv'
  <2>1. PICK url \in Pages \cup Sessions, w \in Windows :
            shows' = [shows EXCEPT ![t] = url] /\ home' = [home EXCEPT ![t] = w] /\ Routing!Happens("created", t, url)
    BY <1>1 DEF Routing!TabOpens
  <2>2. home[t] = None /\ url \in Routing!URLs
    BY <1>1, <2>1 DEF Routing!TabOpens, Routing!URLs
  <2>3. /\ shows' \in [Tabs -> Routing!URLs \cup {None}] /\ home' \in [Tabs -> Windows \cup {None}]
        /\ \A d \in Tabs : home'[d] = home[d] \/ home[d] = None
    BY <2>1, <2>2 DEF Routing!RoutingInv, Routing!RoutingTypes
  <2> QED BY <2>1, <2>2, <2>3, HappensKeeps
<1>2. ASSUME NEW t \in Tabs, Routing!TabNavigates(t) \/ Routing!PageMoves(t) PROVE Routing!RoutingInv'
  <2>1. PICK url \in Routing!URLs, kind \in {"updated", "moved"} :
            shows' = [shows EXCEPT ![t] = url] /\ Routing!Happens(kind, t, url)
    BY <1>2 DEF Routing!TabNavigates, Routing!PageMoves, Routing!URLs
  <2>2. UNCHANGED home
    BY <1>2 DEF Routing!TabNavigates, Routing!PageMoves
  <2>3. /\ shows' \in [Tabs -> Routing!URLs \cup {None}] /\ home' \in [Tabs -> Windows \cup {None}]
    BY <2>1, <2>2 DEF Routing!RoutingInv, Routing!RoutingTypes
  <2> QED BY <2>1, <2>2, <2>3, HappensKeeps
<1>3. ASSUME NEW t \in Tabs, Routing!TabCloses(t) PROVE Routing!RoutingInv'
  <2>1. shows[t] \in Routing!URLs /\ shows' = [shows EXCEPT ![t] = None] /\ UNCHANGED home
        /\ Routing!Happens("removed", t, shows[t])
    BY <1>3 DEF Routing!TabCloses, Routing!Open, Routing!RoutingInv, Routing!RoutingTypes
  <2>2. /\ shows' \in [Tabs -> Routing!URLs \cup {None}] /\ home' \in [Tabs -> Windows \cup {None}]
    BY <2>1 DEF Routing!RoutingInv, Routing!RoutingTypes
  <2> QED BY <2>1, <2>2, HappensKeeps
<1>4. CASE UNCHANGED Routing!vars
  BY <1>4, OnlyTabs DEF Routing!vars, Routing!safari, Routing!index, Routing!loading, Routing!sessions, Routing!RoutingInv, Routing!RoutingTypes
<1> QED
  BY <1>1, <1>2, <1>3, <1>4, WakeKeeps, DiesKeeps, LoadsKeep, DeliverKeeps, DispatchKeeps DEF Routing!Next

-----------------------------------------------------------------------------
\* Forms.
LEMMA FormInit == Forms!Init => Forms!FormInv
<1> SUFFICES ASSUME Forms!Init PROVE Forms!FormInv
  OBVIOUS
<1>1. PICK v \in Forms!ValuesOf(tag) : control = Forms!Showing(v)
  BY DEF Forms!Init
<1> QED BY <1>1 DEF Forms!Init, Forms!FormInv, Forms!FormTypes, Forms!Showing

\* What an event leaves of a control.
LEMMA EventTells ==
    ASSUME NEW f, f = [value |-> f.value, tracker |-> f.tracker, state |-> f.state]
    PROVE  /\ Forms!Event(f) = [value |-> Forms!Event(f).value, tracker |-> Forms!Event(f).tracker, state |-> Forms!Event(f).state]
           /\ Forms!Event(f).value = f.value
           /\ ~Forms!Tracked \/ f.value # f.tracker => Forms!Event(f).state = f.value
BY DEF Forms!Event, Forms!Showing

\* What an assignment leaves of it.
LEMMA AssignKeeps ==
    ASSUME NEW f, f = [value |-> f.value, tracker |-> f.tracker, state |-> f.state], NEW v
    PROVE  /\ Forms!Assign(f, v) = [value |-> v, tracker |-> v, state |-> f.state]
           /\ Forms!SetNative(f, v) = [value |-> v, tracker |-> f.tracker, state |-> f.state]
<1>1. Forms!SetNative(f, v) = [value |-> v, tracker |-> f.tracker, state |-> f.state]
  BY DEF Forms!SetNative
<1>2. [Forms!SetNative(f, v) EXCEPT !.tracker = v] = [value |-> v, tracker |-> v, state |-> f.state]
  BY <1>1
<1>3. Forms!Assign(f, v) = [Forms!SetNative(f, v) EXCEPT !.tracker = v]
  BY DEF Forms!Assign, Forms!SetNative
<1> QED BY <1>1, <1>2, <1>3

\* A control that is a component's and may be given back to the tools.
InStep(f) ==
    /\ f = [value |-> f.value, tracker |-> f.tracker, state |-> f.state]
    /\ ~pending /\ ~Forms!Tracked => f.state = f.value

LEMMA FieldInStep == Forms!FormInv => InStep(control)
BY DEF Forms!FormInv, Forms!FormTypes, InStep

LEMMA EventInStep ==
    ASSUME NEW f, f = [value |-> f.value, tracker |-> f.tracker, state |-> f.state]
    PROVE  InStep(Forms!Event(f))
BY EventTells DEF InStep

LEMMA ClickedInStep ==
    ASSUME NEW f, InStep(f)
    PROVE  InStep(Forms!Clicked(f))
<1>1. CASE tag = "checkbox"
  <2> DEFINE v == IF f.value = Forms!Off THEN Forms!On ELSE Forms!Off
  <2>1. Forms!SetNative(f, v) = [value |-> v, tracker |-> f.tracker, state |-> f.state]
    BY AssignKeeps DEF InStep
  <2>2. InStep(Forms!Event(Forms!SetNative(f, v)))
    BY <2>1, EventInStep
  <2> QED BY <1>1, <2>2 DEF Forms!Clicked
<1>2. CASE tag # "checkbox"
  BY <1>2 DEF Forms!Clicked
<1> QED BY <1>1, <1>2

\* A tool that leaves such a control, and makes no promise or one that holds.
LEMMA NoPromiseKeeps ==
    ASSUME Forms!FormInv, NEW f, InStep(f), UNCHANGED <<tag, framework, pending>>, control' = f, promised' = None
    PROVE  Forms!FormInv'
BY DEF Forms!FormInv, Forms!FormTypes, InStep, Forms!Tracked

LEMMA AnswerKeeps ==
    ASSUME Forms!FormInv, NEW f, InStep(f), UNCHANGED <<tag, framework>>, NEW cmd, Forms!Answers(cmd, f),
           ~pending /\ Forms!Kept(cmd) => f.state = f.value
    PROVE  Forms!FormInv'
<1>1. CASE pending
  BY <1>1, NoPromiseKeeps DEF Forms!Answers
<1>2. CASE ~pending
  <2>1. control' = f /\ UNCHANGED pending /\ promised' = [cmd |-> cmd, value |-> f.value]
    BY <1>2 DEF Forms!Answers
  <2>2. Forms!FormTypes' /\ (~pending' /\ ~Forms!Tracked' => control'.state = control'.value)
    BY <2>1 DEF Forms!FormInv, Forms!FormTypes, InStep, Forms!Tracked
  <2>3. Forms!Kept(promised.cmd)' => Forms!Kept(cmd)
    BY <2>1 DEF Forms!Kept, Forms!Tracked
  <2>4. Forms!Kept(promised.cmd)' => control'.value = promised'.value /\ control'.state = promised'.value
    BY <1>2, <2>1, <2>3
  <2> QED BY <1>2, <2>1, <2>2, <2>4 DEF Forms!FormInv
<1> QED BY <1>1, <1>2

LEMMA FillKeeps ==
    ASSUME Forms!FormInv, NEW v \in Texts, NEW hint \in Forms!Frameworks \cup {"auto"}, NEW clear \in BOOLEAN,
           NEW enter \in BOOLEAN, Forms!Fill(v, hint, clear, enter)
    PROVE  Forms!FormInv'
<1> DEFINE fw == IF hint = "auto" THEN framework ELSE hint
           cleared == Forms!Cleared(control, clear)
           set == IF fw = "react" THEN Forms!SetNative(cleared, v) ELSE Forms!Assign(cleared, v)
           after == Forms!Filled(cleared, v, fw)
           cmd == [kind |-> "fill", text |-> v, hint |-> hint, seen |-> cleared.tracker]
<1>1. InStep(cleared)
  <2>1. CASE clear
    <3>1. Forms!Assign(control, <<>>) = [value |-> <<>>, tracker |-> <<>>, state |-> control.state]
      BY AssignKeeps DEF Forms!FormInv, Forms!FormTypes
    <3>2. InStep(Forms!Event(Forms!Assign(control, <<>>)))
      BY <3>1, EventInStep
    <3> QED BY <2>1, <3>2 DEF Forms!Cleared
  <2>2. CASE ~clear
    BY <2>2, FieldInStep DEF Forms!Cleared
  <2> QED BY <2>1, <2>2
<1>2. UNCHANGED <<tag, framework>> /\ tag \in {"input", "textarea"}
      /\ \/ Forms!Only(cleared)
         \/ Forms!Answers(cmd, after)
         \/ control' = [after EXCEPT !.state = <<>>] /\ promised' = None /\ pending' = TRUE
  BY DEF Forms!Fill, Forms!Command
<1> HIDE DEF cleared
<1>3. /\ set.value = v /\ set = [value |-> set.value, tracker |-> set.tracker, state |-> set.state]
      /\ fw = "react" => set.tracker = cleared.tracker
  BY <1>1, AssignKeeps DEF InStep
<1>4. after = Forms!Event(set)
  BY DEF Forms!Filled
<1> HIDE DEF set, after
<1>5. InStep(after) /\ after.value = v
  BY <1>3, <1>4, EventInStep, EventTells
<1>6. CASE Forms!Only(cleared)
  BY <1>1, <1>2, <1>6, NoPromiseKeeps DEF Forms!Only
<1>7. CASE Forms!Answers(cmd, after)
  <2>1. ASSUME Forms!Kept(cmd) PROVE after.state = after.value
    <3>1. hint \in {"auto", framework} /\ (Forms!Tracked => v # cleared.tracker)
      BY <2>1 DEF Forms!Kept
    <3>2. fw = framework
      BY <3>1
    <3>3. ~Forms!Tracked \/ set.value # set.tracker
      BY <1>3, <3>1, <3>2 DEF Forms!Tracked
    <3> QED BY <1>3, <1>4, <3>3, EventTells
  <2> QED BY <1>2, <1>5, <1>7, <2>1, AnswerKeeps
<1>8. CASE control' = [after EXCEPT !.state = <<>>] /\ promised' = None /\ pending' = TRUE
  BY <1>2, <1>5, <1>8 DEF Forms!FormInv, Forms!FormTypes, InStep
<1> QED BY <1>2, <1>6, <1>7, <1>8

LEMMA TypeKeeps == ASSUME Forms!FormInv, NEW text \in Texts, Forms!Type(text) PROVE Forms!FormInv'
<1> DEFINE f == Forms!Typed(control, text)
<1>1. UNCHANGED <<tag, framework>> /\ Forms!Answers([kind |-> "type"], f)
  BY DEF Forms!Type, Forms!Command
<1>2. InStep(f)
  <2>1. CASE text = <<>>
    BY <2>1, FieldInStep DEF Forms!Typed
  <2>2. CASE text # <<>>
    <3>1. Forms!Assign(control, control.value \o text)
            = [value |-> control.value \o text, tracker |-> control.value \o text, state |-> control.state]
      BY AssignKeeps DEF Forms!FormInv, Forms!FormTypes
    <3>2. InStep(Forms!Event(Forms!Assign(control, control.value \o text)))
      BY <3>1, EventInStep
    <3> QED BY <2>2, <3>2 DEF Forms!Typed
  <2> QED BY <2>1, <2>2
<1>3. ~pending /\ Forms!Kept([kind |-> "type"]) => f.state = f.value
  BY <1>2 DEF InStep, Forms!Kept
<1> HIDE DEF f
<1> QED BY <1>1, <1>2, <1>3, AnswerKeeps

LEMMA SelectKeeps == ASSUME Forms!FormInv, NEW v, Forms!SelectOption(v) PROVE Forms!FormInv'
<1> DEFINE f == Forms!Event(Forms!Assign(control, v))
<1>1. UNCHANGED <<tag, framework>> /\ (Forms!Only(control) \/ (tag = "select" /\ Forms!Answers([kind |-> "select"], f)))
  BY DEF Forms!SelectOption, Forms!Command
<1>2. InStep(f)
  <2>1. Forms!Assign(control, v) = [value |-> v, tracker |-> v, state |-> control.state]
    BY AssignKeeps DEF Forms!FormInv, Forms!FormTypes
  <2> QED BY <2>1, EventInStep
<1>3. tag = "select" /\ ~pending => f.state = f.value
  BY <1>2 DEF InStep, Forms!Tracked
<1> HIDE DEF f
<1>4. CASE Forms!Only(control)
  BY <1>1, <1>4, FieldInStep, NoPromiseKeeps DEF Forms!Only
<1>5. CASE tag = "select" /\ Forms!Answers([kind |-> "select"], f)
  BY <1>1, <1>2, <1>3, <1>5, AnswerKeeps
<1> QED BY <1>1, <1>4, <1>5

LEMMA CheckKeeps == ASSUME Forms!FormInv, NEW wish, Forms!Check(wish) PROVE Forms!FormInv'
<1> DEFINE f == IF control.value # wish THEN Forms!Clicked(control) ELSE control
<1>1. UNCHANGED <<tag, framework>> /\ tag = "checkbox" /\ Forms!Answers([kind |-> "check"], f)
  BY DEF Forms!Check, Forms!Command
<1>2. InStep(f)
  BY FieldInStep, ClickedInStep
<1>3. ~pending => f.state = f.value
  BY <1>1, <1>2 DEF InStep, Forms!Tracked
<1> HIDE DEF f
<1> QED BY <1>1, <1>2, <1>3, AnswerKeeps

LEMMA FormStep == Forms!FormInv /\ [Forms!Next]_(Forms!vars) => Forms!FormInv'
<1> SUFFICES ASSUME Forms!FormInv, [Forms!Next]_(Forms!vars) PROVE Forms!FormInv'
  OBVIOUS
<1>1. ASSUME NEW f, InStep(f), Forms!Command, Forms!Only(f) PROVE Forms!FormInv'
  BY <1>1, NoPromiseKeeps DEF Forms!Only, Forms!Command
<1>2. ASSUME Forms!NewDocument, UNCHANGED <<tag, framework>> PROVE Forms!FormInv'
  <2>1. PICK v \in Forms!ValuesOf(tag) : control' = Forms!Showing(v)
    BY <1>2 DEF Forms!NewDocument
  <2> QED BY <1>2, <2>1 DEF Forms!NewDocument, Forms!FormInv, Forms!FormTypes, Forms!Showing
<1>3. ASSUME NEW button, Forms!Click(button) PROVE Forms!FormInv'
  BY <1>1, <1>2, <1>3, FieldInStep, ClickedInStep DEF Forms!Click, Forms!Command
<1>4. CASE Forms!DoubleClick
  BY <1>1, <1>4, FieldInStep, ClickedInStep DEF Forms!DoubleClick
<1>5. CASE Forms!Hover \/ Forms!PressKey \/ Forms!Drag \/ Forms!Scroll \/ UNCHANGED Forms!vars
  <2>1. UNCHANGED <<tag, framework, control, promised, pending>>
    BY <1>5 DEF Forms!Hover, Forms!PressKey, Forms!Drag, Forms!Scroll, Forms!Gesture, Forms!Command, Forms!vars
  <2> QED BY <2>1 DEF Forms!FormInv, Forms!FormTypes, Forms!Tracked, Forms!Kept
<1>6. CASE Forms!Render
  BY <1>6 DEF Forms!Render, Forms!FormInv, Forms!FormTypes, Forms!Showing, Forms!Tracked, Forms!Kept
<1>7. CASE Forms!Change
  BY <1>7 DEF Forms!Change, Forms!FormInv, Forms!FormTypes
<1>8. CASE Forms!Reload
  BY <1>2, <1>8 DEF Forms!Reload
<1> QED
  BY <1>3, <1>4, <1>5, <1>6, <1>7, <1>8, FillKeeps, TypeKeeps, SelectKeeps, CheckKeeps DEF Forms!Next

-----------------------------------------------------------------------------
\* Locators.
\* Those of a list that are in a set are a list of them, with each of them.
LEMMA ThoseAre ==
    ASSUME NEW R, NEW s \in Seq(R), NEW S
    PROVE  /\ Finder!Those(s, S) \in Seq(R \cap S)
           /\ \A i \in 1..Len(s) : s[i] \in S => \E j \in 1..Len(Finder!Those(s, S)) : Finder!Those(s, S)[j] = s[i]
<1> DEFINE V == Seq(R \cap S)
           n == Len(s)
           none == <<>>
           Eq(f) == f = [i \in 0..n |->
                           IF i = 0 THEN none ELSE IF s[i] \in S THEN Append(f[i - 1], s[i]) ELSE f[i - 1]]
           upTo == CHOOSE f : Eq(f)
           g == [i \in 1..n |-> [v \in V |-> IF s[i] \in S THEN Append(v, s[i]) ELSE v]]
<1>1. n \in Nat /\ DOMAIN s = 1..n /\ \A i \in 1..n : s[i] \in R
  BY LenProperties, ElementOfSeq
<1>2. none \in V
  BY EmptySeq
<1>3. g \in [1..n -> [V -> V]]
  <2> SUFFICES ASSUME NEW i \in 1..n, NEW v \in V PROVE (IF s[i] \in S THEN Append(v, s[i]) ELSE v) \in V
    OBVIOUS
  <2> QED BY <1>1, AppendProperties
<1>4. Finder!Those(s, S) = upTo[n]
  BY DEF Finder!Those
<1> HIDE DEF V, n
<1>5. \E f : Eq(f)
  <2>1. PICK f : Iterates(f, V, n, none, g)
    <3> HIDE DEF g, none, Eq, upTo
    <3>1. n \in Nat
      BY <1>1
    <3> QED BY <3>1, <1>2, <1>3, Recursion, Zenon
  <2>0. f \in [0..n -> V] /\ f[0] = none /\ \A i \in 1..n : f[i] = g[i][f[i - 1]]
    <3> HIDE DEF g, none, Eq, upTo
    <3> QED BY <2>1 DEF Iterates
  <2>2. \A i \in 1..n : f[i] = IF s[i] \in S THEN Append(f[i - 1], s[i]) ELSE f[i - 1]
    <3> SUFFICES ASSUME NEW i \in 1..n PROVE f[i] = IF s[i] \in S THEN Append(f[i - 1], s[i]) ELSE f[i - 1]
      OBVIOUS
    <3>1. f[i - 1] \in V
      BY <1>1, <2>0
    <3> QED BY <2>0, <3>1
  <2>3. Eq(f)
    <3> HIDE DEF none, g, upTo
    <3>1. \A i \in 0..n : f[i] = IF i = 0 THEN none ELSE IF s[i] \in S THEN Append(f[i - 1], s[i]) ELSE f[i - 1]
      <4> SUFFICES ASSUME NEW i \in 0..n, i # 0 PROVE i \in 1..n
        BY <2>0, <2>2
      <4> QED BY <1>1
    <3> QED BY <2>0, <3>1
  <2> QED BY <2>3
<1>6. Eq(upTo)
  <2> HIDE DEF Eq
  <2> QED BY <1>5
<1> HIDE DEF upTo
<1>7. upTo[0] = none /\ \A i \in 1..n : upTo[i] = IF s[i] \in S THEN Append(upTo[i - 1], s[i]) ELSE upTo[i - 1]
  <2> HIDE DEF g, none
  <2>1. \A i \in 0..n : upTo[i] = IF i = 0 THEN none ELSE IF s[i] \in S THEN Append(upTo[i - 1], s[i]) ELSE upTo[i - 1]
    BY <1>6, Zenon
  <2>2. 0 \in 0..n /\ \A i \in 1..n : i \in 0..n /\ i # 0
    BY <1>1
  <2> QED BY <2>1, <2>2
<1> HIDE DEF Eq
<1>8. \A i \in 0..n : upTo[i] \in V
  <2>1. \A i \in 1..n : upTo[i - 1] \in V => upTo[i] = g[i][upTo[i - 1]]
    BY <1>7
  <2> HIDE DEF g, none
  <2>2. n \in Nat /\ upTo[0] = none
    BY <1>1, <1>7
  <2> QED BY <1>2, <1>3, <2>1, <2>2, Recursed, Zenon
<1> HIDE DEF g
<1>9. \A k \in 0..n : \A i \in 1..k : s[i] \in S => \E j \in 1..Len(upTo[k]) : upTo[k][j] = s[i]
  <2> DEFINE Bad == {k \in 0..n : ~ \A i \in 1..k : s[i] \in S => \E j \in 1..Len(upTo[k]) : upTo[k][j] = s[i]}
  <2> SUFFICES ASSUME Bad # {} PROVE FALSE
    OBVIOUS
  <2>1. PICK k \in Bad : \A l \in Bad : k <= l
    <3>1. Bad \in SUBSET Nat
      OBVIOUS
    <3> HIDE DEF Bad
    <3> QED BY <3>1, LeastIndex
  <2>2. k \in 1..n
    BY <1>1, <2>1
  <2>3. k - 1 \notin Bad /\ k - 1 \in 0..n
    <3> HIDE DEF Bad
    <3> QED BY <1>1, <2>1, <2>2
  <2>4. \A i \in 1..(k - 1) : s[i] \in S => \E j \in 1..Len(upTo[k - 1]) : upTo[k - 1][j] = s[i]
    BY <2>3
  <2>5. upTo[k - 1] \in V
    BY <1>8, <2>3
  <2>6. CASE s[k] \in S
    <3>1. upTo[k] = Append(upTo[k - 1], s[k]) /\ s[k] \in R \cap S
      BY <1>1, <1>7, <2>2, <2>6
    <3>2. /\ Len(upTo[k]) = Len(upTo[k - 1]) + 1 /\ Len(upTo[k - 1]) \in Nat
          /\ \A j \in 1..Len(upTo[k - 1]) : upTo[k][j] = upTo[k - 1][j]
          /\ upTo[k][Len(upTo[k - 1]) + 1] = s[k]
      BY <2>5, <3>1, AppendProperties, LenProperties DEF V
    <3>3. ASSUME NEW i \in 1..k, s[i] \in S PROVE \E j \in 1..Len(upTo[k]) : upTo[k][j] = s[i]
      <4>1. CASE i = k
        <5>1. Len(upTo[k - 1]) + 1 \in 1..Len(upTo[k])
          BY <3>2
        <5> QED BY <3>2, <4>1, <5>1
      <4>2. CASE i \in 1..(k - 1)
        BY <2>4, <3>2, <3>3, <4>2, SMTT(40)
      <4> QED BY <2>2, <4>1, <4>2
    <3> QED BY <2>1, <3>3
  <2>7. CASE s[k] \notin S
    <3>1. upTo[k] = upTo[k - 1]
      BY <1>7, <2>2, <2>7
    <3>2. \A i \in 1..k : s[i] \in S => i \in 1..(k - 1)
      BY <2>2, <2>7
    <3> QED BY <2>1, <2>4, <3>1, <3>2
  <2> QED BY <2>6, <2>7
<1> QED BY <1>1, <1>4, <1>8, <1>9 DEF V, n

\* Lists of elements, one after the other.
LEMMA Flattened ==
    ASSUME NEW R, NEW ss \in Seq(Seq(R))
    PROVE  Finder!FlattenSeq(ss) \in Seq(R)
<1> DEFINE V == Seq(R)
           L == Len(ss)
           Eq(f) == f = [i \in 1..L |-> IF i = 1 THEN ss[i] ELSE f[i - 1] \o ss[i]]
           flatten == CHOOSE f : Eq(f)
           base == ss[1]
           n == L - 1
           g == [i \in 1..n |-> [v \in V |-> v \o ss[i + 1]]]
<1>1. L \in Nat /\ DOMAIN ss = 1..L /\ \A i \in 1..L : ss[i] \in V
  BY LenProperties, ElementOfSeq
<1>2. CASE L = 0
  <2>1. ss = <<>>
    BY <1>2, EmptySeq
  <2> QED BY <2>1, <1>2, EmptySeq DEF Finder!FlattenSeq
<1>3. CASE L # 0
  <2>1. n \in Nat /\ base \in V
    BY <1>1, <1>3
  <2>2. g \in [1..n -> [V -> V]]
    <3> SUFFICES ASSUME NEW i \in 1..n, NEW v \in V PROVE v \o ss[i + 1] \in V
      OBVIOUS
    <3>1. ss[i + 1] \in V
      BY <1>1
    <3> QED BY <3>1, ConcatProperties
  <2>3. Finder!FlattenSeq(ss) = flatten[L]
    BY <1>3 DEF Finder!FlattenSeq
  <2> HIDE DEF V, flatten, base
  <2>4. \E f : Eq(f)
    <3>1. PICK f : Iterates(f, V, n, base, g)
      <4> HIDE DEF g, n, Eq
      <4> QED BY <2>1, <2>2, Recursion, Zenon
    <3>2. f \in [0..n -> V] /\ f[0] = base /\ \A i \in 1..n : f[i] = g[i][f[i - 1]]
      <4> HIDE DEF g, n, Eq
      <4> QED BY <3>1 DEF Iterates
    <3> DEFINE h == [i \in 1..L |-> f[i - 1]]
    <3>3. \A i \in 1..L : h[i] = IF i = 1 THEN ss[i] ELSE h[i - 1] \o ss[i]
      <4> SUFFICES ASSUME NEW i \in 1..L PROVE h[i] = IF i = 1 THEN ss[i] ELSE h[i - 1] \o ss[i]
        OBVIOUS
      <4>1. CASE i = 1
        BY <1>1, <3>2, <4>1 DEF base
      <4>2. CASE i # 1
        <5> DEFINE k == i - 1
        <5>1. k \in 1..n /\ k + 1 = i /\ k - 1 \in 0..n /\ i - 1 \in 1..L
          BY <1>1, <4>2
        <5>2. f[k] = g[k][f[k - 1]] /\ f[k - 1] \in V
          BY <3>2, <5>1
        <5>3. g[k][f[k - 1]] = f[k - 1] \o ss[k + 1]
          BY <5>1, <5>2
        <5>4. h[i] = f[k] /\ h[i - 1] = f[k - 1]
          BY <5>1
        <5> QED BY <4>2, <5>1, <5>2, <5>3, <5>4
      <4> QED BY <4>1, <4>2
    <3>4. Eq(h)
      <4> HIDE DEF g
      <4> QED BY <3>3
    <3> QED BY <3>4
  <2>5. Eq(flatten)
    <3> HIDE DEF Eq
    <3> QED BY <2>4 DEF flatten
  <2>6. \A i \in 1..L : flatten[i] = IF i = 1 THEN ss[i] ELSE flatten[i - 1] \o ss[i]
    <3> HIDE DEF g
    <3> QED BY <2>5, Zenon
  <2> DEFINE F == [i \in 0..n |-> flatten[i + 1]]
  <2>7. F[0] = base /\ \A i \in 1..n : F[i - 1] \in V => F[i] = g[i][F[i - 1]]
    <3>1. F[0] = base
      BY <1>1, <2>1, <2>6 DEF base
    <3>2. ASSUME NEW i \in 1..n, F[i - 1] \in V PROVE F[i] = g[i][F[i - 1]]
      <4>1. i + 1 \in 1..L /\ i + 1 # 1 /\ (i + 1) - 1 = i /\ i \in 0..n /\ i - 1 \in 0..n /\ (i - 1) + 1 = i
        BY <1>1, <2>1
      <4>2. F[i] = flatten[i + 1] /\ F[i - 1] = flatten[i]
        BY <4>1
      <4>3. flatten[i + 1] = flatten[i] \o ss[i + 1]
        BY <2>6, <4>1
      <4> QED BY <3>2, <4>2, <4>3
    <3> QED BY <3>1, <3>2
  <2>8. \A i \in 0..n : F[i] \in V
    <3> HIDE DEF F, g, n, Eq
    <3> QED BY <2>1, <2>2, <2>7, Recursed, Zenon
  <2>9. F[n] = flatten[L] /\ n \in 0..n
    BY <1>1, <2>1
  <2> HIDE DEF F
  <2> QED BY <2>3, <2>8, <2>9 DEF V
<1> QED BY <1>2, <1>3

LEMMA ListedAre ==
    ASSUME Finder!LocatorsAssumption, NEW S
    PROVE  /\ Finder!Listed(S) \in Seq(Finder!Nodes)
           /\ \A i \in 1..Len(Finder!Listed(S)) : Finder!Listed(S)[i] \in S \cap Finder!Flat
<1>1. Document \in Seq(Finder!Nodes)
  BY DEF Finder!LocatorsAssumption
<1>2. Finder!Listed(S) \in Seq(Finder!Nodes \cap (S \cap Finder!Flat))
  BY <1>1, ThoseAre DEF Finder!Listed
<1>3. \A i \in 1..Len(Finder!Listed(S)) : Finder!Listed(S)[i] \in Finder!Nodes \cap (S \cap Finder!Flat)
  BY <1>2, ElementOfSeq
<1>4. Finder!Nodes \cap (S \cap Finder!Flat) \subseteq Finder!Nodes
  OBVIOUS
<1> QED BY <1>2, <1>3, <1>4, SeqMonotonic

LEMMA ThoseType ==
    ASSUME NEW s \in Seq(Finder!Nodes), NEW S
    PROVE  Finder!Those(s, S) \in Seq(Finder!Nodes)
<1>1. Finder!Those(s, S) \in Seq(Finder!Nodes \cap S) /\ Finder!Nodes \cap S \subseteq Finder!Nodes
  BY ThoseAre
<1> QED BY <1>1, SeqMonotonic

LEMMA OneNode ==
    ASSUME NEW n \in Finder!Nodes
    PROVE  <<n>> \in Seq(Finder!Nodes)
OBVIOUS

LEMMA FirstType ==
    ASSUME NEW s \in Seq(Finder!Nodes)
    PROVE  Finder!FirstOf(s) \in Seq(Finder!Nodes)
<1>1. CASE s = <<>>
  BY <1>1, EmptySeq DEF Finder!FirstOf
<1>2. CASE s # <<>>
  <2>1. 1 \in 1..Len(s)
    BY <1>2, EmptySeq
  <2>2. s[1] \in Finder!Nodes
    BY <2>1, ElementOfSeq
  <2> QED BY <1>2, <2>2, OneNode DEF Finder!FirstOf
<1> QED BY <1>1, <1>2

LEMMA AtType ==
    ASSUME NEW s \in Seq(Finder!Nodes), NEW i
    PROVE  Finder!At(s, i) \in Seq(Finder!Nodes)
<1> DEFINE j == IF i < 0 THEN Len(s) + i + 1 ELSE i + 1
<1>1. Finder!At(s, i) = IF j \in DOMAIN s THEN <<s[j]>> ELSE <<>>
  BY DEF Finder!At
<1>2. DOMAIN s = 1..Len(s)
  BY LenProperties
<1> HIDE DEF j
<1>3. CASE j \in DOMAIN s
  BY <1>1, <1>2, <1>3, ElementOfSeq, OneNode
<1>4. CASE j \notin DOMAIN s
  BY <1>1, <1>4, EmptySeq
<1> QED BY <1>3, <1>4

\* Every locator finds a list of elements.
LEMMA BaseType ==
    ASSUME Finder!LocatorsAssumption, NEW l \in Locators
    PROVE  Finder!Base(l) \in Seq(Finder!Nodes)
<1>1. l.by \in {"testId", "role", "label", "placeholder", "text"}
  BY DEF Finder!LocatorsAssumption
<1>2. CASE l.by = "testId"
  <2>1. Finder!Base(l) = Finder!FirstOf(Finder!Listed({n \in Finder!Nodes : Attr[n].testId = l.value}))
    BY <1>2 DEF Finder!Base
  <2> QED BY <2>1, ListedAre, FirstType
<1>3. CASE l.by = "role"
  <2>1. Finder!Base(l) = Finder!ByRole(l)
    BY <1>3 DEF Finder!Base
  <2> QED BY <2>1, ListedAre DEF Finder!ByRole
<1>4. CASE l.by = "label"
  <2>1. Finder!Base(l) = Finder!ByLabel(l)
    BY <1>4 DEF Finder!Base
  <2> QED BY <2>1, ListedAre DEF Finder!ByLabel
<1>5. CASE l.by = "placeholder"
  <2>1. Finder!Base(l) = Finder!ByPlaceholder(l)
    BY <1>5 DEF Finder!Base
  <2> QED BY <2>1, ListedAre, FirstType DEF Finder!ByPlaceholder
<1>6. CASE l.by = "text"
  <2>1. Finder!Base(l) = Finder!ByText(l)
    BY <1>6 DEF Finder!Base
  <2> QED BY <2>1, ListedAre DEF Finder!ByText
<1> QED BY <1>1, <1>2, <1>3, <1>4, <1>5, <1>6

LEMMA ChainOpType ==
    ASSUME Finder!LocatorsAssumption, NEW s \in Seq(Finder!Nodes), NEW cop
    PROVE  Finder!ApplyChainOp(s, cop) \in Seq(Finder!Nodes)
<1> DEFINE role == Finder!ExplicitRole(cop.role, cop.name)
<1>1. CASE s = <<>>
  BY <1>1, EmptySeq DEF Finder!ApplyChainOp
<1>2. CASE s # <<>>
  <2>0. Len(s) \in Nat \ {0} /\ DOMAIN s = 1..Len(s) /\ \A i \in 1..Len(s) : s[i] \in Finder!Nodes
    BY <1>2, EmptySeq, LenProperties, ElementOfSeq
  <2>1. CASE cop.op = "first"
    <3>1. Finder!ApplyChainOp(s, cop) = Finder!FirstOf(s)
      BY <1>2, <2>1 DEF Finder!ApplyChainOp
    <3> QED BY <3>1, FirstType
  <2>2. CASE cop.op = "last"
    <3>1. Finder!ApplyChainOp(s, cop) = <<s[Len(s)]>>
      BY <1>2, <2>2 DEF Finder!ApplyChainOp, Finder!Last
    <3> QED BY <3>1, <2>0, OneNode
  <2>3. CASE cop.op = "nth"
    <3>1. Finder!ApplyChainOp(s, cop) = Finder!At(s, cop.n)
      BY <1>2, <2>3 DEF Finder!ApplyChainOp
    <3> QED BY <3>1, AtType
  <2>4. CASE cop.op = "filter"
    <3>1. Finder!ApplyChainOp(s, cop) = Finder!Those(s, {n \in Finder!Nodes : cop.hasText \in Finder!Text(n)})
      BY <1>2, <2>4 DEF Finder!ApplyChainOp
    <3> QED BY <3>1, ThoseType
  <2>5. CASE cop.op = "descendant"
    <3> DEFINE finds == [i \in 1..Len(s) |-> Finder!Listed(role \cap Finder!Under(s[i]))]
    <3>1. Finder!ApplyChainOp(s, cop) = Finder!FlattenSeq(finds)
      BY <1>2, <2>0, <2>5 DEF Finder!ApplyChainOp
    <3>2. \A i \in 1..Len(s) : Finder!Listed(role \cap Finder!Under(s[i])) \in Seq(Finder!Nodes)
      BY ListedAre
    <3>3. finds \in Seq(Seq(Finder!Nodes))
      BY <2>0, <3>2
    <3> HIDE DEF finds
    <3> QED BY <3>1, <3>3, Flattened
  <2>6. CASE cop.op = "or"
    <3>1. Finder!ApplyChainOp(s, cop) = s \o Finder!Listed(role \ Finder!ToSet(s))
      BY <1>2, <2>6 DEF Finder!ApplyChainOp
    <3>2. Finder!Listed(role \ Finder!ToSet(s)) \in Seq(Finder!Nodes)
      BY ListedAre
    <3> QED BY <3>1, <3>2, ConcatProperties
  <2>7. CASE cop.op = "and"
    <3>1. Finder!ApplyChainOp(s, cop) = Finder!Those(s, role)
      BY <1>2, <2>7 DEF Finder!ApplyChainOp
    <3> QED BY <3>1, ThoseType
  <2>8. CASE cop.op \notin {"first", "last", "nth", "filter", "descendant", "or", "and"}
    <3>1. Finder!ApplyChainOp(s, cop) = s
      BY <1>2, <2>8 DEF Finder!ApplyChainOp
    <3> QED BY <3>1
  <2> QED BY <2>1, <2>2, <2>3, <2>4, <2>5, <2>6, <2>7, <2>8
<1> QED BY <1>1, <1>2

LEMMA MatchedType ==
    ASSUME Finder!LocatorsAssumption, NEW l \in Locators
    PROVE  Finder!ResolveMatchedSet(l) \in Seq(Finder!Nodes)
<1> DEFINE V == Seq(Finder!Nodes)
           n == Len(l.chain)
           finds == Finder!Those(Finder!Base(l), {m \in Finder!Nodes : l.hasText # None => l.hasText \in Finder!Text(m)})
           base == IF l.nth \in {None, 0} THEN finds ELSE Finder!At(finds, l.nth)
           Eq(f) == f = [k \in 0..n |->
                            IF k = 0 THEN IF l.nth \in {None, 0} THEN finds ELSE Finder!At(finds, l.nth)
                            ELSE Finder!ApplyChainOp(f[k - 1], l.chain[k])]
           after == CHOOSE f : Eq(f)
           g == [k \in 1..n |-> [v \in V |-> Finder!ApplyChainOp(v, l.chain[k])]]
<1>1. n \in Nat
  BY DEF Finder!LocatorsAssumption
<1>2. base \in V
  BY BaseType, ThoseType, AtType
<1>3. g \in [1..n -> [V -> V]]
  BY <1>1, ChainOpType
<1>4. Finder!ResolveMatchedSet(l) = after[n]
  BY DEF Finder!ResolveMatchedSet
<1> HIDE DEF V, n, finds
<1>5. \E f : Eq(f)
  <2>1. PICK f : Iterates(f, V, n, base, g)
    <3>1. n \in Nat
      BY <1>1
    <3> HIDE DEF g, base, Eq, after
    <3> QED BY <1>2, <1>3, <3>1, Recursion, Zenon
  <2>2. f \in [0..n -> V] /\ f[0] = base /\ \A i \in 1..n : f[i] = g[i][f[i - 1]]
    <3> HIDE DEF g, base, Eq, after
    <3> QED BY <2>1 DEF Iterates
  <2>3. \A i \in 1..n : f[i] = Finder!ApplyChainOp(f[i - 1], l.chain[i])
    <3> SUFFICES ASSUME NEW i \in 1..n PROVE f[i] = Finder!ApplyChainOp(f[i - 1], l.chain[i])
      OBVIOUS
    <3>1. f[i - 1] \in V
      BY <1>1, <2>2
    <3> QED BY <2>2, <3>1
  <2>4. Eq(f)
    <3> HIDE DEF g, after
    <3>1. \A i \in 0..n : f[i] = IF i = 0 THEN base ELSE Finder!ApplyChainOp(f[i - 1], l.chain[i])
      <4> SUFFICES ASSUME NEW i \in 0..n, i # 0 PROVE i \in 1..n
        BY <2>2, <2>3
      <4> QED BY <1>1
    <3> QED BY <2>2, <3>1
  <2> QED BY <2>4
<1>6. Eq(after)
  <2> HIDE DEF Eq
  <2> QED BY <1>5
<1> HIDE DEF after
<1>7. after[0] = base /\ \A i \in 1..n : after[i] = Finder!ApplyChainOp(after[i - 1], l.chain[i])
  <2> HIDE DEF g
  <2>1. \A i \in 0..n : after[i] = IF i = 0 THEN base ELSE Finder!ApplyChainOp(after[i - 1], l.chain[i])
    BY <1>6, Zenon
  <2> HIDE DEF base
  <2>2. 0 \in 0..n /\ \A i \in 1..n : i \in 0..n /\ i # 0
    BY <1>1
  <2> QED BY <2>1, <2>2
<1> HIDE DEF Eq, base
<1>8. \A i \in 0..n : after[i] \in V
  <2>1. \A i \in 1..n : after[i - 1] \in V => after[i] = g[i][after[i - 1]]
    BY <1>7
  <2>2. n \in Nat /\ after[0] = base
    BY <1>1, <1>7
  <2> HIDE DEF g
  <2> QED BY <1>2, <1>3, <2>1, <2>2, Recursed, Zenon
<1> QED BY <1>1, <1>4, <1>8 DEF V

LEMMA RefInit == Finder!LocatorsAssumption /\ Finder!Init => Finder!RefInv
<1> SUFFICES ASSUME Finder!LocatorsAssumption, Finder!Init PROVE Finder!RefInv
  OBVIOUS
<1>1. Finder!StampsName
  BY DEF Finder!Init, Finder!StampsName
<1> QED BY <1>1 DEF Finder!Init, Finder!RefInv, Finder!HitsTheNamedOne, Finder!Nodes, Finder!ToSet

\* A selector finds an element of the page by its stamp.
LEMMA QueryHits ==
    ASSUME Finder!LocatorsAssumption, NEW r, Finder!QuerySelector(r) # <<>>
    PROVE  Finder!QuerySelector(r)[1] \in present /\ Finder!QuerySelector(r)[1] \in Finder!Nodes /\ ref[Finder!QuerySelector(r)[1]] = r
<1> DEFINE finds == Finder!Listed({n \in Finder!Nodes : ref[n] = r})
<1>1. finds \in Seq(Finder!Nodes) /\ \A i \in 1..Len(finds) : finds[i] \in {n \in Finder!Nodes : ref[n] = r} \cap Finder!Flat
  BY ListedAre
<1>2. Finder!QuerySelector(r) = Finder!FirstOf(finds)
  BY DEF Finder!QuerySelector
<1> HIDE DEF finds
<1>3. finds # <<>> /\ Finder!QuerySelector(r)[1] = finds[1]
  BY <1>2 DEF Finder!FirstOf
<1>4. 1 \in 1..Len(finds)
  BY <1>1, <1>3, EmptySeq
<1> QED BY <1>1, <1>3, <1>4 DEF Finder!Flat

LEMMA ActStep ==
    ASSUME Finder!LocatorsAssumption, Finder!RefInv, NEW made \in resolved, Finder!Act(made)
    PROVE  Finder!RefInv'
<1> DEFINE finds == Finder!QuerySelector(made.ref)
<1>1. /\ resolved' \subseteq resolved /\ UNCHANGED <<present, ref, owner, left, returned, renders>>
      /\ acted' = IF finds = <<>> THEN None
                  ELSE [node |-> finds[1], named |-> owner[made.ref], call |-> made, plain |-> Finder!Plain]
  BY DEF Finder!Act
<1>2. Finder!StampsName'
  BY <1>1 DEF Finder!RefInv, Finder!StampsName, Finder!Plain
<1>3. /\ made.ref \in Finder!Refs /\ made.matched \in Seq(Finder!Nodes) /\ made.matched # <<>>
      /\ owner[made.ref] = made.matched[1] /\ Finder!StrictnessSatisfied(made.locator, made.matched)
  BY DEF Finder!RefInv
<1>4. Finder!HitsTheNamedOne'
  <2> SUFFICES ASSUME acted' # None, acted'.plain
               PROVE  /\ acted'.node = acted'.named
                      /\ \/ acted'.call.matched = <<acted'.node>>
                         \/ acted'.call.locator.by = "testId" \/ acted'.call.locator.nth # None
                         \/ acted'.call.locator.chain # <<>>
    BY DEF Finder!HitsTheNamedOne
  <2>1. /\ finds # <<>> /\ acted'.node = finds[1] /\ acted'.named = owner[made.ref]
        /\ acted'.call = made /\ Finder!Plain
    BY <1>1
  <2>2. finds[1] \in present /\ ref[finds[1]] = made.ref
    BY <2>1, QueryHits
  <2>3. made.ref # None
    BY <1>3 DEF Finder!LocatorsAssumption
  <2>4. owner[made.ref] = finds[1]
    BY <2>1, <2>2, <2>3 DEF Finder!RefInv, Finder!StampsName
  <2>5. Len(made.matched) = 1 => made.matched = <<made.matched[1]>>
    BY <1>3
  <2> QED BY <1>3, <2>1, <2>4, <2>5 DEF Finder!StrictnessSatisfied
<1> QED BY <1>1, <1>2, <1>4 DEF Finder!RefInv

LEMMA ActByRefStep ==
    ASSUME Finder!LocatorsAssumption, Finder!RefInv, NEW r \in Finder!Refs, Finder!ActByRef(r)
    PROVE  Finder!RefInv'
<1> DEFINE finds == Finder!QuerySelector(r)
<1>1. /\ UNCHANGED <<present, ref, resolved, owner, left, returned, renders>>
      /\ acted' = IF finds = <<>> THEN None
                  ELSE [node |-> finds[1], named |-> owner[r], call |-> None, plain |-> Finder!Plain]
  BY DEF Finder!ActByRef
<1>2. Finder!StampsName'
  BY <1>1 DEF Finder!RefInv, Finder!StampsName, Finder!Plain
<1>3. Finder!HitsTheNamedOne'
  <2> SUFFICES ASSUME acted' # None, acted'.plain
               PROVE  acted'.node = acted'.named /\ acted'.call = None
    BY DEF Finder!HitsTheNamedOne
  <2>1. finds # <<>> /\ acted'.node = finds[1] /\ acted'.named = owner[r] /\ acted'.call = None /\ Finder!Plain
    BY <1>1
  <2>2. finds[1] \in present /\ ref[finds[1]] = r /\ r # None
    BY <2>1, QueryHits DEF Finder!LocatorsAssumption
  <2>3. owner[r] = finds[1]
    BY <2>1, <2>2 DEF Finder!RefInv, Finder!StampsName
  <2> QED BY <2>1, <2>3
<1> QED BY <1>1, <1>2, <1>3 DEF Finder!RefInv

\* Stamps that are handed out for elements, of refs that nobody had.
LEMMA Stamping ==
    ASSUME Finder!LocatorsAssumption, Finder!RefInv, NEW N \in SUBSET Finder!Nodes,
           ref' \in [Finder!Nodes -> Finder!Refs \cup {None}], owner' \in [Finder!Refs -> Finder!Nodes \cup {None}],
           \A n \in N : ref'[n] \in Finder!FreshRefs /\ owner'[ref'[n]] = n,
           \A n \in Finder!Nodes \ N : ref'[n] = ref[n],
           \A r \in Finder!Refs : owner[r] # None => owner'[r] = owner[r],
           UNCHANGED <<present, acted, left, returned>>,
           \A c \in resolved' : c \in resolved \/
               (/\ c.ref \in Finder!Refs /\ c.ref[1] = "sp"
                /\ c.matched \in Seq(Finder!Nodes) /\ c.matched # <<>>
                /\ owner'[c.ref] = c.matched[1]
                /\ Finder!StrictnessSatisfied(c.locator, c.matched))
    PROVE  Finder!RefInv'
<1>1. \A n \in N : ref'[n] \in Finder!Refs /\ ref'[n][1] = "sp" /\ ref'[n] # None
  BY DEF Finder!FreshRefs, Finder!LocatorsAssumption
<1>2. \A n \in Finder!Nodes : None # n /\ (ref[n] # None => ref[n] \in Finder!Refs)
  BY DEF Finder!RefInv, Finder!LocatorsAssumption
<1>3. \A n \in Finder!Nodes : ref'[n] # None /\ ref'[n][1] = "sp" => owner'[ref'[n]] = n
  BY <1>2 DEF Finder!RefInv, Finder!StampsName
<1>4. Finder!Plain' => Finder!Plain
  BY <1>1 DEF Finder!Plain
<1>5. Finder!Plain' => \A n \in present : ref'[n] # None => owner'[ref'[n]] = n
  <2> SUFFICES ASSUME Finder!Plain, NEW n \in present, ref'[n] # None PROVE owner'[ref'[n]] = n
    BY <1>4
  <2>1. n \in Finder!Nodes
    BY DEF Finder!RefInv
  <2>2. CASE n \in N
    BY <2>2
  <2>3. CASE n \notin N
    <3>1. ref'[n] = ref[n] /\ ref[n] \in Finder!Refs /\ owner[ref[n]] = n
      BY <1>2, <2>1, <2>3 DEF Finder!RefInv, Finder!StampsName
    <3> QED BY <1>2, <2>1, <3>1
  <2> QED BY <2>2, <2>3
<1>6. Finder!Plain' => \A n \in Finder!Nodes \ (present \cup left) : ref'[n] # None => ref'[n][1] = "sp"
  BY <1>1, <1>4 DEF Finder!RefInv, Finder!StampsName
<1>7. Finder!StampsName'
  BY <1>3, <1>5, <1>6 DEF Finder!StampsName
<1>8. ASSUME NEW c \in resolved
      PROVE  /\ c.ref \in Finder!Refs /\ c.ref[1] = "sp"
             /\ c.matched \in Seq(Finder!Nodes) /\ c.matched # <<>>
             /\ owner'[c.ref] = c.matched[1]
             /\ Finder!StrictnessSatisfied(c.locator, c.matched)
  <2>1. /\ c.ref \in Finder!Refs /\ c.ref[1] = "sp"
        /\ c.matched \in Seq(Finder!Nodes) /\ c.matched # <<>>
        /\ owner[c.ref] = c.matched[1]
        /\ Finder!StrictnessSatisfied(c.locator, c.matched)
    BY DEF Finder!RefInv
  <2>2. c.matched[1] \in Finder!Nodes
    BY <2>1, EmptySeq, ElementOfSeq
  <2> QED BY <1>2, <2>1, <2>2
<1>9. \A c \in resolved' :
             /\ c.ref \in Finder!Refs /\ c.ref[1] = "sp"
             /\ c.matched \in Seq(Finder!Nodes) /\ c.matched # <<>>
             /\ owner'[c.ref] = c.matched[1]
             /\ Finder!StrictnessSatisfied(c.locator, c.matched)
  BY <1>8
<1>10. Finder!HitsTheNamedOne'
  BY DEF Finder!RefInv, Finder!HitsTheNamedOne
<1> QED BY <1>7, <1>9, <1>10 DEF Finder!RefInv

LEMMA ResolveStep ==
    ASSUME Finder!LocatorsAssumption, Finder!RefInv, NEW l \in Locators, NEW matches \in Seq(Finder!Nodes), Finder!Resolve(l, matches)
    PROVE  Finder!RefInv'
<1> DEFINE r == CHOOSE x \in Finder!FreshRefs : TRUE
           m == matches[1]
           made == [ref |-> r, locator |-> l, matched |-> matches]
<1>1. /\ Finder!FreshRefs # {} /\ matches # <<>>
      /\ ref' = [ref EXCEPT ![m] = r] /\ owner' = [owner EXCEPT ![r] = m]
      /\ resolved' = IF Finder!StrictnessSatisfied(l, matches) THEN resolved \cup {made} ELSE resolved
      /\ UNCHANGED <<present, acted, left, returned>>
  BY DEF Finder!Resolve
<1>2. r \in Finder!FreshRefs
  BY <1>1
<1> HIDE DEF r
<1>3. r \in Finder!Refs /\ r[1] = "sp" /\ owner[r] = None
  BY <1>2 DEF Finder!FreshRefs
<1>4. m \in Finder!Nodes
  BY <1>1, EmptySeq, ElementOfSeq
<1> HIDE DEF m
<1>5. ref' \in [Finder!Nodes -> Finder!Refs \cup {None}] /\ owner' \in [Finder!Refs -> Finder!Nodes \cup {None}]
  BY <1>1, <1>3, <1>4 DEF Finder!RefInv
<1>6. ref'[m] = r /\ owner'[r] = m /\ \A n \in Finder!Nodes \ {m} : ref'[n] = ref[n]
  BY <1>1, <1>3, <1>4 DEF Finder!RefInv
<1>7. \A x \in Finder!Refs : owner[x] # None => owner'[x] = owner[x]
  BY <1>1, <1>3 DEF Finder!RefInv
<1>8. ASSUME NEW c \in resolved', c \notin resolved
      PROVE  /\ c.ref \in Finder!Refs /\ c.ref[1] = "sp"
             /\ c.matched \in Seq(Finder!Nodes) /\ c.matched # <<>>
             /\ owner'[c.ref] = c.matched[1]
             /\ Finder!StrictnessSatisfied(c.locator, c.matched)
  <2>1. c = made /\ Finder!StrictnessSatisfied(l, matches)
    BY <1>1, <1>8
  <2>2. c.ref = r /\ c.locator = l /\ c.matched = matches
    BY <2>1
  <2> QED BY <1>1, <1>3, <1>6, <2>1, <2>2 DEF m
<1>9. \A n \in {m} : ref'[n] \in Finder!FreshRefs /\ owner'[ref'[n]] = n
  BY <1>2, <1>6
<1>10. {m} \in SUBSET Finder!Nodes
  BY <1>4
<1> QED BY <1>1, <1>5, <1>6, <1>7, <1>8, <1>9, <1>10, Stamping

\* The fresh refs, in some order.
LEMMA FreshListed ==
    ASSUME Finder!LocatorsAssumption
    PROVE  /\ Finder!SetToSeq(Finder!FreshRefs) \in Seq(Finder!FreshRefs)
           /\ \A i, j \in 1..Len(Finder!SetToSeq(Finder!FreshRefs)) :
                 Finder!SetToSeq(Finder!FreshRefs)[i] = Finder!SetToSeq(Finder!FreshRefs)[j] => i = j
<1> DEFINE S == Finder!FreshRefs
<1>1. IsFiniteSet(S)
  <2>1. IsFiniteSet(1..MaxRefs)
    BY FS_Interval DEF Finder!LocatorsAssumption
  <2>2. IsFiniteSet({"e", "sp"})
    <3>1. IsFiniteSet({"e"})
      BY FS_Singleton
    <3>2. IsFiniteSet({"e"} \cup {"sp"})
      BY <3>1, FS_AddElement
    <3>3. {"e"} \cup {"sp"} = {"e", "sp"}
      OBVIOUS
    <3> QED BY <3>2, <3>3
  <2>3. IsFiniteSet(Finder!Refs)
    BY <2>1, <2>2, FS_Product DEF Finder!Refs
  <2>4. S \in SUBSET Finder!Refs
    BY DEF Finder!FreshRefs
  <2> QED BY <2>3, <2>4, FS_Subset
<1> HIDE DEF S
<1>2. Cardinality(S) \in Nat /\ ExistsBijection(1..Cardinality(S), S)
  BY <1>1, FS_CardinalityType
<1>3. PICK f : f \in Bijection(1..Cardinality(S), S)
  BY <1>2 DEF ExistsBijection
<1>4. f \in [1..Cardinality(S) -> S] /\ Finder!IsInjective(f)
  BY <1>3 DEF Bijection, Injection, Surjection, IsInjective, Finder!IsInjective
<1> DEFINE fresh == Finder!SetToSeq(S)
<1>41. Finder!Cardinality(S) = Cardinality(S)
  BY DEF Cardinality, Finder!Cardinality
<1>5. fresh \in [1..Cardinality(S) -> S] /\ Finder!IsInjective(fresh)
  BY <1>4, <1>41 DEF Finder!SetToSeq
<1>6. fresh \in Seq(S) /\ Len(fresh) = Cardinality(S) /\ DOMAIN fresh = 1..Cardinality(S)
  <2> HIDE DEF fresh
  <2> QED BY <1>2, <1>5
<1> HIDE DEF fresh
<1>7. \A i, j \in 1..Len(fresh) : fresh[i] = fresh[j] => i = j
  BY <1>5, <1>6 DEF Finder!IsInjective
<1> QED BY <1>6, <1>7 DEF fresh, S

\* An element of a list has a last place there.
LEMMA LastPlace ==
    ASSUME NEW s \in Seq(Finder!Nodes), NEW n \in Finder!ToSet(s)
    PROVE  \E i \in DOMAIN s : s[i] = n /\ \A j \in DOMAIN s : s[j] = n => j <= i
<1>1. Len(s) \in Nat /\ DOMAIN s = 1..Len(s)
  BY LenProperties
<1> DEFINE T == {Len(s) - i : i \in {k \in 1..Len(s) : s[k] = n}}
<1>2. PICK k \in 1..Len(s) : s[k] = n
  BY <1>1 DEF Finder!ToSet
<1>3. T \in SUBSET Nat /\ T # {}
  BY <1>1, <1>2
<1>4. PICK t \in T : \A u \in T : t <= u
  <2> HIDE DEF T
  <2> QED BY <1>3, LeastIndex
<1>5. PICK i \in 1..Len(s) : s[i] = n /\ t = Len(s) - i
  BY <1>4
<1>6. ASSUME NEW j \in 1..Len(s), s[j] = n PROVE j <= i
  <2>1. Len(s) - j \in T
    BY <1>6
  <2>2. t <= Len(s) - j
    <3> HIDE DEF T
    <3> QED BY <1>4, <2>1
  <2> QED BY <1>1, <1>5, <2>2
<1> QED BY <1>1, <1>5, <1>6

LEMMA ResolveAllStep ==
    ASSUME Finder!LocatorsAssumption, Finder!RefInv, NEW matches \in Seq(Finder!Nodes), Finder!ResolveAll(matches)
    PROVE  Finder!RefInv'
<1> DEFINE fresh == Finder!SetToSeq(Finder!FreshRefs)
           gets(n) == fresh[CHOOSE i \in DOMAIN matches : /\ matches[i] = n
                                                         /\ \A j \in DOMAIN matches : matches[j] = n => j <= i]
<1>1. /\ Len(fresh) >= Len(matches)
      /\ ref' = [n \in Finder!Nodes |-> IF n \in Finder!ToSet(matches) THEN gets(n) ELSE ref[n]]
      /\ owner' = [r \in Finder!Refs |->
              IF \E i \in DOMAIN matches : fresh[i] = r
              THEN matches[CHOOSE i \in DOMAIN matches : fresh[i] = r] ELSE owner[r]]
      /\ UNCHANGED <<present, resolved, acted, left, returned>>
  BY DEF Finder!ResolveAll
<1>2. fresh \in Seq(Finder!FreshRefs) /\ \A i, j \in 1..Len(fresh) : fresh[i] = fresh[j] => i = j
  BY FreshListed
<1>3. /\ DOMAIN matches = 1..Len(matches) /\ Len(matches) \in Nat /\ Len(fresh) \in Nat
      /\ \A i \in 1..Len(matches) : matches[i] \in Finder!Nodes
      /\ \A i \in 1..Len(fresh) : fresh[i] \in Finder!FreshRefs
  BY <1>2, LenProperties, ElementOfSeq
<1>4. \A i \in DOMAIN matches : i \in 1..Len(fresh) /\ fresh[i] \in Finder!FreshRefs /\ fresh[i] \in Finder!Refs /\ owner[fresh[i]] = None
  BY <1>1, <1>3 DEF Finder!FreshRefs
<1> HIDE DEF fresh
<1>5. ASSUME NEW n \in Finder!ToSet(matches)
      PROVE  n \in Finder!Nodes /\ \E i \in DOMAIN matches : matches[i] = n /\ ref'[n] = fresh[i]
  <2>1. n \in Finder!Nodes
    BY <1>3 DEF Finder!ToSet
  <2>2. \E i \in DOMAIN matches : matches[i] = n /\ \A j \in DOMAIN matches : matches[j] = n => j <= i
    BY LastPlace
  <2> DEFINE i == CHOOSE i \in DOMAIN matches : /\ matches[i] = n
                                                /\ \A j \in DOMAIN matches : matches[j] = n => j <= i
  <2>3. i \in DOMAIN matches /\ matches[i] = n
    BY <2>2
  <2>4. ref'[n] = fresh[i]
    BY <1>1, <2>1
  <2> HIDE DEF i
  <2> QED BY <2>1, <2>3, <2>4
<1>6. \A i \in DOMAIN matches : owner'[fresh[i]] = matches[i]
  <2> SUFFICES ASSUME NEW i \in DOMAIN matches PROVE owner'[fresh[i]] = matches[i]
    OBVIOUS
  <2> DEFINE j == CHOOSE j \in DOMAIN matches : fresh[j] = fresh[i]
  <2>1. j \in DOMAIN matches /\ fresh[j] = fresh[i]
    OBVIOUS
  <2>2. owner'[fresh[i]] = matches[j]
    BY <1>1, <1>4
  <2> HIDE DEF j
  <2>3. j = i
    BY <1>2, <1>4, <2>1
  <2> QED BY <2>2, <2>3
<1>7. \A r \in Finder!Refs : owner[r] # None => owner'[r] = owner[r]
  <2> SUFFICES ASSUME NEW r \in Finder!Refs, owner[r] # None PROVE owner'[r] = owner[r]
    OBVIOUS
  <2>1. ~ \E i \in DOMAIN matches : fresh[i] = r
    BY <1>4
  <2> QED BY <1>1, <2>1
<1>8. owner' \in [Finder!Refs -> Finder!Nodes \cup {None}]
  <2> SUFFICES ASSUME NEW r \in Finder!Refs PROVE owner'[r] \in Finder!Nodes \cup {None}
    BY <1>1
  <2>1. CASE \E i \in DOMAIN matches : fresh[i] = r
    BY <1>3, <1>6, <2>1
  <2>2. CASE ~ \E i \in DOMAIN matches : fresh[i] = r
    <3>1. owner'[r] = owner[r]
      BY <1>1, <2>2
    <3> QED BY <3>1 DEF Finder!RefInv
  <2> QED BY <2>1, <2>2
<1>9. \A n \in Finder!Nodes \ Finder!ToSet(matches) : ref'[n] = ref[n]
  BY <1>1
<1>10. ref' \in [Finder!Nodes -> Finder!Refs \cup {None}]
  <2> SUFFICES ASSUME NEW n \in Finder!Nodes PROVE ref'[n] \in Finder!Refs \cup {None}
    BY <1>1
  <2>1. CASE n \in Finder!ToSet(matches)
    BY <1>4, <1>5, <2>1
  <2>2. CASE n \notin Finder!ToSet(matches)
    BY <1>9, <2>2 DEF Finder!RefInv
  <2> QED BY <2>1, <2>2
<1>11. \A n \in Finder!ToSet(matches) : ref'[n] \in Finder!FreshRefs /\ owner'[ref'[n]] = n
  BY <1>4, <1>5, <1>6
<1>12. Finder!ToSet(matches) \in SUBSET Finder!Nodes
  BY <1>5
<1> HIDE DEF gets
<1> QED BY <1>1, <1>7, <1>8, <1>9, <1>10, <1>11, <1>12, Stamping

\* The numbers of the stamps that a snapshot finds go up to the highest.
LEMMA HighestIs ==
    ASSUME Finder!LocatorsAssumption, Finder!RefInv
    PROVE  Finder!Highest \in Nat /\ \A k \in Finder!Numbers : k \in Nat /\ k <= Finder!Highest
<1>1. Finder!Numbers \subseteq 1..MaxRefs /\ MaxRefs \in Nat
  <2> SUFFICES ASSUME NEW m \in present, ~Attr[m].shadow, ref[m] # None, ref[m][1] = "e"
               PROVE  ref[m][2] \in 1..MaxRefs
    BY DEF Finder!Numbers, Finder!LocatorsAssumption
  <2>1. ref[m] \in Finder!Refs
    BY DEF Finder!RefInv
  <2> QED BY <2>1 DEF Finder!Refs
<1>2. CASE Finder!Numbers = {}
  BY <1>2 DEF Finder!Highest
<1>3. CASE Finder!Numbers # {}
  <2> DEFINE T == {MaxRefs - k : k \in Finder!Numbers}
  <2>1. T \in SUBSET Nat /\ T # {}
    <3>1. \A k \in Finder!Numbers : MaxRefs - k \in Nat
      BY <1>1
    <3> QED BY <1>3, <3>1
  <2>2. PICK t \in T : \A u \in T : t <= u
    <3> HIDE DEF T
    <3> QED BY <2>1, LeastIndex
  <2>3. PICK k \in Finder!Numbers : t = MaxRefs - k
    BY <2>2
  <2>4. \A j \in Finder!Numbers : k >= j
    <3> SUFFICES ASSUME NEW j \in Finder!Numbers PROVE k >= j
      OBVIOUS
    <3>1. MaxRefs - j \in T
      OBVIOUS
    <3>2. t <= MaxRefs - j
      <4> HIDE DEF T
      <4> QED BY <2>2, <3>1
    <3>3. j \in Int /\ k \in Int /\ MaxRefs \in Int
      BY <1>1, <2>3
    <3> QED BY <2>3, <3>2, <3>3
  <2>5. Finder!Max(Finder!Numbers) \in Finder!Numbers /\ \A j \in Finder!Numbers : Finder!Max(Finder!Numbers) >= j
    <3> HIDE DEF T
    <3> QED BY <2>4 DEF Finder!Max
  <2>6. Finder!Highest = Finder!Max(Finder!Numbers)
    BY <1>3 DEF Finder!Highest
  <2>7. Finder!Highest \in Nat
    <3>1. Finder!Highest \in Finder!Numbers
      BY <2>5, <2>6, Zenon
    <3> QED BY <1>1, <3>1
  <2>8. ASSUME NEW j \in Finder!Numbers PROVE j \in Nat /\ j <= Finder!Highest
    <3>1. j \in Nat
      BY <1>1
    <3>2. Finder!Highest >= j
      BY <2>5, <2>6, Zenon
    <3> QED BY <2>7, <3>1, <3>2
  <2> HIDE DEF T
  <2> QED BY <2>7, <2>8
<1> QED BY <1>2, <1>3

LEMMA SnapshotStep ==
    ASSUME Finder!LocatorsAssumption, Finder!RefInv, Finder!BuildSnapshot
    PROVE  Finder!RefInv'
<1> DEFINE walked == Finder!Walked
           highest == Finder!Highest
           new == Finder!Those(walked, {n \in Finder!Nodes : ref[n] = None})
           number(n) == highest + (CHOOSE i \in DOMAIN new : new[i] = n)
           stamped == [n \in Finder!Nodes |-> IF n \in Finder!ToSet(new) THEN <<"e", number(n)>> ELSE ref[n]]
           names(r) == Finder!Those(walked, {n \in Finder!Nodes : stamped[n] = r})
<1>1. /\ highest + Len(new) <= MaxRefs
      /\ ref' = stamped
      /\ owner' = [r \in Finder!Refs |-> IF names(r) = <<>> THEN owner[r] ELSE Finder!Last(names(r))]
      /\ UNCHANGED <<present, resolved, acted, left, returned>>
  BY DEF Finder!BuildSnapshot
<1>2. /\ walked \in Seq(Finder!Nodes) /\ \A i \in 1..Len(walked) : walked[i] \in Finder!Nodes \cap present
      /\ DOMAIN walked = 1..Len(walked)
  <2> DEFINE S == {n \in present : /\ Attr[n].interactable
                                   /\ \A m \in Attr[n].above \cup {n} : ~Attr[m].hidden}
  <2>1. walked \in Seq(Finder!Nodes \cap S)
    BY ThoseAre DEF Finder!Walked, Finder!LocatorsAssumption
  <2>2. Finder!Nodes \cap S \subseteq Finder!Nodes /\ Finder!Nodes \cap S \subseteq present
    OBVIOUS
  <2> HIDE DEF walked, S
  <2>3. \A i \in 1..Len(walked) : walked[i] \in Finder!Nodes \cap S
    BY <2>1, ElementOfSeq
  <2> QED BY <2>1, <2>2, <2>3, SeqMonotonic, LenProperties
<1>3. highest \in Nat /\ \A k \in Finder!Numbers : k \in Nat /\ k <= highest
  BY HighestIs
<1> HIDE DEF walked, highest
<1>4. /\ new \in Seq(Finder!Nodes) /\ DOMAIN new = 1..Len(new) /\ Len(new) \in Nat
      /\ \A i \in 1..Len(new) : new[i] \in Finder!Nodes /\ ref[new[i]] = None
  <2>1. new \in Seq(Finder!Nodes \cap {n \in Finder!Nodes : ref[n] = None})
    BY <1>2, ThoseAre
  <2>2. Finder!Nodes \cap {n \in Finder!Nodes : ref[n] = None} \subseteq Finder!Nodes
    OBVIOUS
  <2> HIDE DEF new
  <2>3. \A i \in 1..Len(new) : new[i] \in Finder!Nodes \cap {n \in Finder!Nodes : ref[n] = None}
    BY <2>1, ElementOfSeq
  <2>4. new \in Seq(Finder!Nodes)
    BY <2>1, <2>2, SeqMonotonic
  <2> QED BY <2>3, <2>4, LenProperties

<1>5. \A i \in 1..Len(new) : new[i] \in present
  <2> SUFFICES ASSUME NEW i \in 1..Len(new) PROVE new[i] \in present
    OBVIOUS
  <2>1. walked \in Seq(Finder!Nodes \cap present)
    BY <1>2
  <2>2. new \in Seq((Finder!Nodes \cap present) \cap {n \in Finder!Nodes : ref[n] = None})
    BY <2>1, ThoseAre
  <2> HIDE DEF new
  <2> QED BY <2>2, ElementOfSeq
<1> HIDE DEF new
<1>6. ASSUME NEW n \in Finder!ToSet(new)
      PROVE  /\ n \in Finder!Nodes /\ n \in present /\ ref[n] = None
             /\ \E i \in 1..Len(new) : new[i] = n /\ stamped[n] = <<"e", highest + i>>
  <2>1. n \in Finder!Nodes /\ n \in present /\ ref[n] = None
    BY <1>4, <1>5 DEF Finder!ToSet
  <2> DEFINE i == CHOOSE i \in DOMAIN new : new[i] = n
  <2>2. i \in 1..Len(new) /\ new[i] = n
    BY <1>4 DEF Finder!ToSet
  <2>3. stamped[n] = <<"e", highest + i>>
    BY <2>1
  <2> HIDE DEF i
  <2> QED BY <2>1, <2>2, <2>3
<1>7. \A n \in Finder!Nodes \ Finder!ToSet(new) : stamped[n] = ref[n]
  OBVIOUS
<1>8. \A n \in Finder!ToSet(new) : stamped[n] \in Finder!Refs /\ stamped[n][1] = "e" /\ stamped[n][2] > highest /\ stamped[n] # None
  <2> SUFFICES ASSUME NEW n \in Finder!ToSet(new)
               PROVE  stamped[n] \in Finder!Refs /\ stamped[n][1] = "e" /\ stamped[n][2] > highest
    BY DEF Finder!LocatorsAssumption
  <2>1. PICK i \in 1..Len(new) : stamped[n] = <<"e", highest + i>>
    BY <1>6
  <2>2. highest + i \in 1..MaxRefs /\ highest + i > highest
    BY <1>1, <1>3, <1>4 DEF Finder!LocatorsAssumption
  <2> HIDE DEF stamped
  <2> QED BY <2>1, <2>2 DEF Finder!Refs
<1>9. \A m, n \in Finder!ToSet(new) : stamped[m] = stamped[n] => m = n
  <2> SUFFICES ASSUME NEW m \in Finder!ToSet(new), NEW n \in Finder!ToSet(new), stamped[m] = stamped[n] PROVE m = n
    OBVIOUS
  <2>1. PICK i \in 1..Len(new) : new[i] = m /\ stamped[m] = <<"e", highest + i>>
    BY <1>6
  <2>2. PICK j \in 1..Len(new) : new[j] = n /\ stamped[n] = <<"e", highest + j>>
    BY <1>6
  <2> HIDE DEF stamped
  <2>3. highest + i = highest + j
    <3>1. <<"e", highest + i>> = <<"e", highest + j>>
      BY <2>1, <2>2, Zenon
    <3> QED BY <3>1
  <2>4. i = j
    BY <2>3, <1>3, <1>4
  <2> QED BY <2>1, <2>2, <2>4
<1>10. stamped \in [Finder!Nodes -> Finder!Refs \cup {None}]
  <2>1. \A n \in Finder!Nodes : stamped[n] \in Finder!Refs \cup {None}
    <3> HIDE DEF stamped
    <3> QED BY <1>7, <1>8 DEF Finder!RefInv
  <2> QED BY <2>1
<1> HIDE DEF stamped, number
\* Whom a ref names now.
<1>11. ASSUME NEW r \in Finder!Refs
       PROVE  \/ owner'[r] = owner[r] /\ \A i \in 1..Len(walked) : stamped[walked[i]] # r
              \/ /\ owner'[r] \in Finder!Nodes /\ owner'[r] \in present /\ stamped[owner'[r]] = r
  <2>1. owner'[r] = IF names(r) = <<>> THEN owner[r] ELSE Finder!Last(names(r))
    BY <1>1
  <2> DEFINE S == {n \in Finder!Nodes : stamped[n] = r}
             s == Finder!Those(walked, S)
  <2>2. /\ s \in Seq((Finder!Nodes \cap present) \cap S)
        /\ \A i \in 1..Len(walked) : walked[i] \in S => \E j \in 1..Len(s) : s[j] = walked[i]
    <3>1. walked \in Seq(Finder!Nodes \cap present)
      BY <1>2
    <3> HIDE DEF S
    <3> QED BY <3>1, ThoseAre
  <2>3. names(r) = s
    OBVIOUS
  <2> HIDE DEF names, s
  <2>4. CASE s = <<>>
    <3>1. owner'[r] = owner[r]
      BY <2>1, <2>3, <2>4
    <3>2. Len(s) = 0
      BY <2>4, EmptySeq
    <3>3. \A i \in 1..Len(walked) : walked[i] \notin S
      BY <2>2, <3>2
    <3> QED BY <1>2, <3>1, <3>3
  <2>5. CASE s # <<>>
    <3>1. Len(s) \in 1..Len(s)
      BY <2>2, <2>5, EmptySeq
    <3>2. s[Len(s)] \in (Finder!Nodes \cap present) \cap S
      BY <2>2, <3>1, ElementOfSeq
    <3>3. owner'[r] = s[Len(s)]
      BY <2>1, <2>3, <2>5 DEF Finder!Last
    <3> QED BY <3>2, <3>3
  <2> QED BY <2>4, <2>5
<1> HIDE DEF names
<1>12. \A n \in Finder!Nodes : None # n /\ (ref[n] # None => ref[n] \in Finder!Refs)
  BY DEF Finder!RefInv, Finder!LocatorsAssumption
\* Snapshots leave the stamps of resolved locators alone.
<1>13. ASSUME NEW r \in Finder!Refs, r[1] = "sp" PROVE owner'[r] = owner[r]
  <2> SUFFICES ASSUME owner'[r] \in Finder!Nodes, stamped[owner'[r]] = r PROVE owner'[r] = owner[r]
    BY <1>11
  <2>1. owner'[r] \notin Finder!ToSet(new)
    BY <1>8, <1>13
  <2>2. ref[owner'[r]] = r
    BY <1>7, <2>1
  <2>3. r # None
    BY DEF Finder!LocatorsAssumption
  <2> QED BY <1>13, <2>2, <2>3 DEF Finder!RefInv, Finder!StampsName
<1>14. \A n \in Finder!Nodes : ref'[n] # None /\ ref'[n][1] = "sp" => owner'[ref'[n]] = n
  <2> SUFFICES ASSUME NEW n \in Finder!Nodes, stamped[n] # None, stamped[n][1] = "sp" PROVE owner'[stamped[n]] = n
    BY <1>1
  <2>1. stamped[n] = ref[n] /\ ref[n] \in Finder!Refs
    BY <1>7, <1>8, <1>12
  <2>2. owner[ref[n]] = n
    BY <2>1 DEF Finder!RefInv, Finder!StampsName
  <2> QED BY <1>13, <2>1, <2>2
<1>15. Finder!Plain' => Finder!Plain
  <2> SUFFICES ASSUME Finder!Plain', NEW n \in Finder!Nodes, Attr[n].shadow PROVE ref[n] = None
    BY <1>1 DEF Finder!Plain
  <2>1. stamped[n] = None
    BY <1>1 DEF Finder!Plain
  <2> QED BY <1>7, <1>8, <2>1
<1>16. ASSUME Finder!Plain, NEW m \in Finder!Nodes \cap present, NEW n \in Finder!Nodes \cap present, stamped[m] = stamped[n], stamped[n] # None
       PROVE  m = n
  <2>1. \A x \in Finder!Nodes \cap present : x \notin Finder!ToSet(new) /\ stamped[x] # None /\ stamped[x][1] = "e" => stamped[x][2] \in Finder!Numbers
    BY <1>7, <1>16 DEF Finder!Numbers, Finder!Plain
  <2>2. \A k \in Finder!Numbers : ~(k > highest)
    BY <1>3
  <2>3. m \in Finder!ToSet(new) <=> n \in Finder!ToSet(new)
    BY <1>8, <1>16, <2>1, <2>2
  <2>4. CASE n \in Finder!ToSet(new)
    BY <1>9, <1>16, <2>3, <2>4
  <2>5. CASE n \notin Finder!ToSet(new)
    <3>1. ref[m] = ref[n] /\ ref[n] # None
      BY <1>7, <1>16, <2>3, <2>5
    <3>2. owner[ref[m]] = m /\ owner[ref[n]] = n
      BY <1>16, <3>1 DEF Finder!RefInv, Finder!StampsName
    <3> QED BY <3>1, <3>2
  <2> QED BY <2>4, <2>5
<1>17. ASSUME Finder!Plain, NEW n \in present, stamped[n] # None PROVE owner'[stamped[n]] = n
  <2>1. n \in Finder!Nodes /\ stamped[n] \in Finder!Refs
    BY <1>10, <1>17 DEF Finder!RefInv
  <2>2. CASE owner'[stamped[n]] \in Finder!Nodes /\ owner'[stamped[n]] \in present /\ stamped[owner'[stamped[n]]] = stamped[n]
    BY <1>16, <1>17, <2>1, <2>2
  <2>3. CASE /\ owner'[stamped[n]] = owner[stamped[n]]
             /\ \A i \in 1..Len(walked) : stamped[walked[i]] # stamped[n]
    <3>1. n \notin Finder!ToSet(new)
      <4> SUFFICES ASSUME n \in Finder!ToSet(new) PROVE \E i \in 1..Len(walked) : walked[i] = n
        BY <2>3
      <4>1. PICK i \in 1..Len(new) : new[i] = n
        BY <1>6
      <4> DEFINE R == {walked[j] : j \in 1..Len(walked)}
      <4>2. walked \in Seq(R)
        <5>1. \A j \in 1..Len(walked) : walked[j] \in R
          OBVIOUS
        <5> HIDE DEF R
        <5> QED BY <1>2, <5>1
      <4>3. new \in Seq(R \cap {x \in Finder!Nodes : ref[x] = None})
        <5> HIDE DEF R
        <5> QED BY <4>2, ThoseAre DEF new
      <4>4. new[i] \in R
        <5> HIDE DEF R
        <5> QED BY <4>3, ElementOfSeq
      <4> QED BY <4>1, <4>4
    <3>2. ref[n] = stamped[n]
      BY <1>7, <2>1, <3>1
    <3> QED BY <1>17, <2>3, <3>2 DEF Finder!RefInv, Finder!StampsName
  <2> QED BY <1>11, <2>1, <2>2, <2>3
<1>18. ASSUME Finder!Plain, NEW n \in Finder!Nodes \ (present \cup left), stamped[n] # None PROVE stamped[n][1] = "sp"
  <2>1. stamped[n] = ref[n]
    BY <1>6, <1>7
  <2> QED BY <1>18, <2>1 DEF Finder!RefInv, Finder!StampsName
<1>19. Finder!StampsName'
  BY <1>1, <1>14, <1>15, <1>17, <1>18 DEF Finder!StampsName
<1>20. owner' \in [Finder!Refs -> Finder!Nodes \cup {None}]
  <2>1. \A r \in Finder!Refs : owner'[r] \in Finder!Nodes \cup {None}
    BY <1>11 DEF Finder!RefInv
  <2> QED BY <1>1, <2>1
<1>21. \A made \in resolved' :
          /\ made.ref \in Finder!Refs /\ made.ref[1] = "sp"
          /\ made.matched \in Seq(Finder!Nodes) /\ made.matched # <<>>
          /\ owner'[made.ref] = made.matched[1]
          /\ Finder!StrictnessSatisfied(made.locator, made.matched)
  BY <1>1, <1>13 DEF Finder!RefInv
<1>22. Finder!HitsTheNamedOne'
  BY <1>1 DEF Finder!RefInv, Finder!HitsTheNamedOne
<1> QED BY <1>1, <1>10, <1>19, <1>20, <1>21, <1>22 DEF Finder!RefInv

LEMMA RenderStep ==
    ASSUME Finder!LocatorsAssumption, Finder!RefInv, Finder!Render
    PROVE  Finder!RefInv'
<1>1. UNCHANGED <<ref, resolved, owner, acted>>
  BY DEF Finder!Render
<1>2. present' \subseteq Finder!Nodes /\ Finder!StampsName'
  <2>1. CASE \E n \in present :
            LET gone == {m \in present : m = n \/ n \in Attr[m].above}
            IN  /\ present' = present \ gone
                /\ left' = left \cup gone
                /\ UNCHANGED returned
    BY <1>1, <2>1 DEF Finder!RefInv, Finder!StampsName, Finder!Plain
  <2>2. CASE \E n \in Finder!Nodes \ present :
            /\ Attr[n].above \subseteq present
            /\ present' = present \cup {n}
            /\ returned' = (returned \/ n \in left)
            /\ UNCHANGED left
    <3>1. PICK n \in Finder!Nodes \ present :
            /\ present' = present \cup {n}
            /\ returned' = (returned \/ n \in left)
            /\ UNCHANGED left
      BY <2>2
    <3>2. Finder!Plain' => Finder!Plain /\ n \notin left
      BY <1>1, <3>1 DEF Finder!Plain
    <3>3. Finder!Plain' => (ref[n] # None => owner[ref[n]] = n)
      BY <3>1, <3>2 DEF Finder!RefInv, Finder!StampsName
    <3> QED BY <1>1, <3>1, <3>2, <3>3 DEF Finder!RefInv, Finder!StampsName
  <2> QED BY <2>1, <2>2 DEF Finder!Render
<1>3. Finder!HitsTheNamedOne'
  BY <1>1 DEF Finder!RefInv, Finder!HitsTheNamedOne
<1> QED BY <1>1, <1>2, <1>3 DEF Finder!RefInv

LEMMA RefStep == Finder!LocatorsAssumption /\ Finder!RefInv /\ [Finder!Next]_(Finder!vars) => Finder!RefInv'
<1> SUFFICES ASSUME Finder!LocatorsAssumption, Finder!RefInv, [Finder!Next]_(Finder!vars) PROVE Finder!RefInv'
  OBVIOUS
<1>1. ASSUME NEW l \in Locators, LET matches == Finder!ResolveMatchedSet(l) IN Finder!Resolve(l, matches) \/ Finder!ResolveAll(matches)
      PROVE  Finder!RefInv'
  BY <1>1, MatchedType, ResolveStep, ResolveAllStep
<1>2. ASSUME NEW made \in resolved, Finder!Act(made) PROVE Finder!RefInv'
  BY <1>2, ActStep
<1>3. ASSUME NEW r \in Finder!Refs, Finder!ActByRef(r) PROVE Finder!RefInv'
  BY <1>3, ActByRefStep
<1>4. CASE Finder!BuildSnapshot
  BY <1>4, SnapshotStep
<1>5. CASE Finder!Render
  BY <1>5, RenderStep
<1>6. CASE UNCHANGED Finder!vars
  <2>1. UNCHANGED <<present, ref, resolved, owner, acted, left, returned>>
    BY <1>6 DEF Finder!vars
  <2>2. Finder!StampsName' /\ Finder!HitsTheNamedOne'
    BY <2>1 DEF Finder!RefInv, Finder!StampsName, Finder!Plain, Finder!HitsTheNamedOne
  <2> QED BY <2>1, <2>2 DEF Finder!RefInv
<1> QED BY <1>1, <1>2, <1>3, <1>4, <1>5, <1>6 DEF Finder!Next
=============================================================================
